--------------------------- MODULE ImportPipeline ---------------------------
(***************************************************************************)
(* One import batch, from the upload of its workbooks to the valuations it *)
(* publishes: create_import and the background parse_worker, the PATCH,    *)
(* cancel and commit handlers of routers/imports.py, and the commit loop   *)
(* of services/commit_worker.py.  Batches meet only in the tables of       *)
(* SnapshotStore, so one batch is modelled, next to the valuers and        *)
(* deleters that work on the same properties meanwhile.                    *)
(*                                                                         *)
(* A step is one await: a statement (autocommitted, except in the commit   *)
(* loop's transaction, which is the one of SnapshotStore) together with    *)
(* the synchronous code up to the next one, storage calls included.  The   *)
(* audit rows about batches and items, which nothing reads back, are left  *)
(* out.                                                                    *)
(*                                                                         *)
(* Workbooks and items are the same set: item[f] is the row of workbook f. *)
(***************************************************************************)
EXTENDS Naturals, Sequences, FiniteSets

CONSTANTS
    Properties,
    Inputs,          \* documents that validate and that the engine computes
    Refused,         \* documents that the engine refuses
    Files,           \* the workbooks of the upload
    Names,           \* their safe names, as sequences: "a.xlsx" is <<"a">>,
                     \* "a__1.xlsx" is <<"a", 1>>
    MaxName,         \* what is longer is cut off
    Manual,          \* the source of a valuation that was typed in
    Valuers,         \* streams of POST /properties/{id}/snapshots
    Deleters,        \* streams of DELETE /properties/{id}
    Reviewers,       \* streams of PATCH /imports/{id}/items/{id}
    Cancellers,      \* streams of POST /imports/{id}/cancel
    Committers,      \* streams of POST /imports/{id}/commit
    MaxSnapshots,    \* bound of SnapshotStore
    None             \* SQL null, and a row that is not there yet

ASSUME ImportAssumption ==
    /\ MaxSnapshots \in Nat
    /\ IsFiniteSet(Files)
    /\ MaxName \in Nat
    /\ \A nm \in Names : nm # None /\ Len(nm) <= MaxName
    /\ None \notin Properties \cup Inputs \cup Refused \cup Files
    /\ Manual \notin Files
    /\ Inputs \cap Refused = {}
    /\ Valuers \cap Committers = {}

VARIABLES
    snap, deleted, audit, tx, del,   \* SnapshotStore
    name,      \* the safe name of each workbook of the upload
    status,    \* import_batch.status ("none" before the INSERT)
    item,      \* the import_item row of each workbook, or None
    files,     \* the objects under the batch's prefix in the storage bucket
    worker,    \* create_import, then the background task parse_worker.run
    patch,     \* for each reviewer, the request it is handling
    cancel,    \* for each canceller
    commit     \* for each committer

storeVars == <<snap, deleted, audit, tx, del>>
batchVars == <<name, status, item, files, worker, patch, cancel, commit>>
vars == <<storeVars, batchVars>>

Store == INSTANCE SnapshotStore
           WITH Sources <- Files \cup {Manual}, Writers <- Valuers \cup Committers

Idle == [pc |-> "idle"]

Documents == Inputs \cup Refused
Resolutions == {"pending", "accepted", "edited", "rejected", "committed"}

\* The path a workbook is stored under if it is the n-th of its name: the
\* name gets a suffix, and upload cuts off what is too long (a name that fills
\* the limit has lost its extension already, so the suffix is what goes).
Truncated(nm) == IF Len(nm) > MaxName THEN SubSeq(nm, 1, MaxName) ELSE nm

Paths == Names \cup {Truncated(Append(nm, n)) : nm \in Names, n \in 1..Cardinality(Files)}

Item == [path       : Paths,                        \* storage_path
         parse      : {"ok", "error"},              \* "warning" counts as ok
         parsed     : Documents \cup {None},        \* parsed_inputs_json
         edits      : Documents \cup {None},        \* resolved_inputs_json
         resolution : Resolutions,
         property   : Properties \cup {None},       \* resolved_property_id
         snapshot   : Nat]                          \* resolved_snapshot_id, or 0

ASSUME NoItem == None \notin Item

Placeholder(path) ==
    [path |-> path, parse |-> "ok", parsed |-> None, edits |-> None,
     resolution |-> "pending", property |-> None, snapshot |-> 0]

\* The inputs the commit loop reads from an item.
Effective(it) == IF it.edits # None THEN it.edits ELSE it.parsed

Rows == {f \in Files : item[f] # None}

-----------------------------------------------------------------------------
(***************************************************************************)
(* Upload and parsing.                                                     *)
(***************************************************************************)
NoWork == [pc |-> "none", todo |-> {}, file |-> None, path |-> None,
           inputs |-> None, property |-> None]

CreateBatch ==
    /\ worker.pc = "none"
    /\ name' \in [Files -> Names]
    /\ status' = "parsing"
    /\ worker' = [worker EXCEPT !.pc = "uploading", !.todo = Files]
    /\ UNCHANGED <<storeVars, item, files, patch, cancel, commit>>

\* The workbooks of f's name that were stored before it.
Seen(f) == {g \in Files \ worker.todo : name[g] = name[f]}

\* Where workbook f is stored.  (Variant: under its name, whatever was seen.)
StoredUnderName(f) == name[f]
Stored(f) == IF Seen(f) = {} THEN name[f]
             ELSE Truncated(Append(name[f], Cardinality(Seen(f))))

UploadFile(f) ==
    /\ worker.pc = "uploading"
    /\ f \in worker.todo
    /\ Stored(f) \notin files
    /\ files' = files \cup {Stored(f)}
    /\ worker' = [worker EXCEPT !.pc = "inserting", !.file = f, !.path = Stored(f)]
    /\ UNCHANGED <<storeVars, name, status, item, patch, cancel, commit>>

\* There is an object of that name: the storage service raises, the request
\* is answered 500, and what it has stored and inserted stays.
UploadRefused(f) ==
    /\ worker.pc = "uploading"
    /\ f \in worker.todo
    /\ Stored(f) \in files
    /\ worker' = [NoWork EXCEPT !.pc = "refused"]
    /\ UNCHANGED <<storeVars, name, status, item, files, patch, cancel, commit>>

InsertPlaceholder ==
    /\ worker.pc = "inserting"
    /\ item' = [item EXCEPT ![worker.file] = Placeholder(worker.path)]
    /\ worker' = [worker EXCEPT !.pc = "uploading", !.todo = @ \ {worker.file},
                                !.file = None, !.path = None]
    /\ UNCHANGED <<storeVars, name, status, files, patch, cancel, commit>>

\* The response is sent, the background task starts and lists its items.
ListForParsing ==
    /\ worker.pc = "uploading"
    /\ worker.todo = {}
    /\ worker' = [worker EXCEPT !.pc = "parsing",
                    !.todo = {f \in Rows : item[f].parsed = None /\ item[f].parse # "error"}]
    /\ UNCHANGED <<storeVars, name, status, item, files, patch, cancel, commit>>

\* suggest: the one live property of the workbook's name, or none.
Suggested(p) == p \notin deleted

\* Download, parse and calculate succeed, and the matcher links the workbook.
ParseItem(f, v, p) ==
    /\ worker.pc = "parsing"
    /\ f \in worker.todo
    /\ item[f].path \in files
    /\ Suggested(p)
    /\ worker' = [worker EXCEPT !.pc = "matched", !.file = f,
                                !.inputs = v, !.property = p]
    /\ UNCHANGED <<storeVars, name, status, item, files, patch, cancel, commit>>

\* What mark_parsed makes of an item.  (Variant: the workbook is stored where
\* the property belongs.)
ParsedItemSwapped(it) ==
    [it EXCEPT !.parsed = worker.inputs, !.property = worker.file, !.resolution = "accepted"]
ParsedItem(it) ==
    [it EXCEPT !.parse = "ok", !.parsed = worker.inputs, !.property = worker.property,
               !.resolution = IF worker.property = None THEN "pending" ELSE "accepted"]

MarkParsed ==
    /\ worker.pc = "matched"
    /\ item' = [item EXCEPT ![worker.file] = ParsedItem(@)]
    /\ worker' = [NoWork EXCEPT !.pc = "parsing", !.todo = worker.todo \ {worker.file}]
    /\ UNCHANGED <<storeVars, name, status, files, patch, cancel, commit>>

\* What mark_parse_error makes of an item, given the inputs parsed, if any.
FailedItem(it, v) ==
    [it EXCEPT !.parse = "error", !.parsed = IF v = None THEN @ ELSE v]

\* The download or the parser fails (v = None), the engine refuses what was
\* parsed (v), or a statement fails and the last-resort handler takes over.
MarkParseError(f, v) ==
    /\ \/ worker.pc = "parsing" /\ f \in worker.todo
       \/ worker.pc = "matched" /\ f = worker.file /\ v = None
    /\ item' = [item EXCEPT ![f] = FailedItem(@, v)]
    /\ worker' = [NoWork EXCEPT !.pc = "parsing", !.todo = worker.todo \ {f}]
    /\ UNCHANGED <<storeVars, name, status, files, patch, cancel, commit>>

\* The loop is through.  (Variant: a loop that ends early.)
ParsingMayEnd == TRUE
ParsingDone == worker.todo = {}

\* The batch goes to review, whatever its status is by now.
FinishParsing ==
    /\ worker.pc = "parsing"
    /\ ParsingDone
    /\ status' = "review"
    /\ worker' = [worker EXCEPT !.pc = "finished"]
    /\ UNCHANGED <<storeVars, name, item, files, patch, cancel, commit>>

\* An upload or a statement outside the per-item guard fails, or the process
\* restarts: nothing resumes the work.
WorkerDies ==
    /\ worker.pc \notin {"none", "finished", "refused", "dead"}
    /\ worker' = [NoWork EXCEPT !.pc = "dead"]
    /\ UNCHANGED <<storeVars, name, status, item, files, patch, cancel, commit>>

Working ==
    \/ CreateBatch
    \/ \E f \in Files : UploadFile(f) \/ UploadRefused(f)
    \/ InsertPlaceholder
    \/ ListForParsing
    \/ \E f \in Files, v \in Inputs, p \in Properties \cup {None} : ParseItem(f, v, p)
    \/ MarkParsed
    \/ \E f \in Files, v \in Refused \cup {None} : MarkParseError(f, v)
    \/ FinishParsing
    \/ WorkerDies

-----------------------------------------------------------------------------
(***************************************************************************)
(* PATCH /imports/{id}/items/{id}.                                         *)
(***************************************************************************)

\* The bodies ImportItemPatch lets through.
PatchBody ==
    {b \in [resolution : {"accepted", "edited", "rejected"},
            property   : Properties \cup {None},
            inputs     : Documents \cup {None}] :
        /\ b.resolution \in {"accepted", "edited"} => b.property # None
        /\ b.resolution = "edited" => b.inputs # None}

\* What PATCH and commit ask of the batch.  (Variant: only that it exists.)
Exists == status # "none"
InReview == status = "review"

PatchCheck(r) ==
    /\ patch[r] = Idle
    /\ InReview
    /\ patch' = [patch EXCEPT ![r] = [pc |-> "checked"]]
    /\ UNCHANGED <<storeVars, name, status, item, files, worker, cancel, commit>>

\* An item with a parse error may not be accepted, and an edit goes through
\* the engine.  (Variant: any item may be accepted.)
AcceptableIfComputed(it, b) == b.resolution = "edited" => b.inputs \in Inputs
Acceptable(it, b) ==
    /\ ~(it.parse = "error" /\ b.resolution = "accepted")
    /\ b.resolution = "edited" => b.inputs \in Inputs

PatchLoad(r, f, b) ==
    /\ patch[r].pc = "checked"
    /\ f \in Rows
    /\ Acceptable(item[f], b)
    /\ patch' = [patch EXCEPT ![r] = [pc |-> "loaded", file |-> f, body |-> b]]
    /\ UNCHANGED <<storeVars, name, status, item, files, worker, cancel, commit>>

\* patch_resolution: the link is replaced, absent inputs keep the old ones.
PatchedItem(it, b) ==
    [it EXCEPT !.resolution = b.resolution, !.property = b.property,
               !.edits = IF b.inputs = None THEN @ ELSE b.inputs]

PatchWrite(r) ==
    /\ patch[r].pc = "loaded"
    /\ item' = [item EXCEPT ![patch[r].file] = PatchedItem(@, patch[r].body)]
    /\ patch' = [patch EXCEPT ![r] = Idle]
    /\ UNCHANGED <<storeVars, name, status, files, worker, cancel, commit>>

\* A 404 or 422, a failed statement, or a restart.
PatchFails(r) ==
    /\ patch[r] # Idle
    /\ patch' = [patch EXCEPT ![r] = Idle]
    /\ UNCHANGED <<storeVars, name, status, item, files, worker, cancel, commit>>

Patching(r) ==
    \/ PatchCheck(r)
    \/ \E f \in Files, b \in PatchBody : PatchLoad(r, f, b)
    \/ PatchWrite(r)
    \/ PatchFails(r)

-----------------------------------------------------------------------------
(***************************************************************************)
(* POST /imports/{id}/cancel.                                              *)
(***************************************************************************)
CancelCheck(c) ==
    /\ cancel[c] = Idle
    /\ status \in {"parsing", "review"}
    /\ cancel' = [cancel EXCEPT ![c] = [pc |-> "checked"]]
    /\ UNCHANGED <<storeVars, name, status, item, files, worker, patch, commit>>

\* The UPDATE names the batch only, so it overwrites whatever the status is.
CancelWrite(c) ==
    /\ cancel[c].pc = "checked"
    /\ status' = "cancelled"
    /\ cancel' = [cancel EXCEPT ![c] = [pc |-> "written"]]
    /\ UNCHANGED <<storeVars, name, item, files, worker, patch, commit>>

CancelCleanup(c) ==
    /\ cancel[c].pc = "written"
    /\ files' = {}
    /\ cancel' = [cancel EXCEPT ![c] = Idle]
    /\ UNCHANGED <<storeVars, name, status, item, worker, patch, commit>>

\* The storage call raises, a statement fails, or the process restarts.
CancelFails(c) ==
    /\ cancel[c] # Idle
    /\ cancel' = [cancel EXCEPT ![c] = Idle]
    /\ UNCHANGED <<storeVars, name, status, item, files, worker, patch, commit>>

Cancelling(c) ==
    CancelCheck(c) \/ CancelWrite(c) \/ CancelCleanup(c) \/ CancelFails(c)

CommitCheck(k) ==
    /\ commit[k] = Idle
    /\ InReview
    /\ commit' = [commit EXCEPT ![k] = [pc |-> "checked"]]
    /\ UNCHANGED <<storeVars, name, status, item, files, worker, patch, cancel>>

\* The WHERE clause of list_for_commit.  (Variant: without the snapshot.)
Resolved(it) == it.resolution \in {"accepted", "edited"}
Committable(it) == it.resolution \in {"accepted", "edited"} /\ it.snapshot = 0

Listed(f) == IF f \in Rows /\ Committable(item[f]) THEN item[f] ELSE None

\* list_for_commit: the loop works on copies of the rows it read here.
CommitList(k) ==
    /\ commit[k].pc = "checked"
    /\ commit' = [commit EXCEPT ![k] =
          [pc |-> "looping", seen |-> [f \in Files |-> Listed(f)], file |-> None]]
    /\ UNCHANGED <<storeVars, name, status, item, files, worker, patch, cancel>>

\* The loop without its item f.  (Variant: the item stays.)
StillWith(loop, f) == [loop EXCEPT !.pc = "looping", !.file = None]
Without(loop, f) ==
    [loop EXCEPT !.pc = "looping", !.file = None, !.seen[f] = None]

\* The item's transaction finds the linked property live.  (Variant: it does
\* not look.)
BeginItemUnchecked(k, it, f) ==
    /\ tx' = [tx EXCEPT ![k] = [pc |-> "checked", property |-> it.property,
                                inputs |-> Effective(it), source |-> f,
                                todo |-> {}, locked |-> {}]]
    /\ UNCHANGED <<snap, deleted, audit, del>>
BeginItem(k, it, f) == Store!CheckProperty(k, it.property, Effective(it), f)

\* The next item passes the checks on its copy, and its transaction begins.
CommitItem(k, f) ==
    /\ commit[k].pc = "looping"
    /\ commit[k].seen[f] # None
    /\ LET it == commit[k].seen[f]
       IN  /\ it.property # None
           /\ Effective(it) \in Inputs
           /\ BeginItem(k, it, f)
    /\ commit' = [commit EXCEPT ![k].pc = "writing", ![k].file = f]
    /\ UNCHANGED <<name, status, item, files, worker, patch, cancel>>

\* A CommitFailure before the transaction starts, or no connection in time.
CommitItemFails(k, f) ==
    /\ commit[k].pc = "looping"
    /\ commit[k].seen[f] # None
    /\ commit' = [commit EXCEPT ![k] = Without(@, f)]
    /\ UNCHANGED <<storeVars, name, status, item, files, worker, patch, cancel>>

CommitSupersede(k) ==
    /\ Store!Scan(k) \/ Store!LockRow(k)
    /\ UNCHANGED batchVars

\* What mark_committed makes of an item.  (Variant: it forgets the snapshot.)
CommittedItemUnlinked(it) == [it EXCEPT !.resolution = "committed"]
CommittedItem(it) ==
    [it EXCEPT !.resolution = "committed", !.snapshot = Len(snap) + 1]

\* The rest of the item's transaction: the snapshot, its audit row, and
\* mark_committed with the audit row of the item.
CommitWrite(k) ==
    /\ commit[k].pc = "writing"
    /\ Store!Write(k)
    /\ LET f == commit[k].file
       IN  /\ item' = [item EXCEPT ![f] = CommittedItem(@)]
           /\ commit' = [commit EXCEPT ![k] = Without(@, f)]
    /\ UNCHANGED <<name, status, files, worker, patch, cancel>>

\* The transaction rolls back; the loop counts a failure and goes on.
CommitItemAborts(k) ==
    /\ commit[k].pc = "writing"
    /\ Store!Abort(k)
    /\ commit' = [commit EXCEPT ![k] = Without(@, commit[k].file)]
    /\ UNCHANGED <<name, status, item, files, worker, patch, cancel>>

AllItemsTerminal == \A f \in Rows : item[f].resolution \in {"committed", "rejected"}

\* After the loop: count the committed items and look for open ones.
CommitTally(k) ==
    /\ commit[k].pc = "looping"
    /\ \A f \in Files : commit[k].seen[f] = None
    /\ \/ /\ AllItemsTerminal
          /\ commit' = [commit EXCEPT ![k] = [pc |-> "closing"]]
       \/ /\ ~AllItemsTerminal
          /\ commit' = [commit EXCEPT ![k] = Idle]
    /\ UNCHANGED <<storeVars, name, status, item, files, worker, patch, cancel>>

\* (Variant: the objects go first, the status follows.)
CommitCloseCleaning(k) ==
    /\ commit[k].pc = "closing"
    /\ files' = {}
    /\ commit' = [commit EXCEPT ![k] = [pc |-> "closed"]]
    /\ UNCHANGED <<storeVars, name, item, status, worker, patch, cancel>>
CommitClose(k) ==
    /\ commit[k].pc = "closing"
    /\ status' = "committed"
    /\ commit' = [commit EXCEPT ![k] = [pc |-> "closed"]]
    /\ UNCHANGED <<storeVars, name, item, files, worker, patch, cancel>>

CommitCleanup(k) ==
    /\ commit[k].pc = "closed"
    /\ files' = {}
    /\ commit' = [commit EXCEPT ![k] = Idle]
    /\ UNCHANGED <<storeVars, name, status, item, worker, patch, cancel>>

\* A statement outside the loop or the storage call fails, or the process
\* restarts and rolls the open transaction back.
CommitFails(k) ==
    /\ commit[k] # Idle
    /\ IF commit[k].pc = "writing" THEN Store!Abort(k) ELSE UNCHANGED storeVars
    /\ commit' = [commit EXCEPT ![k] = Idle]
    /\ UNCHANGED <<name, status, item, files, worker, patch, cancel>>

Committing(k) ==
    \/ CommitCheck(k)
    \/ CommitList(k)
    \/ \E f \in Files : CommitItem(k, f) \/ CommitItemFails(k, f)
    \/ CommitSupersede(k)
    \/ CommitWrite(k)
    \/ CommitItemAborts(k)
    \/ CommitTally(k)
    \/ CommitClose(k)
    \/ CommitCleanup(k)
    \/ CommitFails(k)

-----------------------------------------------------------------------------
\* A valuer types in a valuation: the publishing request of SnapshotStore.
Valuing(u) ==
    /\ \/ \E p \in Properties, v \in Inputs : Store!CheckProperty(u, p, v, Manual)
       \/ Store!Scan(u)
       \/ Store!LockRow(u)
       \/ Store!Write(u)
       \/ Store!Abort(u)
    /\ UNCHANGED batchVars

Deleting(d) == Store!Deleting(d) /\ UNCHANGED batchVars

Init ==
    /\ Store!Init
    /\ name = None
    /\ status = "none"
    /\ item = [f \in Files |-> None]
    /\ files = {}
    /\ worker = NoWork
    /\ patch = [r \in Reviewers |-> Idle]
    /\ cancel = [c \in Cancellers |-> Idle]
    /\ commit = [k \in Committers |-> Idle]

Next ==
    \/ Working
    \/ \E r \in Reviewers : Patching(r)
    \/ \E c \in Cancellers : Cancelling(c)
    \/ \E k \in Committers : Committing(k)
    \/ \E u \in Valuers : Valuing(u)
    \/ \E d \in Deleters : Deleting(d)

Spec == Init /\ [][Next]_vars

(***************************************************************************)
(* The event loop resumes what it has started: the background task, and    *)
(* the coroutine of every request.  Clients need not send requests, and    *)
(* no failure has to happen.                                               *)
(***************************************************************************)
WorkerSteps ==
    \/ \E f \in Files : UploadFile(f) \/ UploadRefused(f)
    \/ InsertPlaceholder
    \/ ListForParsing
    \/ \E f \in Files, v \in Inputs, p \in Properties \cup {None} : ParseItem(f, v, p)
    \/ MarkParsed
    \/ \E f \in Files, v \in Refused \cup {None} : MarkParseError(f, v)
    \/ FinishParsing

CommitSteps(k) ==
    \/ CommitList(k)
    \/ \E f \in Files : CommitItem(k, f) \/ CommitItemFails(k, f)
    \/ CommitWrite(k)
    \/ CommitTally(k)
    \/ CommitClose(k)
    \/ CommitCleanup(k)

Fairness ==
    /\ WF_vars(WorkerSteps)
    /\ \A c \in Cancellers : WF_vars(CancelWrite(c) \/ CancelCleanup(c))
    /\ \A k \in Committers :
          /\ WF_vars(CommitSteps(k))
          /\ WF_vars(Store!Scan(k) /\ UNCHANGED batchVars)
          /\ SF_vars(Store!LockRow(k) /\ UNCHANGED batchVars)
          /\ WF_vars(Store!BreakDeadlock(k) /\ CommitItemAborts(k))
    /\ \A u \in Valuers :
          /\ WF_vars((Store!Scan(u) \/ Store!Write(u)) /\ UNCHANGED batchVars)
          /\ SF_vars(Store!LockRow(u) /\ UNCHANGED batchVars)
          /\ WF_vars(Store!BreakDeadlock(u) /\ UNCHANGED batchVars)

FairSpec == Spec /\ Fairness

-----------------------------------------------------------------------------
(***************************************************************************)
(* Properties that hold.                                                   *)
(***************************************************************************)
\* A request to patch an item, and a commit in its loop: the copies it goes
\* through, and the one whose transaction is open.
Loaded == [pc : {"loaded"}, file : Files, body : PatchBody]
Copies == [Files -> Item \cup {None}]
Loop == [pc : {"looping"}, seen : Copies, file : {None}]
           \cup [pc : {"writing"}, seen : Copies, file : Files]

\* Every variable has the shape its table or handler gives it.
BatchTypeOK ==
    /\ IF worker.pc = "none" THEN name = None ELSE name \in [Files -> Names]
    /\ status \in {"none", "parsing", "review", "committed", "cancelled"}
    /\ item \in [Files -> Item \cup {None}]
    /\ files \subseteq Paths
    /\ worker \in [pc : {"none", "uploading", "inserting", "parsing", "matched",
                         "finished", "refused", "dead"},
                   todo : SUBSET Files, file : Files \cup {None},
                   path : Paths \cup {None},
                   inputs : Inputs \cup {None}, property : Properties \cup {None}]
    /\ patch \in [Reviewers -> {Idle, [pc |-> "checked"]} \cup Loaded]
    /\ cancel \in [Cancellers -> {Idle} \cup [pc : {"checked", "written"}]]
    /\ commit \in [Committers -> {Idle} \cup [pc : {"checked", "closing", "closed"}] \cup Loop]

TypeOK == Store!TypeOK /\ BatchTypeOK

\* Until the background task is through with every workbook the batch is not
\* in review, and no reviewer or committer has got past the status check: the
\* parser, which writes items without looking at them, has them to itself.
\* Cancelling the batch meanwhile does not open that door.
ReviewWaitsForParse ==
    worker.pc # "finished" =>
        /\ status \in {"none", "parsing", "cancelled"}
        /\ \A r \in Reviewers : patch[r] = Idle
        /\ \A k \in Committers : commit[k] = Idle

\* A batch in review or committed has an item for every workbook, and every
\* item was parsed or has an error, whatever failed and whoever cancelled.
ReviewHasEveryItem ==
    status \in {"review", "committed"} =>
        \A f \in Files : f \in Rows /\ (item[f].parsed # None \/ item[f].parse = "error")

\* An item that is accepted or edited, and every copy a commit loop took of
\* one, has a linked property and inputs: the failures no_property_link and
\* no_inputs of the loop are unreachable, however reviewers, parser and
\* committers interleave, and an edit holds inputs the engine computed.
ReadyToCommit(it) ==
    /\ it.property # None
    /\ Effective(it) # None
    /\ it.resolution = "edited" => it.edits \in Inputs

AcceptedIsReady ==
    /\ \A f \in Rows : item[f].resolution \in {"accepted", "edited"} => ReadyToCommit(item[f])
    /\ \A k \in Committers : commit[k].pc \in {"looping", "writing"} =>
          \A f \in Files : commit[k].seen[f] # None => ReadyToCommit(commit[k].seen[f])

\* Snapshots and items agree: an item's snapshot was made from its workbook,
\* a workbook's snapshot is known to its item, and "committed" is never said
\* of an item without one.
Provenance ==
    /\ \A f \in Rows :
          /\ item[f].resolution = "committed" => item[f].snapshot # 0
          /\ item[f].snapshot # 0 => /\ item[f].snapshot \in DOMAIN snap
                                     /\ snap[item[f].snapshot].source = f
    /\ \A i \in DOMAIN snap : snap[i].source # Manual =>
          /\ snap[i].source \in Rows
          /\ item[snap[i].source].snapshot >= i

\* A committer that sends its requests one by one makes at most one snapshot
\* of a workbook, whatever reviewers, failures and other committers do: the
\* list of the next call never holds an item this one committed.
OneSnapshotPerCommitter ==
    \A i, j \in DOMAIN snap :
        (snap[i].source = snap[j].source /\ snap[i].source # Manual
           /\ snap[i].by = snap[j].by) => i = j

\* The pipeline publishes only through the transactions of SnapshotStore.
StoreSpec == Store!Spec

\* When nobody cancels, the batch goes parsing -> review -> committed and no
\* step ever leaves "committed".
BatchAdvances ==
    [][\/ status = "none" /\ status' = "parsing"
       \/ status = "parsing" /\ status' = "review"
       \/ status = "review" /\ status' = "committed"]_status

\* When nobody cancels, every item has a source of its own until the batch is
\* committed (GET .../source answers with a link, not 410).
SourceAvailable(it) == it.path \in files

SourcesUntilCommitted ==
    /\ status # "committed" => \A f \in Rows : SourceAvailable(item[f])
    /\ \A f, g \in Rows : item[f].path = item[g].path => f = g

\* A batch that was created leaves "parsing" unless its worker dies: workbooks
\* of equal names are no reason to refuse the upload.  It may be refused only
\* when a suffixed name meets another workbook's name, or its suffix is cut.
NamesMeet ==
    \E f, g \in Files, n \in 1..Cardinality(Files) :
        f # g /\ Truncated(Append(name[f], n)) = name[g]

ParsingEnds ==
    (status = "parsing")
        ~> \/ status # "parsing"
           \/ worker.pc = "dead"
           \/ worker.pc = "refused" /\ NamesMeet

\* Every commit and every cancel that started ends, whatever it waits for.
ImportRequestsEnd ==
    /\ \A k \in Committers : (commit[k] # Idle) ~> (commit[k] = Idle)
    /\ \A c \in Cancellers : (cancel[c] # Idle) ~> (cancel[c] = Idle)

-----------------------------------------------------------------------------
(***************************************************************************)
(* What documents and comments say, and the code does not keep.            *)
(***************************************************************************)

\* "Ignore concurrent-commit races; per-item idempotency covers correctness":
\* one snapshot per workbook.  Two overlapping commits make two.
OneSnapshotPerItem ==
    \A i, j \in DOMAIN snap :
        snap[i].source = snap[j].source /\ snap[i].source # Manual => i = j

\* "Terminal states (committed, cancelled)": no step leaves one.
TerminalIsFinal ==
    [][status \notin {"committed", "cancelled"}]_status
=============================================================================
