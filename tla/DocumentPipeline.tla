-------------------------- MODULE DocumentPipeline --------------------------
(***************************************************************************)
(* The life of a document: the API that accepts the upload, the outbox     *)
(* event it commits, the BullMQ job the event becomes, the worker runs     *)
(* that process the job, the periodic reconciliation, the embedding        *)
(* backfill, the visibility switch and the account purge.                  *)
(*                                                                         *)
(* One action per database transaction or queue call; between two actions  *)
(* every other actor may move, a worker may crash and a lock may expire.   *)
(* Abstractions:                                                           *)
(*   - processing_version is never incremented and deleted_at never set by *)
(*     the code, so the guard's remaining conjuncts are "the row exists"   *)
(*     and "the status is not blocked"; rows disappear by account purge.   *)
(*   - document_files and processing_jobs rows are inserted by the same    *)
(*     transaction and vanish by the same cascade: job[d] # "none" is both.*)
(*   - time since updated_at is 0 (fresh), 1 (past queuedGraceMs) or 2     *)
(*     (past processingStuckMs); time since created_at is a Boolean (past  *)
(*     pendingUploadTtlMs = maxProcessingAgeMs).                           *)
(*   - progress, titles, page counts and the text itself are left out.     *)
(***************************************************************************)
EXTENDS Naturals, FiniteSets

CONSTANTS
    Docs,         \* document ids
    Legacy,       \* documents processed under the previous EMBEDDING_VERSION
    Nulled,       \* those of them whose vectors the migration set to NULL
    Copies,       \* documents that hold the same bytes (same SHA-256)
    Bare,         \* documents of headings alone, which chunkDocument cuts into nothing
    Workers,      \* slots of the document-processing workers (concurrency)
    None,         \* no worker, no document
    Stages,       \* number of markStage calls of a full run (5 in the code)
    MaxAttempts,  \* PROCESSING_RETRY.attempts (5 in the code)
    MaxStalled,   \* BullMQ's maxStalledCount (1 by default)
    MaxFaults,    \* bound: crashes, lost locks, exceptions, redeliveries
    MaxOps        \* bound: visibility switches and backfill runs

ASSUME PipelineAssumption ==
    /\ Legacy \subseteq Docs
    /\ Nulled \subseteq Legacy
    /\ Copies \subseteq Docs
    /\ Bare \subseteq Docs
    /\ Copies \subseteq Bare \/ Copies \cap Bare = {}
    /\ None \notin Docs \cup Workers
    /\ Stages \in Nat \ {0}
    /\ MaxAttempts \in Nat \ {0}
    /\ MaxStalled \in Nat
    /\ MaxFaults \in Nat
    /\ MaxOps \in Nat

VARIABLES
    status,      \* documents.status, "absent" before the insert, "gone" after the purge
    visibility,  \* documents.visibility
    error,       \* documents.error_code
    idle,        \* age of documents.updated_at: 0, 1 or 2
    old,         \* documents.created_at is at least an hour ago
    chunks,      \* document_chunks of the document: vectors and their label
    job,         \* processing_jobs.status, "none" without a row
    notes,       \* kinds of notification rows written for the document
    events,      \* number of the document's outbox events not yet published
    mq,          \* BullMQ: state of the job with the document's job id
    tries,       \* BullMQ: attemptsMade of that job
    stalls,      \* BullMQ: stalledCounter of that job
    owner,       \* BullMQ: worker slot that holds the job's lock
    run,         \* what each worker slot is executing
    plan,        \* the reconciliation round in progress: what is left per document
    scan,        \* documents a backfill run has selected
    asked,       \* documents with a "make public" request past its status check
    finished,    \* history: a run finalised the document since it was last requested
    faults, ops  \* spent budgets

rowVars  == <<status, visibility, error, idle, chunks, job, notes>>
mqVars   == <<mq, tries, stalls, owner>>
apiVars  == <<scan, asked, ops>>
vars == <<rowVars, old, events, mqVars, run, plan, apiVars, finished, faults>>

-----------------------------------------------------------------------------
\* Vocabulary

Ready        == {"ready", "partially_ready"}
Statuses     == {"absent", "pending_upload", "queued", "processing", "failed", "gone"} \cup Ready
Reconcilable == {"pending_upload", "queued", "processing"}
Recoverable  == {"queued", "processing"}
LiveStates   == {"waiting", "active", "delayed"}

(* What a document's chunk rows hold. "old": vectors and label of the       *)
(* previous embedding version; "null": the migration removed the vectors;  *)
(* "new": vectors and label of the current one; "relabelled": vectors of   *)
(* the previous version under the current label.                           *)
ChunkStates  == {"none", "old", "null", "new", "relabelled"}

RunPcs == {"idle", "claim", "stage", "lookup", "load", "save",
           "fail", "failFinal", "throw", "throwFinal", "done"}

IdleRun == [pc |-> "idle", doc |-> None, try |-> 0, stage |-> 0,
            canon |-> None, as |-> "none", from |-> "none"]

Exists(d) == status[d] \notin {"absent", "gone"}

Fault == faults < MaxFaults /\ faults' = faults + 1

\* Mutant: a failed document counts as finished for every write.
PassesGuardBlocksFailed(d, blocked) ==
    Exists(d) /\ status[d] \notin blocked \cup {"failed"}

(* passesProcessingGuard: the predicate every processing write re-checks   *)
(* under FOR UPDATE.                                                       *)
PassesGuard(d, blocked) == Exists(d) /\ status[d] \notin blocked

RunRecord == [pc : RunPcs, doc : Docs \cup {None}, try : 0..(MaxAttempts - 1),
              stage : 0..Stages, canon : Docs \cup {None},
              as : Ready \cup {"none"}, from : ChunkStates]

RowsTyped ==
    /\ status     \in [Docs -> Statuses]
    /\ visibility \in [Docs -> {"private", "public"}]
    /\ error      \in [Docs -> {"none", "processing", "summary", "abandoned", "timed_out"}]
    /\ idle       \in [Docs -> 0..2]
    /\ chunks     \in [Docs -> ChunkStates]
    /\ job        \in [Docs -> {"none", "pending", "running", "completed", "failed"}]
    /\ notes      \in [Docs -> SUBSET {"ready", "failed"}]

QueueTyped ==
    /\ events     \in [Docs -> Nat]
    /\ mq         \in [Docs -> {"none", "failed"} \cup LiveStates]
    /\ tries      \in [Docs -> 0..(MaxAttempts - 1)]
    /\ stalls     \in [Docs -> 0..MaxStalled]
    /\ owner      \in [Docs -> Workers \cup {None}]

RestTyped ==
    /\ old        \in [Docs -> BOOLEAN]
    /\ plan       \in [Docs -> {"none", "abandon", "expire", "failJob",
                                "check", "reset", "add", "pendJob"}]
    /\ scan \subseteq Docs
    /\ asked \subseteq Docs
    /\ finished   \in [Docs -> BOOLEAN]
    /\ faults \in 0..MaxFaults
    /\ ops \in 0..MaxOps

TypeOK == RowsTyped /\ QueueTyped /\ RestTyped /\ run \in [Workers -> RunRecord]

Init ==
    /\ status     = [d \in Docs |-> IF d \in Legacy THEN "ready" ELSE "absent"]
    /\ visibility = [d \in Docs |-> "private"]
    /\ error      = [d \in Docs |-> "none"]
    /\ idle       = [d \in Docs |-> 0]
    /\ old        = [d \in Docs |-> d \in Legacy]
    /\ chunks     = [d \in Docs |-> CASE d \notin Legacy \/ d \in Bare -> "none"
                                      [] d \in Nulled \ Bare            -> "null"
                                      [] OTHER                          -> "old"]
    /\ job        = [d \in Docs |-> IF d \in Legacy THEN "completed" ELSE "none"]
    /\ notes      = [d \in Docs |-> IF d \in Legacy THEN {"ready"} ELSE {}]
    /\ events     = [d \in Docs |-> 0]
    /\ mq         = [d \in Docs |-> "none"]
    /\ tries      = [d \in Docs |-> 0]
    /\ stalls     = [d \in Docs |-> 0]
    /\ owner      = [d \in Docs |-> None]
    /\ run        = [w \in Workers |-> IdleRun]
    /\ plan       = [d \in Docs |-> "none"]
    /\ scan       = {}
    /\ asked      = {}
    /\ finished   = [d \in Docs |-> d \in Legacy]
    /\ faults     = 0
    /\ ops        = 0

-----------------------------------------------------------------------------
\* The API

(* createUpload inserts the row; the presigned URL is given to the client.  *)
CreateUpload(d) ==
    /\ status[d] = "absent"
    /\ status' = [status EXCEPT ![d] = "pending_upload"]
    /\ idle' = [idle EXCEPT ![d] = 0]
    /\ UNCHANGED <<visibility, error, chunks, job, notes, old, events, mqVars,
                   run, plan, apiVars, finished, faults>>

\* Mutant: the outbox event is forgotten.
NoNewEvent(d) == events[d]

(* The outbox row inserted by the transaction that queues the document. *)
NewEvent(d) == events[d] + 1

(* completeUpload after its HEAD of the object succeeded: one transaction   *)
(* re-checks the status under FOR UPDATE, queues the document, inserts the  *)
(* file and job rows and the outbox event.                                  *)
CompleteUpload(d) ==
    /\ status[d] = "pending_upload"
    /\ status' = [status EXCEPT ![d] = "queued"]
    /\ idle' = [idle EXCEPT ![d] = 0]
    /\ job' = [job EXCEPT ![d] = IF job[d] = "none" THEN "pending" ELSE job[d]]
    /\ events' = [events EXCEPT ![d] = NewEvent(d)]
    /\ finished' = [finished EXCEPT ![d] = FALSE]
    /\ UNCHANGED <<visibility, error, chunks, notes, old, mqVars, run, plan,
                   apiVars, faults>>

(* setDocumentVisibility("public"), first half: the status it read allows   *)
(* publication.                                                             *)
AskPublic(d) ==
    /\ status[d] \in Ready
    /\ d \notin asked
    /\ ops < MaxOps
    /\ ops' = ops + 1
    /\ asked' = asked \cup {d}
    /\ UNCHANGED <<rowVars, old, events, mqVars, run, plan, scan, finished, faults>>

(* Second half: an UPDATE by id that does not look at the status again.     *)
SetPublic(d) ==
    /\ d \in asked
    /\ asked' = asked \ {d}
    /\ IF Exists(d)
       THEN /\ visibility' = [visibility EXCEPT ![d] = "public"]
            /\ idle' = [idle EXCEPT ![d] = 0]
       ELSE UNCHANGED <<visibility, idle>>
    /\ UNCHANGED <<status, error, chunks, job, notes, old, events, mqVars, run,
                   plan, scan, ops, finished, faults>>

SetPrivate(d) ==
    /\ Exists(d)
    /\ ops < MaxOps
    /\ ops' = ops + 1
    /\ visibility' = [visibility EXCEPT ![d] = "private"]
    /\ idle' = [idle EXCEPT ![d] = 0]
    /\ UNCHANGED <<status, error, chunks, job, notes, old, events, mqVars, run,
                   plan, scan, asked, finished, faults>>

(* The account purge deletes the owner; every row of the document cascades. *)
(* Outbox events and the BullMQ job have no foreign key and stay.           *)
Purge(d) ==
    /\ Exists(d)
    /\ status' = [status EXCEPT ![d] = "gone"]
    /\ visibility' = [visibility EXCEPT ![d] = "private"]
    /\ error' = [error EXCEPT ![d] = "none"]
    /\ idle' = [idle EXCEPT ![d] = 0]
    /\ chunks' = [chunks EXCEPT ![d] = "none"]
    /\ job' = [job EXCEPT ![d] = "none"]
    /\ notes' = [notes EXCEPT ![d] = {}]
    /\ UNCHANGED <<old, events, mqVars, run, plan, apiVars, finished, faults>>

-----------------------------------------------------------------------------
\* The embedding backfill script

(* findStaleDocuments: a selection made once, used later. *)
BackfillScan ==
    /\ scan = {}
    /\ ops < MaxOps
    /\ scan' = {d \in Docs : status[d] \in Ready /\ chunks[d] \in {"old", "null"}}
    /\ scan' # {}
    /\ ops' = ops + 1
    /\ UNCHANGED <<rowVars, old, events, mqVars, run, plan, asked, finished, faults>>

\* Mutant: the reprocessing request leaves the visibility as it was.
BackfillVisibilityKept(d) == visibility[d]

BackfillVisibility(d) == "private"

(* enqueueReprocess: one transaction that re-checks the status only. The    *)
(* processing_jobs row exists already and is left as it is.                 *)
BackfillEnqueue(d) ==
    /\ d \in scan
    /\ scan' = scan \ {d}
    /\ IF status[d] \in Ready
       THEN /\ status' = [status EXCEPT ![d] = "queued"]
            /\ visibility' = [visibility EXCEPT ![d] = BackfillVisibility(d)]
            /\ idle' = [idle EXCEPT ![d] = 0]
            /\ events' = [events EXCEPT ![d] = NewEvent(d)]
            /\ finished' = [finished EXCEPT ![d] = FALSE]
       ELSE UNCHANGED <<status, visibility, idle, events, finished>>
    /\ UNCHANGED <<error, chunks, job, notes, old, mqVars, run, plan, asked,
                   ops, faults>>

-----------------------------------------------------------------------------
\* The outbox publisher and BullMQ

(* queue.add with the document's stable job id: a job that still exists, in *)
(* whatever state, makes the call a no-op. Failed jobs are kept             *)
(* (removeOnFail: false), completed ones are removed.                       *)
AddJob(d) ==
    IF mq[d] = "none"
    THEN /\ mq' = [mq EXCEPT ![d] = "waiting"]
         /\ tries' = [tries EXCEPT ![d] = 0]
         /\ stalls' = [stalls EXCEPT ![d] = 0]
         /\ UNCHANGED owner
    ELSE UNCHANGED mqVars

(* The publisher adds the job and confirms the event (module Outbox has the *)
(* claim, the lease and the steps in between).                              *)
Deliver(d) ==
    /\ events[d] > 0
    /\ AddJob(d)
    /\ events' = [events EXCEPT ![d] = @ - 1]
    /\ UNCHANGED <<rowVars, old, run, plan, apiVars, finished, faults>>

(* The job is added and the confirmation is lost: the event will be         *)
(* delivered again.                                                         *)
DeliverUnconfirmed(d) ==
    /\ events[d] > 0
    /\ mq[d] = "none"
    /\ Fault
    /\ AddJob(d)
    /\ UNCHANGED <<rowVars, old, events, run, plan, apiVars, finished>>

(* A delayed retry becomes due. *)
Promote(d) ==
    /\ mq[d] = "delayed"
    /\ mq' = [mq EXCEPT ![d] = "waiting"]
    /\ UNCHANGED <<rowVars, old, events, tries, stalls, owner, run, plan,
                   apiVars, finished, faults>>

Fetch(w, d) ==
    /\ run[w].pc = "idle"
    /\ mq[d] = "waiting"
    /\ mq' = [mq EXCEPT ![d] = "active"]
    /\ owner' = [owner EXCEPT ![d] = w]
    /\ run' = [run EXCEPT ![w] = [IdleRun EXCEPT !.pc = "claim", !.doc = d,
                                                 !.try = tries[d]]]
    /\ UNCHANGED <<rowVars, old, events, tries, stalls, plan, apiVars,
                   finished, faults>>

(* The lock of an active job expired (its worker died or its event loop was *)
(* blocked): back to waiting, or failed without another run once the job    *)
(* has stalled more than MaxStalled times. The old run, if alive, goes on.  *)
Requeue(d) ==
    IF stalls[d] < MaxStalled
    THEN /\ mq' = [mq EXCEPT ![d] = "waiting"]
         /\ stalls' = [stalls EXCEPT ![d] = @ + 1]
    ELSE /\ mq' = [mq EXCEPT ![d] = "failed"]
         /\ UNCHANGED stalls

StallDead(d) ==
    /\ mq[d] = "active"
    /\ owner[d] = None
    /\ Requeue(d)
    /\ UNCHANGED <<rowVars, old, events, tries, owner, run, plan, apiVars,
                   finished, faults>>

StallAlive(d) ==
    /\ mq[d] = "active"
    /\ owner[d] # None
    /\ Fault
    /\ Requeue(d)
    /\ owner' = [owner EXCEPT ![d] = None]
    /\ UNCHANGED <<rowVars, old, events, tries, run, plan, apiVars, finished>>

(* The worker process dies; the lock of its job will expire. *)
Crash(w) ==
    /\ run[w].pc # "idle"
    /\ Fault
    /\ owner' = [d \in Docs |-> IF owner[d] = w THEN None ELSE owner[d]]
    /\ run' = [run EXCEPT ![w] = IdleRun]
    /\ UNCHANGED <<rowVars, old, events, mq, tries, stalls, plan, apiVars, finished>>

-----------------------------------------------------------------------------
\* The processor: processDocumentJob

(* claimDocument: guard and file row; a stale job completes as "skipped".   *)
Claim(w) ==
    LET d == run[w].doc IN
    /\ run[w].pc = "claim"
    /\ IF PassesGuard(d, {}) /\ job[d] # "none"
       THEN run' = [run EXCEPT ![w] = [@ EXCEPT !.pc = "stage", !.stage = 1]]
       ELSE run' = [run EXCEPT ![w].pc = "done"]
    /\ UNCHANGED <<rowVars, old, events, mqVars, plan, apiVars, finished, faults>>

(* Where a run goes after its i-th markStage: the content-dedup lookup      *)
(* after the first, the final save after the last.                          *)
AfterStage(r) ==
    IF r.stage = 1 THEN [r EXCEPT !.pc = "lookup"]
    ELSE IF r.stage = Stages THEN [r EXCEPT !.pc = "save"]
    ELSE [r EXCEPT !.stage = @ + 1]

AfterLookup(r) ==
    IF Stages = 1 THEN [r EXCEPT !.pc = "save"]
    ELSE [r EXCEPT !.pc = "stage", !.stage = 2]

StageBlocks == {}

(* markStage: when the guard holds the document and its job row move; the   *)
(* run goes on in either case.                                              *)
MarkStage(w) ==
    LET d == run[w].doc IN
    /\ run[w].pc = "stage"
    /\ IF PassesGuard(d, StageBlocks)
       THEN /\ status' = [status EXCEPT ![d] = "processing"]
            /\ visibility' = [visibility EXCEPT ![d] = "private"]
            /\ idle' = [idle EXCEPT ![d] = 0]
            /\ job' = [job EXCEPT ![d] = IF @ = "none" THEN "none" ELSE "running"]
       ELSE UNCHANGED <<status, visibility, idle, job>>
    /\ run' = [run EXCEPT ![w] = AfterStage(@)]
    /\ UNCHANGED <<error, chunks, notes, old, events, mqVars, plan, apiVars,
                   finished, faults>>

(* findCanonicalByChecksum: another ready document with the same bytes. *)
Canonical(d) == {e \in Copies \ {d} : d \in Copies /\ status[e] \in Ready}

Lookup(w) ==
    LET d == run[w].doc IN
    /\ run[w].pc = "lookup"
    /\ IF Canonical(d) = {}
       THEN run' = [run EXCEPT ![w] = AfterLookup(@)]
       ELSE \E e \in Canonical(d) :
              run' = [run EXCEPT ![w] =
                        [@ EXCEPT !.pc = "load", !.canon = e, !.as = status[e]]]
    /\ UNCHANGED <<rowVars, old, events, mqVars, plan, apiVars, finished, faults>>

\* Mutant: missing vectors are not noticed.
LoadableIfPresent(c) == c # "none"

(* loadFinalizedContent gives up when there is no row or a vector is NULL.  *)
Loadable(c) == c \notin {"none", "null"}

Load(w) ==
    LET c == chunks[run[w].canon] IN
    /\ run[w].pc = "load"
    /\ IF Loadable(c)
       THEN run' = [run EXCEPT ![w] = [@ EXCEPT !.pc = "save", !.from = c]]
       ELSE run' = [run EXCEPT ![w] = [AfterLookup(@) EXCEPT !.canon = None, !.as = "none"]]
    /\ UNCHANGED <<rowVars, old, events, mqVars, plan, apiVars, finished, faults>>

(* The rows the save inserts, always labelled with the current version:     *)
(* freshly embedded ones, or the copied vectors of the canonical document;  *)
(* no row at all for headings alone, which do not keep it from being ready. *)
SavedChunks(r) == CASE r.from = "none" -> IF r.doc \in Bare THEN "none" ELSE "new"
                    [] r.from = "old"  -> "relabelled"
                    [] OTHER           -> r.from

(* The status the save may give: a copy takes over the canonical's; an own  *)
(* run depends on whether the summary could be generated.                   *)
SavedStatuses(r) == IF r.from = "none" THEN Ready ELSE {r.as}

\* Mutant: the dedupe key names the document and version only.
WithNoticePerVersion(d, kind) == IF notes[d] = {} THEN {kind} ELSE notes[d]

(* A notification row is inserted unless its dedupe key, document + version *)
(* + kind, exists.                                                          *)
WithNotice(d, kind) == notes[d] \cup {kind}

(* saveChunksAndFinalize *)
Save(w) ==
    LET d == run[w].doc IN
    /\ run[w].pc = "save"
    /\ IF PassesGuard(d, {})
       THEN \E s \in SavedStatuses(run[w]) :
              /\ status' = [status EXCEPT ![d] = s]
              /\ error' = [error EXCEPT ![d] = IF s = "ready" THEN "none" ELSE "summary"]
              /\ idle' = [idle EXCEPT ![d] = 0]
              /\ chunks' = [chunks EXCEPT ![d] = SavedChunks(run[w])]
              /\ job' = [job EXCEPT ![d] = IF @ = "none" THEN "none" ELSE "completed"]
              /\ notes' = IF s = "ready" THEN [notes EXCEPT ![d] = WithNotice(d, "ready")]
                          ELSE notes
              /\ finished' = [finished EXCEPT ![d] = TRUE]
       ELSE UNCHANGED <<status, error, idle, chunks, job, notes, finished>>
    /\ run' = [run EXCEPT ![w].pc = "done"]
    /\ UNCHANGED <<visibility, old, events, mqVars, plan, apiVars, faults>>

(* The attempt is the last one BullMQ will make. *)
LastAttempt(t) == t + 1 >= MaxAttempts

(* An exception inside the try block: download, parsing, embedding, or the  *)
(* database call of the step itself (its transaction rolls back). Retryable *)
(* ones are left to BullMQ unless this was the last attempt.                *)
Raise(w, retryable) ==
    /\ run[w].pc \in {"stage", "lookup", "load", "save"}
    /\ Fault
    /\ run' = [run EXCEPT ![w].pc =
                 IF ~retryable THEN "failFinal"
                 ELSE IF LastAttempt(run[w].try) THEN "fail" ELSE "throw"]
    /\ UNCHANGED <<rowVars, old, events, mqVars, plan, apiVars, finished>>

(* claimDocument runs outside the try block: its errors are rethrown as is. *)
ClaimRaises(w) ==
    /\ run[w].pc = "claim"
    /\ Fault
    /\ run' = [run EXCEPT ![w].pc = "throw"]
    /\ UNCHANGED <<rowVars, old, events, mqVars, plan, apiVars, finished>>

\* Mutant: markFailed with the default write policy.
FailBlocksNothing == {}

(* markFailed must not overwrite a success. *)
FailBlocks == Ready

MarkFailed(w) ==
    LET d == run[w].doc IN
    /\ run[w].pc \in {"fail", "failFinal"}
    /\ IF PassesGuard(d, FailBlocks)
       THEN /\ status' = [status EXCEPT ![d] = "failed"]
            /\ error' = [error EXCEPT ![d] = "processing"]
            /\ idle' = [idle EXCEPT ![d] = 0]
            /\ job' = [job EXCEPT ![d] = IF @ = "none" THEN "none" ELSE "failed"]
            /\ notes' = [notes EXCEPT ![d] = WithNotice(d, "failed")]
       ELSE UNCHANGED <<status, error, idle, job, notes>>
    /\ run' = [run EXCEPT ![w].pc = IF @ = "fail" THEN "throw" ELSE "throwFinal"]
    /\ UNCHANGED <<visibility, chunks, old, events, mqVars, plan, apiVars,
                   finished, faults>>

(* markFailed itself fails: its error replaces the original one, so even a  *)
(* non-retryable failure reaches BullMQ as an ordinary, retryable error.    *)
MarkFailedRaises(w) ==
    /\ run[w].pc \in {"fail", "failFinal"}
    /\ Fault
    /\ run' = [run EXCEPT ![w].pc = "throw"]
    /\ UNCHANGED <<rowVars, old, events, mqVars, plan, apiVars, finished>>

(* The processor returns. Only the holder of the lock moves the job; a run  *)
(* whose lock was lost leaves the queue alone.                              *)
Complete(w) ==
    LET d == run[w].doc IN
    /\ run[w].pc = "done"
    /\ IF owner[d] = w
       THEN /\ mq' = [mq EXCEPT ![d] = "none"]
            /\ tries' = [tries EXCEPT ![d] = 0]
            /\ stalls' = [stalls EXCEPT ![d] = 0]
            /\ owner' = [owner EXCEPT ![d] = None]
       ELSE UNCHANGED mqVars
    /\ run' = [run EXCEPT ![w] = IdleRun]
    /\ UNCHANGED <<rowVars, old, events, plan, apiVars, finished, faults>>

(* The processor throws: delayed retry while attempts are left, else kept   *)
(* as a failed job.                                                         *)
Throw(w) ==
    LET d == run[w].doc
        again == run[w].pc = "throw" /\ ~LastAttempt(tries[d]) IN
    /\ run[w].pc \in {"throw", "throwFinal"}
    /\ IF owner[d] = w
       THEN /\ mq' = [mq EXCEPT ![d] = IF again THEN "delayed" ELSE "failed"]
            /\ tries' = [tries EXCEPT ![d] = IF again THEN @ + 1 ELSE @]
            /\ owner' = [owner EXCEPT ![d] = None]
            /\ UNCHANGED stalls
       ELSE UNCHANGED mqVars
    /\ run' = [run EXCEPT ![w] = IdleRun]
    /\ UNCHANGED <<rowVars, old, events, plan, apiVars, finished, faults>>

-----------------------------------------------------------------------------
\* Time and the reconciliation

Tick(d) ==
    /\ status[d] \in Reconcilable
    /\ idle[d] < 2
    /\ idle' = [idle EXCEPT ![d] = @ + 1]
    /\ UNCHANGED <<status, visibility, error, chunks, job, notes, old, events,
                   mqVars, run, plan, apiVars, finished, faults>>

Age(d) ==
    /\ Exists(d)
    /\ ~old[d]
    /\ old' = [old EXCEPT ![d] = TRUE]
    /\ UNCHANGED <<rowVars, events, mqVars, run, plan, apiVars, finished, faults>>

\* Mutant: no maximum processing age.
ClassifyWithoutExpiry(s, i, o) ==
    CASE s = "pending_upload" -> IF o THEN "abandon" ELSE "none"
      [] s = "queued" -> IF i >= 1 THEN "check" ELSE "none"
      [] s = "processing" -> IF i >= 2 THEN "check" ELSE "none"

(* classifyStaleDocument, "none" standing for its skip. *)
Classify(s, i, o) ==
    CASE s = "pending_upload" -> IF o THEN "abandon" ELSE "none"
      [] s \in Recoverable /\ o -> "expire"
      [] s = "queued" /\ ~o -> IF i >= 1 THEN "check" ELSE "none"
      [] s = "processing" /\ ~o -> IF i >= 2 THEN "check" ELSE "none"

(* listStale and the classification of every row it returned: from here on  *)
(* the round works with what it read.                                       *)
Stale(d) == status[d] \in Reconcilable /\ idle[d] >= 1

Round == [d \in Docs |-> IF Stale(d) THEN Classify(status[d], idle[d], old[d]) ELSE "none"]

ReconcileList ==
    /\ \A d \in Docs : plan[d] = "none"
    /\ \E d \in Docs : Round[d] # "none"
    /\ plan' = Round
    /\ UNCHANGED <<rowVars, old, events, mqVars, run, apiVars, finished, faults>>

(* The loop handles one document at a time. *)
MyTurn(d) == \A e \in Docs \ {d} : plan[e] \in {"none", "abandon", "expire", "check"}

(* fail(): guarded UPDATE of the document, *)
ReconcileFail(d) ==
    /\ plan[d] \in {"abandon", "expire"}
    /\ MyTurn(d)
    /\ IF status[d] \in Reconcilable
       THEN /\ status' = [status EXCEPT ![d] = "failed"]
            /\ error' = [error EXCEPT ![d] =
                           IF plan[d] = "abandon" THEN "abandoned" ELSE "timed_out"]
            /\ idle' = [idle EXCEPT ![d] = 0]
            /\ plan' = [plan EXCEPT ![d] = "failJob"]
       ELSE /\ plan' = [plan EXCEPT ![d] = "none"]
            /\ UNCHANGED <<status, error, idle>>
    /\ UNCHANGED <<visibility, chunks, job, notes, old, events, mqVars, run,
                   apiVars, finished, faults>>

(* then an unguarded UPDATE of its job row. *)
ReconcileFailJob(d) ==
    /\ plan[d] = "failJob"
    /\ job' = [job EXCEPT ![d] = IF @ = "none" THEN "none" ELSE "failed"]
    /\ plan' = [plan EXCEPT ![d] = "none"]
    /\ UNCHANGED <<status, visibility, error, idle, chunks, notes, old, events,
                   mqVars, run, apiVars, finished, faults>>

(* hasLiveJob *)
ReconcileCheck(d) ==
    /\ plan[d] = "check"
    /\ MyTurn(d)
    /\ plan' = [plan EXCEPT ![d] = IF mq[d] \in LiveStates THEN "none" ELSE "reset"]
    /\ UNCHANGED <<rowVars, old, events, mqVars, run, apiVars, finished, faults>>

(* recover(): guarded reset of the document, *)
ReconcileReset(d) ==
    /\ plan[d] = "reset"
    /\ IF status[d] \in Recoverable
       THEN /\ status' = [status EXCEPT ![d] = "queued"]
            /\ visibility' = [visibility EXCEPT ![d] = "private"]
            /\ idle' = [idle EXCEPT ![d] = 0]
            /\ plan' = [plan EXCEPT ![d] = "add"]
       ELSE /\ plan' = [plan EXCEPT ![d] = "none"]
            /\ UNCHANGED <<status, visibility, idle>>
    /\ UNCHANGED <<error, chunks, job, notes, old, events, mqVars, run, apiVars,
                   finished, faults>>

(* then queue.add, *)
ReconcileAdd(d) ==
    /\ plan[d] = "add"
    /\ AddJob(d)
    /\ plan' = [plan EXCEPT ![d] = "pendJob"]
    /\ UNCHANGED <<rowVars, old, events, run, apiVars, finished, faults>>

(* then an unguarded UPDATE of its job row. *)
ReconcilePendJob(d) ==
    /\ plan[d] = "pendJob"
    /\ job' = [job EXCEPT ![d] = IF @ = "none" THEN "none" ELSE "pending"]
    /\ plan' = [plan EXCEPT ![d] = "none"]
    /\ UNCHANGED <<status, visibility, error, idle, chunks, notes, old, events,
                   mqVars, run, apiVars, finished, faults>>

(* An exception (Redis or database down) or a crash ends the round early.   *)
ReconcileAbort ==
    /\ \E d \in Docs : plan[d] # "none"
    /\ Fault
    /\ plan' = [d \in Docs |-> "none"]
    /\ UNCHANGED <<rowVars, old, events, mqVars, run, apiVars, finished>>

-----------------------------------------------------------------------------
ApiStep(d) ==
    \/ CreateUpload(d) \/ CompleteUpload(d) \/ AskPublic(d) \/ SetPublic(d)
    \/ SetPrivate(d) \/ Purge(d)

QueueStep(d) ==
    \/ BackfillEnqueue(d) \/ Deliver(d) \/ DeliverUnconfirmed(d) \/ Promote(d)
    \/ StallDead(d) \/ StallAlive(d) \/ Tick(d) \/ Age(d)

(* What a run does when nothing goes wrong. *)
RunStep(w) ==
    \/ Claim(w) \/ MarkStage(w) \/ Lookup(w) \/ Load(w) \/ Save(w)
    \/ MarkFailed(w) \/ Complete(w) \/ Throw(w)

RunFault(w) ==
    \/ ClaimRaises(w) \/ MarkFailedRaises(w) \/ Crash(w)
    \/ \E retryable \in BOOLEAN : Raise(w, retryable)

ReconcileStep(d) ==
    \/ ReconcileFail(d) \/ ReconcileFailJob(d) \/ ReconcileCheck(d)
    \/ ReconcileReset(d) \/ ReconcileAdd(d) \/ ReconcilePendJob(d)

Next ==
    \/ \E d \in Docs : ApiStep(d) \/ QueueStep(d) \/ ReconcileStep(d)
    \/ \E w \in Workers : RunStep(w) \/ RunFault(w)
    \/ \E w \in Workers, d \in Docs : Fetch(w, d)
    \/ BackfillScan
    \/ ReconcileList
    \/ ReconcileAbort

Spec == Init /\ [][Next]_vars

(* The processes that poll or are driven by a timer keep going: workers,    *)
(* BullMQ's promotion of due retries and its stalled check, the publisher's *)
(* interval, the repeatable reconciliation. Clients owe nothing, and faults *)
(* are never required.                                                      *)
Fairness ==
    /\ \A w \in Workers : /\ WF_vars(RunStep(w))
                          /\ WF_vars(\E d \in Docs : Fetch(w, d))
    /\ \A d \in Docs : /\ WF_vars(Deliver(d))
                       /\ WF_vars(Promote(d))
                       /\ WF_vars(StallDead(d))
                       /\ WF_vars(Tick(d))
                       /\ WF_vars(Age(d))
                       /\ WF_vars(ReconcileStep(d))
    /\ WF_vars(ReconcileList)

FairSpec == Spec /\ Fairness

-----------------------------------------------------------------------------
\* Properties

(* What the user sees of an outcome is complete whatever deliveries,         *)
(* retries and reconciliations produced it: "ready" comes with its           *)
(* notification and no error, "partially_ready" with the summary's error,    *)
(* "failed" either with the worker's notification or with one of the         *)
(* reconciliation's codes (saveChunksAndFinalize, markFailed, fail).         *)
OutcomeRecorded ==
    \A d \in Docs :
        /\ status[d] = "ready" => "ready" \in notes[d] /\ error[d] = "none"
        /\ status[d] = "partially_ready" => error[d] = "summary"
        /\ status[d] = "failed" => \/ error[d] = "processing" /\ "failed" \in notes[d]
                                  \/ error[d] \in {"abandoned", "timed_out"}

(* A document the current workers have made ready can be searched, unless    *)
(* there is nothing under its headings: its chunk rows exist and carry       *)
(* vectors, also when they were copied from another document whose vectors   *)
(* were being rebuilt (chunkDocument, loadFinalizedContent).                 *)
ReadySearchable ==
    \A d \in Docs \ Bare : status[d] \in Ready /\ d \notin Legacy
                            => chunks[d] \in {"new", "relabelled"}

(* No single step turns a success into a failure: not the last attempt of a  *)
(* duplicate delivery, not the reconciliation working on an old listing      *)
(* (READY_STATUSES in markFailed, the guarded WHERE of fail).                *)
NoFailureOverSuccess ==
    [][\A d \in Docs : status[d] \in Ready => status'[d] # "failed"]_vars

(* Whoever sends a document back for processing makes it private in the same *)
(* write: markStage, recover, the backfill, completeUpload.                  *)
ReprocessingStartsPrivate ==
    [][\A d \in Docs : status[d] \notin Recoverable /\ status'[d] \in Recoverable
                        => visibility'[d] = "private"]_vars

(* The queued status and the promise of work are one (ADR-005): as long as   *)
(* nothing fails and outside a reconciliation, a queued document has an      *)
(* event to publish or a job a worker will run - also after a backfill that  *)
(* reuses the job id of a finished run.                                      *)
QueuedHasCarrier ==
    \A d \in Docs : faults = 0 /\ status[d] = "queued" /\ plan[d] = "none"
                     => events[d] > 0 \/ mq[d] \in LiveStates

(* Every document comes to rest: after finitely many faults and requests its *)
(* status stops changing and is not one that promises further work.          *)
EventuallyStable ==
    \A d \in Docs : <>[](status[d] \in Ready \cup {"absent", "failed", "gone"})

(* Without faults an accepted upload becomes ready, even when the            *)
(* reconciliation gives up on it while its job is under way.                 *)
HealthyUploadReady ==
    \A d \in Docs :
        status[d] = "queued" ~> status[d] \in Ready \cup {"gone"} \/ faults > 0

-----------------------------------------------------------------------------
\* What the repository says and the code does not keep

(* Once a delivery has finalised a document, another delivery's last failing *)
(* attempt does not make it failed (comment of markFailed). markStage of the *)
(* second delivery takes the ready status away first.                        *)
SuccessSurvivesDuplicate ==
    \A d \in Docs : finished[d] => ~(status[d] = "failed" /\ error[d] = "processing")
=============================================================================
