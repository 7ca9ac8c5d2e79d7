------------------------------ MODULE Admission ------------------------------
(***************************************************************************)
(* Uploads into one workspace of one user, from the client's first request *)
(* to the list that shows the document: the creation with its idempotency  *)
(* key, the duplicate and quota checks, the PUT to the object storage, the *)
(* confirmation, and the list the client polls. Apps send a key made from  *)
(* the content, the web client sends none.                                 *)
(*   apps/api/src/modules/documents, apps/api/src/modules/quota,           *)
(*   apps/web/features/documents, apps/ios/.../Upload, .../Documents       *)
(***************************************************************************)
EXTENDS Naturals, Sequences, FiniteSets

CONSTANTS
    Clients,      \* browser tabs and apps
    ContentOf,    \* the file a client uploads
    SizeOf,       \* bytes of a file
    Apps,         \* clients that send an Idempotency-Key
    Viewers,      \* clients that show the list
    NoKey,
    MaxDocuments, \* MAX_DOCUMENTS_PER_WORKSPACE
    StorageQuota, \* STORAGE_QUOTA_BYTES
    MaxTries,     \* uploads a client starts
    MaxLosses     \* lost calls and failures of a behaviour

ASSUME AdmissionAssumption ==
    /\ Apps \cup Viewers \subseteq Clients /\ NoKey \notin Clients
    /\ MaxDocuments \in Nat /\ StorageQuota \in Nat
    /\ MaxTries \in Nat /\ MaxLosses \in Nat
    /\ Clients # {} /\ IsFiniteSet(Clients)
    /\ \A c \in Clients : SizeOf[ContentOf[c]] \in Nat

VARIABLES
    docs,   \* rows of the workspace, in the order of their insertion
    stored, \* documents whose object is in the storage
    reqs,   \* requests the API works on
    progress,     \* where a client's upload is
    doc,    \* the document it has been given; 0 is none
    tries,  \* uploads it has started
    shown,  \* the statuses its list shows
    losses

admissionVars == <<docs, stored, reqs, progress, doc, tries, shown, losses>>

Statuses == {"pending_upload", "queued", "processing", "ready", "failed"}
Steps == {"find", "dup", "quota", "insert", "check", "complete", "reply"}
Working == {"creating", "putting", "confirming"}
Replies == {"none", "created", "duplicate", "confirmed", "refused"}

AdmissionTypeOK ==
    /\ docs \in Seq([content : {ContentOf[c] : c \in Clients}, key : Clients \cup {NoKey}, status : Statuses])
    /\ stored \subseteq DOMAIN docs
    /\ reqs \subseteq [client : Clients, n : 1..MaxTries, pc : Steps, doc : 0..Len(docs), reply : Replies]
    /\ progress \in [Clients -> Working \cup {"idle", "done", "failed"}]
    /\ doc \in [Clients -> 0..Len(docs)] /\ tries \in [Clients -> 0..MaxTries]
    /\ losses \in 0..MaxLosses

AdmissionInit ==
    /\ docs = <<>> /\ stored = {} /\ reqs = {}
    /\ progress = [c \in Clients |-> "idle"] /\ doc = [c \in Clients |-> 0]
    /\ tries = [c \in Clients |-> 0]
    /\ shown = [c \in Clients |-> {}]
    /\ losses = 0

Loss == losses < MaxLosses /\ losses' = losses + 1

Waits(r) == progress[r.client] \in {"creating", "confirming"} /\ tries[r.client] = r.n

Request(c, n, pc, d) == [client |-> c, n |-> n, pc |-> pc, doc |-> d, reply |-> "none"]
Move(r, next) == reqs' = (reqs \ {r}) \cup {next}
Go(r, pc) == Move(r, [r EXCEPT !.pc = pc])

(* An answer nobody waits for any more is dropped.                          *)
Give(r, reply, d) ==
    IF Waits(r) THEN Move(r, [r EXCEPT !.pc = "reply", !.reply = reply, !.doc = d]) ELSE reqs' = reqs \ {r}
Answer(r, reply) == Give(r, reply, r.doc)

-----------------------------------------------------------------------------
\* POST /documents

KeyOf(c) == IF c \in Apps THEN c ELSE NoKey
WithKey(c) == {d \in DOMAIN docs : docs[d].key = KeyOf(c) /\ KeyOf(c) # NoKey}

ServerStep == UNCHANGED <<stored, progress, doc, tries, shown, losses>>

\* Mutant: a refused call gets no answer.
GateSilently(r) == reqs' = reqs \ {r} /\ ServerStep /\ UNCHANGED docs

(* The rate limit, or the form and size of the file, may refuse the call.   *)
Gate(r) == Answer(r, "refused") /\ ServerStep /\ UNCHANGED docs

(* findByOwnerIdempotency: a document found is not looked for by content.   *)
Find(r) ==
    /\ IF WithKey(r.client) = {} THEN Go(r, "dup")
       ELSE \E d \in WithKey(r.client) : Move(r, [r EXCEPT !.pc = "quota", !.doc = d])
    /\ ServerStep /\ UNCHANGED docs

Receive(r) == r.pc = "find" /\ (Gate(r) \/ Find(r))

(* findReadyByChecksum: the worker stores the checksum of what it read      *)
(* together with the status ready.                                          *)
Duplicates(c) == {d \in DOMAIN docs : docs[d].content = ContentOf[c] /\ docs[d].status = "ready"}

Dup(r) ==
    /\ r.pc = "dup"
    /\ IF Duplicates(r.client) = {} THEN Go(r, "quota")
       ELSE \E d \in Duplicates(r.client) : Give(r, "duplicate", d)
    /\ ServerStep /\ UNCHANGED docs

TotalSize(rows) ==
    LET sum[d \in 0..Len(rows)] == IF d = 0 THEN 0 ELSE sum[d - 1] + SizeOf[rows[d].content]
    IN  sum[Len(rows)]

StorageBytes == TotalSize(docs)

(* checkUploadQuota *)
Exceeds(c) ==
    \/ StorageBytes + SizeOf[ContentOf[c]] > StorageQuota
    \/ Len(docs) >= MaxDocuments

Inserted(c) == Append(docs, [content |-> ContentOf[c], key |-> KeyOf(c), status |-> "pending_upload"])

\* Mutant: the document is inserted before the quota is checked.
QuotaAfterInsert(r) ==
    /\ r.pc = "quota"
    /\ IF r.doc # 0 THEN Answer(r, IF Exceeds(r.client) THEN "refused" ELSE "created") /\ UNCHANGED docs
       ELSE /\ docs' = Inserted(r.client)
            /\ Give(r, IF Exceeds(r.client) THEN "refused" ELSE "created", Len(docs) + 1)
    /\ ServerStep

(* assertUploadQuota counts a document that is already there once more.     *)
Quota(r) ==
    /\ r.pc = "quota"
    /\ IF Exceeds(r.client) THEN Answer(r, "refused")
       ELSE IF r.doc = 0 THEN Go(r, "insert")
       ELSE Answer(r, "created")
    /\ ServerStep /\ UNCHANGED docs

(* Two requests with one key may both have found nothing: the constraint    *)
(* fails the second, as an internal error.                                  *)
Insert(r) ==
    /\ r.pc = "insert"
    /\ IF WithKey(r.client) # {} THEN Answer(r, "refused") /\ UNCHANGED docs
       ELSE /\ docs' = Inserted(r.client)
            /\ Give(r, "created", Len(docs) + 1)
    /\ ServerStep

-----------------------------------------------------------------------------
\* POST /documents/:id/complete-upload

Pending(d) == docs[d].status = "pending_upload"

(* Confirmed before, or not in the storage, or on to the transaction: an     *)
(* object that is there stays, so its HEAD is taken with the status.         *)
Check(r) ==
    /\ r.pc = "check"
    /\ \/ ~Pending(r.doc) /\ Answer(r, "confirmed")
       \/ Pending(r.doc) /\ r.doc \in stored /\ Go(r, "complete")
       \/ Pending(r.doc) /\ r.doc \notin stored /\ Answer(r, "refused")
    /\ ServerStep /\ UNCHANGED docs

\* Mutant: the status is not read again under the lock.
ConfirmAgain(r) ==
    /\ r.pc = "complete"
    /\ docs' = [docs EXCEPT ![r.doc] = [@ EXCEPT !.status = "queued"]]
    /\ Answer(r, "confirmed")
    /\ ServerStep

(* completeUploadTx, under the row's lock.                                  *)
Confirm(r) ==
    /\ r.pc = "complete"
    /\ docs' = IF Pending(r.doc) THEN [docs EXCEPT ![r.doc] = [@ EXCEPT !.status = "queued"]] ELSE docs
    /\ Answer(r, "confirmed")
    /\ ServerStep

(* The worker claims the document and finishes or fails it; DocumentPipeline *)
(* says how.                                                                 *)
Process(d) ==
    /\ \/ docs[d].status = "queued" /\ docs' = [docs EXCEPT ![d] = [@ EXCEPT !.status = "processing"]]
       \/ /\ docs[d].status = "processing"
          /\ \E s \in {"ready", "failed"} : docs' = [docs EXCEPT ![d] = [@ EXCEPT !.status = s]]
    /\ UNCHANGED <<stored, reqs, progress, doc, tries, shown, losses>>

-----------------------------------------------------------------------------
\* The client

(* The list as it is now; clients that only upload show none.               *)
ReadList(c) ==
    shown' = IF c \in Viewers THEN [shown EXCEPT ![c] = {docs[d].status : d \in DOMAIN docs}] ELSE shown

(* A file is picked, or picked again after a failure or a success.          *)
Pick(c) ==
    /\ progress[c] \notin Working /\ tries[c] < MaxTries
    /\ progress' = [progress EXCEPT ![c] = "creating"]
    /\ doc' = [doc EXCEPT ![c] = 0]
    /\ tries' = [tries EXCEPT ![c] = @ + 1]
    /\ reqs' = reqs \cup {Request(c, tries[c] + 1, "find", 0)}
    /\ UNCHANGED <<docs, stored, shown, losses>>

(* A reply reaches the client that waits for it. When the upload is done    *)
(* its list is fetched again, which may fail.                               *)
Deliver(r) ==
    /\ r.pc = "reply"
    /\ reqs' = reqs \ {r}
    /\ doc' = [doc EXCEPT ![r.client] = r.doc]
    /\ \/ /\ r.reply = "created"
          /\ progress' = [progress EXCEPT ![r.client] = "putting"]
          /\ UNCHANGED shown
       \/ /\ r.reply \in {"duplicate", "confirmed"}
          /\ progress' = [progress EXCEPT ![r.client] = "done"]
          /\ ReadList(r.client) \/ UNCHANGED shown
       \/ /\ r.reply = "refused"
          /\ progress' = [progress EXCEPT ![r.client] = "failed"]
          /\ UNCHANGED shown
    /\ UNCHANGED <<docs, stored, tries, losses>>

(* The client loses a call, whether the server answers it or not; a call    *)
(* may also be lost before it arrives.                                      *)
GiveUp(r) ==
    /\ Loss /\ Waits(r)
    /\ progress' = [progress EXCEPT ![r.client] = "failed"]
    /\ \/ r.pc \in {"find", "check", "reply"} /\ reqs' = reqs \ {r}
       \/ r.pc # "reply" /\ UNCHANGED reqs
    /\ UNCHANGED <<docs, stored, doc, tries, shown>>

Put(c) ==
    /\ progress[c] = "putting"
    /\ stored' = stored \cup {doc[c]}
    /\ progress' = [progress EXCEPT ![c] = "confirming"]
    /\ reqs' = reqs \cup {Request(c, tries[c], "check", doc[c])}
    /\ UNCHANGED <<docs, doc, tries, shown, losses>>

(* The link has expired or the storage fails, with or without the object.   *)
PutFails(c) ==
    /\ Loss /\ progress[c] = "putting"
    /\ stored' \in {stored, stored \cup {doc[c]}}
    /\ progress' = [progress EXCEPT ![c] = "failed"]
    /\ UNCHANGED <<docs, reqs, doc, tries, shown>>

InFlight(c) == shown[c] \cap {"queued", "processing"} # {}

(* The list is fetched every two seconds while it shows one in flight; when *)
(* that fails it stays and is fetched again.                                *)
Poll(c) ==
    /\ InFlight(c)
    /\ ReadList(c)
    /\ UNCHANGED <<docs, stored, reqs, progress, doc, tries, losses>>

-----------------------------------------------------------------------------
Serve(r) ==
    \/ Receive(r) \/ Dup(r) \/ Quota(r) \/ Insert(r)
    \/ Check(r) \/ Confirm(r)
    \/ Deliver(r)

AdmissionNext ==
    \/ \E r \in reqs : Serve(r) \/ GiveUp(r)
    \/ \E c \in Clients : Pick(c) \/ Put(c) \/ PutFails(c)
    \/ \E c \in Viewers : Poll(c)
    \/ \E d \in DOMAIN docs : Process(d)

AdmissionSpec == AdmissionInit /\ [][AdmissionNext]_admissionVars

(* The API and the worker go on with what they have begun, a client with    *)
(* its upload and its list; nobody has to pick a file.                      *)
AdmissionFairness ==
    /\ WF_admissionVars(\E r \in reqs : Serve(r))
    /\ \A c \in Clients : WF_admissionVars(Put(c))
    /\ \A c \in Viewers : WF_admissionVars(Poll(c))
    /\ \A d \in 1..(Cardinality(Clients) * MaxTries) : WF_admissionVars(d \in DOMAIN docs /\ Process(d))

-----------------------------------------------------------------------------
\* Properties

LargestFile == CHOOSE s \in {SizeOf[ContentOf[c]] : c \in Clients} : \A c \in Clients : SizeOf[ContentOf[c]] <= s

(* The quota is read and the row inserted later: the workspace exceeds it    *)
(* only by what other clients at work at the same time, and requests whose   *)
(* client is gone, have inserted in between.                                 *)
UploadOvershootBounded ==
    LET others == Cardinality(Clients) - 1 + losses
    IN  /\ Len(docs) <= MaxDocuments + others
        /\ StorageBytes <= StorageQuota + others * LargestFile

(* However often an app tries again, its file is one document.               *)
KeyedUploadOnce == \A c \in Apps : Cardinality(WithKey(c)) <= 1

(* A document that waits for an upload nobody is at work on is left behind   *)
(* by a lost call or a failed PUT, one each: a refusal leaves none.          *)
PendingAreOwed ==
    Cardinality({d \in DOMAIN docs :
        /\ Pending(d)
        /\ ~\E r \in reqs : r.doc = d /\ Waits(r)
        /\ ~\E c \in Clients : progress[c] \in Working /\ doc[c] = d}) <= losses

(* What a client is told is done is a document of its own content, stored    *)
(* and queued at least; a duplicate it is given instead is ready.            *)
DoneIsStored ==
    /\ \A c \in Clients :
        progress[c] = "done" =>
            /\ docs[doc[c]].content = ContentOf[c]
            /\ doc[c] \in stored /\ ~Pending(doc[c])
    /\ \A r \in reqs : r.reply = "duplicate" => docs[r.doc].status = "ready"

(* A document goes through the worker once: no late or repeated confirmation *)
(* takes it back.                                                            *)
Rank(s) == CASE s = "pending_upload" -> 0 [] s = "queued" -> 1 [] s = "processing" -> 2 [] OTHER -> 3
ProcessedOnce ==
    [][\A d \in DOMAIN docs : docs'[d] # docs[d] => Rank(docs'[d].status) > Rank(docs[d].status)]_admissionVars

(* A list that shows a document in flight comes to show its outcome, without *)
(* anything the user does.                                                   *)
ListSettles ==
    LET Unsettled(c) == shown[c] \cap {"queued", "processing"} # {}
    IN  \A c \in Viewers : Unsettled(c) ~> ~Unsettled(c)

(* An upload comes to an end.                                                *)
UploadsSettle == \A c \in Clients : progress[c] \in Working ~> progress[c] \in {"done", "failed"}

(* The rows of a workspace are accounted for: within the quota but for what  *)
(* raced, one for each key, none left waiting but by a fault, and done when  *)
(* a client was told so.                                                     *)
UploadsAccounted ==
    /\ AdmissionTypeOK
    /\ UploadOvershootBounded /\ KeyedUploadOnce /\ PendingAreOwed /\ DoneIsStored
=============================================================================
