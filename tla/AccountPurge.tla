---------------------------- MODULE AccountPurge ----------------------------
(***************************************************************************)
(* Deleting an account: the request and its cooldown of seven days, the    *)
(* owner's uploads before it, and the maintenance rounds of the worker     *)
(* processes, which delete accounts whose cooldown is over, register the   *)
(* objects of their documents in pending_object_deletions and then delete  *)
(* these objects from the store. The queue runs one round at a time per    *)
(* process; rounds of several processes overlap.                           *)
(*                                                                         *)
(* Time is abstracted to what the code compares: an account is due when    *)
(* deletion_scheduled_at has passed, and a round keeps the accounts whose  *)
(* deletion_scheduled_at had passed at its own start. Requests and signed  *)
(* upload links (15 minutes) do not outlast a cooldown.                    *)
(***************************************************************************)
EXTENDS Naturals, FiniteSets

CONSTANTS
    Accounts,
    Objects,      \* one object of the store per document
    Owner,        \* the account each document belongs to
    Undeletable,  \* objects the store never deletes
    None,
    Workers,      \* worker processes
    Batch,        \* accounts, and objects, per round (100 and 500 in the code)
    MaxAttempts,  \* of an object (10 in the code)
    MaxCancels,   \* bound: cancelled deletions
    MaxFaults     \* bound: crashes and failed calls

ASSUME AccountPurgeAssumption ==
    /\ Owner \in [Objects -> Accounts]
    /\ Undeletable \subseteq Objects
    /\ None \notin Accounts \cup Objects
    /\ Batch \in Nat \ {0}
    /\ MaxAttempts \in Nat
    /\ MaxCancels \in Nat
    /\ MaxFaults \in Nat

VARIABLES
    acct,      \* "active", "cooling", "due" (cooldown over) or "gone"
    link,      \* objects whose signed upload link is valid
    row,       \* document of an object: "none", "pending" (no document_files
               \* row yet), "filed", "gone" (deleted after that) or "dropped"
    stored,    \* objects in the store
    pending,   \* pending_object_deletions
    attempts,  \* its attempts column
    round,     \* a worker's round
    expired,   \* accounts with deletion_scheduled_at <= now of the round
    cancels, faults

dbVars == <<row, pending, attempts>>
vars == <<acct, link, dbVars, stored, round, expired, cancels, faults>>

Idle == [at |-> "idle", due |-> {}, cur |-> None, keys |-> {}]
Round == {Idle}
    \* accounts left to purge
    \cup [at : {"purge"}, due : SUBSET Accounts, cur : {None}, keys : {{}}]
    \* in the transaction that purges cur, with the keys it has collected
    \cup [at : {"delete"}, due : SUBSET Accounts, cur : Accounts, keys : SUBSET Objects]
    \* objects left to delete
    \cup [at : {"drain"}, due : {{}}, cur : {None}, keys : SUBSET Objects]
    \* cur deleted, or not, and its row to be removed or counted up
    \cup [at : {"done", "failed"}, due : {{}}, cur : Objects, keys : SUBSET Objects]

TypeOK ==
    /\ acct \in [Accounts -> {"active", "cooling", "due", "gone"}]
    /\ link \subseteq Objects
    /\ row \in [Objects -> {"none", "pending", "filed", "gone", "dropped"}]
    /\ stored \subseteq Objects
    /\ pending \subseteq Objects
    /\ attempts \in [Objects -> Nat]
    /\ round \in [Workers -> Round]
    /\ expired \in [Workers -> SUBSET Accounts]
    /\ cancels \in 0..MaxCancels
    /\ faults \in 0..MaxFaults

Init ==
    /\ acct = [a \in Accounts |-> "active"]
    /\ link = {}
    /\ row = [o \in Objects |-> "none"]
    /\ stored = {}
    /\ pending = {}
    /\ attempts = [o \in Objects |-> 0]
    /\ round = [w \in Workers |-> Idle]
    /\ expired = [w \in Workers |-> {}]
    /\ cancels = 0
    /\ faults = 0

Enter(w, l, D, c, K) ==
    round' = [round EXCEPT ![w] = [at |-> l, due |-> D, cur |-> c, keys |-> K]]

Fault == faults < MaxFaults /\ faults' = faults + 1

-----------------------------------------------------------------------------
\* The owner

(* requireActiveAccount looked at the account when the request began.       *)
Admitted(a) == acct[a] \in {"active", "cooling"}

(* createUpload: a document row and a signed link; a repeated request with  *)
(* the same Idempotency-Key gets another link for the same document.        *)
CreateUpload(o) ==
    /\ row[o] \in {"none", "pending", "filed"}
    /\ Admitted(Owner[o])
    /\ row' = [row EXCEPT ![o] = IF @ = "none" THEN "pending" ELSE @]
    /\ link' = link \cup {o}
    /\ UNCHANGED <<acct, pending, attempts, stored, round, expired, cancels, faults>>

(* The client uploads the object.                                           *)
PutObject(o) ==
    /\ o \in link
    /\ stored' = stored \cup {o}
    /\ UNCHANGED <<acct, link, dbVars, round, expired, cancels, faults>>

LinkExpires(o) ==
    /\ o \in link
    /\ link' = link \ {o}
    /\ UNCHANGED <<acct, dbVars, stored, round, expired, cancels, faults>>

(* completeUploadTx inserts the document_files row of an object that is there. *)
CompleteUpload(o) ==
    /\ row[o] = "pending"
    /\ o \in stored
    /\ Admitted(Owner[o])
    /\ row' = [row EXCEPT ![o] = "filed"]
    /\ UNCHANGED <<acct, link, pending, attempts, stored, round, expired, cancels, faults>>

(* markDeletionScheduled: a second request does not restart the cooldown.   *)
RequestDeletion(a) ==
    /\ acct[a] = "active"
    /\ acct' = [acct EXCEPT ![a] = "cooling"]
    /\ UNCHANGED <<link, dbVars, stored, round, expired, cancels, faults>>

(* Seven days pass. *)
Ripen(a) ==
    /\ acct[a] = "cooling"
    /\ \A o \in link : Owner[o] # a
    /\ acct' = [acct EXCEPT ![a] = "due"]
    /\ UNCHANGED <<link, dbVars, stored, round, expired, cancels, faults>>

(* clearDeletionScheduled, possible as long as the account exists.          *)
CancelDeletion(a) ==
    /\ acct[a] \in {"cooling", "due"}
    /\ cancels < MaxCancels
    /\ cancels' = cancels + 1
    /\ acct' = [acct EXCEPT ![a] = "active"]
    /\ expired' = [w \in Workers |-> expired[w] \ {a}]
    /\ UNCHANGED <<link, dbVars, stored, round, faults>>

-----------------------------------------------------------------------------
\* A maintenance round: runPurge

(* What LIMIT Batch leaves of the rows S, in any order.                     *)
Limited(S) ==
    {T \in SUBSET S : Cardinality(T) = IF Cardinality(S) < Batch THEN Cardinality(S) ELSE Batch}

Due == {a \in Accounts : acct[a] = "due"}

(* The repeatable job fires: listDue at the round's now.                    *)
StartRound(w) ==
    /\ round[w].at = "idle"
    /\ expired' = [expired EXCEPT ![w] = Due]
    /\ \E D \in Limited(Due) : Enter(w, "purge", D, None, {})
    /\ UNCHANGED <<acct, link, dbVars, stored, cancels, faults>>

Filed(a) == {o \in Objects : Owner[o] = a /\ row[o] = "filed"}

(* purgeAndEnqueue reads the object keys of one account.                    *)
CollectKeys(w) ==
    /\ round[w].at = "purge"
    /\ \E a \in round[w].due : Enter(w, "delete", round[w].due \ {a}, a, Filed(a))
    /\ UNCHANGED <<acct, link, dbVars, stored, expired, cancels, faults>>

\* Mutant: the account is deleted by its id alone.
StillDueById(w, a) == acct[a] # "gone"

\* Mutant: the transaction compares with the clock instead of the round's now.
StillDueByClock(w, a) == acct[a] = "due"

(* deletion_scheduled_at <= now, in the WHERE of the DELETE.                *)
StillDue(w, a) == a \in expired[w]

(* The user row, all rows that cascade from it, and the keys registered, in *)
(* one commit.                                                              *)
Purge(w) ==
    LET a == round[w].cur IN
    /\ acct' = [acct EXCEPT ![a] = "gone"]
    /\ expired' = [v \in Workers |-> expired[v] \ {a}]
    /\ row' = [o \in Objects |->
                 IF Owner[o] # a THEN row[o]
                 ELSE IF row[o] = "filed" THEN "gone"
                 ELSE IF row[o] = "pending" THEN "dropped" ELSE row[o]]
    /\ pending' = pending \cup round[w].keys

\* Mutant: the keys are registered in a transaction of their own.
KeepsNothing(w) ==
    /\ pending' = pending \cup round[w].keys
    /\ UNCHANGED <<acct, expired, row>>

(* No row deleted: the account was cancelled or purged by another round.    *)
Skips(w) == UNCHANGED <<acct, expired, row, pending>>

PurgeAndEnqueue(w) ==
    /\ round[w].at = "delete"
    /\ IF StillDue(w, round[w].cur) THEN Purge(w) ELSE Skips(w)
    /\ Enter(w, "purge", round[w].due, None, {})
    /\ UNCHANGED <<link, stored, attempts, cancels, faults>>

-----------------------------------------------------------------------------
\* A maintenance round: runDrain

\* Mutant: an object that failed once is a dead letter at once.
RetriedOnce == {o \in pending : attempts[o] = 0}

(* Rows that are not dead letters. *)
Retried == {o \in pending : attempts[o] < MaxAttempts}

(* listPending, after the last account.                                     *)
ListPending(w) ==
    /\ round[w].at = "purge"
    /\ round[w].due = {}
    /\ \E D \in Limited(Retried) : Enter(w, "drain", {}, None, D)
    /\ UNCHANGED <<acct, link, dbVars, stored, expired, cancels, faults>>

(* The store is asked to delete one object; deleting an absent one succeeds. *)
DeleteStorageObject(w) ==
    /\ round[w].at = "drain"
    /\ \E o \in round[w].keys :
         IF o \in Undeletable
         THEN Enter(w, "failed", {}, o, round[w].keys \ {o}) /\ UNCHANGED stored
         ELSE Enter(w, "done", {}, o, round[w].keys \ {o}) /\ stored' = stored \ {o}
    /\ UNCHANGED <<acct, link, dbVars, expired, cancels, faults>>

Drain(w) == Enter(w, "drain", {}, None, round[w].keys)

MarkDone(w) ==
    /\ round[w].at = "done"
    /\ pending' = pending \ {round[w].cur}
    /\ Drain(w)
    /\ UNCHANGED <<acct, link, row, attempts, stored, expired, cancels, faults>>

CountUp(o) == attempts' = [attempts EXCEPT ![o] = IF o \in pending THEN @ + 1 ELSE @]

MarkFailed(w) ==
    /\ round[w].at = "failed"
    /\ CountUp(round[w].cur)
    /\ Drain(w)
    /\ UNCHANGED <<acct, link, row, pending, stored, expired, cancels, faults>>

Abort(w) == round' = [round EXCEPT ![w] = Idle]

EndRound(w) ==
    /\ round[w].at = "drain"
    /\ round[w].keys = {}
    /\ Abort(w)
    /\ UNCHANGED <<acct, link, dbVars, stored, expired, cancels, faults>>

-----------------------------------------------------------------------------
\* Failures

(* The purge transaction fails, or its commit is not confirmed: runPurge    *)
(* throws, the round ends and nothing is drained.                           *)
PurgeFails(w) ==
    /\ round[w].at = "delete"
    /\ Fault
    /\ \/ Skips(w)
       \/ StillDue(w, round[w].cur) /\ Purge(w)
    /\ Abort(w)
    /\ UNCHANGED <<link, stored, attempts, cancels>>

(* The store fails, with or without effect.                                 *)
DeleteFails(w) ==
    /\ round[w].at = "drain"
    /\ Fault
    /\ \E o \in round[w].keys :
         /\ Enter(w, "failed", {}, o, round[w].keys \ {o})
         /\ stored' \in {stored, stored \ ({o} \ Undeletable)}
    /\ UNCHANGED <<acct, link, dbVars, expired, cancels>>

(* The row cannot be removed, or was and the answer is lost: counted as a   *)
(* failure of the object.                                                   *)
MarkDoneFails(w) ==
    /\ round[w].at = "done"
    /\ Fault
    /\ pending' \in {pending, pending \ {round[w].cur}}
    /\ Enter(w, "failed", {}, round[w].cur, round[w].keys)
    /\ UNCHANGED <<acct, link, row, attempts, stored, expired, cancels>>

(* Nothing catches a failing markFailed: the round ends.                    *)
MarkFailedFails(w) ==
    /\ round[w].at = "failed"
    /\ Fault
    /\ CountUp(round[w].cur) \/ UNCHANGED attempts
    /\ Abort(w)
    /\ UNCHANGED <<acct, link, row, pending, stored, expired, cancels>>

(* The process dies, or a query that only reads fails.                      *)
Crash(w) ==
    /\ round[w].at # "idle"
    /\ Fault
    /\ Abort(w)
    /\ UNCHANGED <<acct, link, dbVars, stored, expired, cancels>>

-----------------------------------------------------------------------------
OwnerStep ==
    \/ \E o \in Objects : CreateUpload(o) \/ PutObject(o) \/ LinkExpires(o) \/ CompleteUpload(o)
    \/ \E a \in Accounts : RequestDeletion(a) \/ Ripen(a) \/ CancelDeletion(a)

RoundStep(w) ==
    \/ StartRound(w) \/ CollectKeys(w) \/ PurgeAndEnqueue(w) \/ ListPending(w)
    \/ DeleteStorageObject(w) \/ MarkDone(w) \/ MarkFailed(w) \/ EndRound(w)

RoundFault(w) ==
    PurgeFails(w) \/ DeleteFails(w) \/ MarkDoneFails(w) \/ MarkFailedFails(w) \/ Crash(w)

Next == OwnerStep \/ \E w \in Workers : RoundStep(w) \/ RoundFault(w)

Spec == Init /\ [][Next]_vars

(* The repeatable job fires every minute in a process that is restarted.    *)
FairSpec == Spec /\ \A w \in Workers : WF_vars(RoundStep(w))

-----------------------------------------------------------------------------
\* Properties

(* Once its document is gone, the key of a stored object is in the queue:   *)
(* no crash, failed call, cancelled or repeated deletion loses it           *)
(* ("崩溃不丢 key", purge-account.repository.ts).                             *)
NoKeyLost == \A o \in stored : row[o] = "gone" => o \in pending

(* No object of an account that exists is ever deleted or queued for it,    *)
(* whatever a round read before the owner cancelled.                        *)
LiveAccountsKeepObjects ==
    /\ \A o \in pending : acct[Owner[o]] = "gone"
    /\ \A o \in Objects : row[o] = "filed" => o \in stored

(* An account goes only when the cooldown of the request that is in force   *)
(* is over.                                                                 *)
CooldownRespected ==
    [][\A a \in Accounts : acct'[a] = "gone" => acct[a] \in {"due", "gone"}]_vars

(* Objects of a due account disappear from the store, are left as dead      *)
(* letters after MaxAttempts, or the owner cancels in time; a failing       *)
(* object or an interrupted round holds up nobody for good.                 *)
EveryObjectReclaimed ==
    \A o \in Objects :
        acct[Owner[o]] = "due" /\ row[o] = "filed"
        ~> o \notin stored \/ attempts[o] >= MaxAttempts \/ acct[Owner[o]] = "active"

-----------------------------------------------------------------------------
\* What the repository says and the code does not keep

(* "到期后由 worker 周期扫描执行硬删除(级联清库 + 清对象存储)" (account.ts): an    *)
(* object that was uploaded and never confirmed has no document_files row;  *)
(* it is not queued and stays in the store for ever.                        *)
GoneAccountsLeaveNothing ==
    \A o \in stored : acct[Owner[o]] = "gone" => o \in pending
=============================================================================
