------------------------- MODULE AccountPurge_proofs -------------------------
(***************************************************************************)
(* Proofs about AccountPurge, for any accounts, documents, workers, batch  *)
(* size and failures: type correctness, no key lost, no object of a living *)
(* account touched, no account purged before its cooldown is over.         *)
(*                                                                         *)
(* The inductive invariant: what a round still takes for due is due now;   *)
(* the keys it has collected for such an account are all its filed ones,   *)
(* since a due account is frozen; and what a round deletes or has deleted  *)
(* from the store belongs to documents that are gone.                      *)
(***************************************************************************)
EXTENDS AccountPurge, TLAPS

(* An account that a round may purge is due, and its links have expired.    *)
Frozen ==
    /\ \A w \in Workers : expired[w] \subseteq Due
    /\ \A o \in link : acct[Owner[o]] \in {"active", "cooling"}

(* Documents go with their account, queued objects are theirs.              *)
Cascaded ==
    /\ \A o \in Objects : row[o] \in {"gone", "dropped"} => acct[Owner[o]] = "gone"
    /\ \A o \in pending : row[o] = "gone"

(* The keys read in a transaction are still the filed ones when it commits. *)
Collected ==
    \A w \in Workers :
        round[w].at = "delete" /\ round[w].cur \in expired[w]
        => round[w].keys = Filed(round[w].cur)

(* Objects a round drains belong to documents that are gone; one it reports *)
(* as done is no longer stored.                                             *)
Draining ==
    \A w \in Workers :
        /\ round[w].at \in {"drain", "done", "failed"} => \A o \in round[w].keys : row[o] = "gone"
        /\ round[w].at \in {"done", "failed"} => row[round[w].cur] = "gone"
        /\ round[w].at = "done" => round[w].cur \notin stored

(* A confirmed upload stays in the store as long as its document exists.    *)
Kept == \A o \in Objects : row[o] = "filed" => o \in stored

Sound == Frozen /\ Cascaded /\ Collected /\ Draining /\ Kept /\ NoKeyLost

(* The initial state is well typed and sound. *)
LEMMA InitSound == Init => TypeOK /\ Sound
<1> SUFFICES ASSUME Init PROVE TypeOK /\ Sound
  OBVIOUS
<1> USE AccountPurgeAssumption
<1>1. TypeOK
  BY DEF Init, TypeOK, Round, Idle
<1>2. Sound
  BY DEF Init, Sound, Frozen, Cascaded, Collected, Draining, Kept, NoKeyLost, Idle
<1> QED
  BY <1>1, <1>2

(* The cursor of a round is an account in the transaction and an object     *)
(* afterwards.                                                              *)
LEMMA Cursor ==
  ASSUME TypeOK, NEW w \in Workers
  PROVE  /\ round[w].at \in {"idle", "purge", "delete", "drain", "done", "failed"}
         /\ round[w].at = "delete" => round[w].cur \in Accounts
         /\ round[w].at \in {"done", "failed"} => round[w].cur \in Objects
         /\ round[w].keys \subseteq Objects
         /\ round[w].due \subseteq Accounts
BY DEF TypeOK, Round, Idle


(* Every step keeps the types. *)
LEMMA NextTyped == TypeOK /\ [Next]_vars => TypeOK'
<1> SUFFICES ASSUME TypeOK, [Next]_vars PROVE TypeOK'
  OBVIOUS
<1> USE AccountPurgeAssumption
<1>1. ASSUME NEW o \in Objects, CreateUpload(o) PROVE TypeOK'
  BY <1>1 DEF CreateUpload, Admitted, TypeOK, Round, Idle, dbVars
<1>2. ASSUME NEW o \in Objects, PutObject(o) PROVE TypeOK'
  BY <1>2 DEF PutObject, TypeOK, Round, Idle, dbVars
<1>3. ASSUME NEW o \in Objects, LinkExpires(o) PROVE TypeOK'
  BY <1>3 DEF LinkExpires, TypeOK, Round, Idle, dbVars
<1>4. ASSUME NEW o \in Objects, CompleteUpload(o) PROVE TypeOK'
  BY <1>4 DEF CompleteUpload, Admitted, TypeOK, Round, Idle, dbVars
<1>5. ASSUME NEW a \in Accounts, RequestDeletion(a) PROVE TypeOK'
  BY <1>5 DEF RequestDeletion, TypeOK, Round, Idle, dbVars
<1>6. ASSUME NEW a \in Accounts, Ripen(a) PROVE TypeOK'
  BY <1>6 DEF Ripen, TypeOK, Round, Idle, dbVars
<1>7. ASSUME NEW a \in Accounts, CancelDeletion(a) PROVE TypeOK'
  BY <1>7 DEF CancelDeletion, TypeOK, Round, Idle, dbVars
<1>8. ASSUME NEW w \in Workers, StartRound(w) PROVE TypeOK'
  BY <1>8 DEF StartRound, Enter, Limited, Due, TypeOK, Round, Idle, dbVars
<1>9. ASSUME NEW w \in Workers, CollectKeys(w) PROVE TypeOK'
  BY <1>9 DEF CollectKeys, Enter, Filed, TypeOK, Round, Idle, dbVars
<1>10. ASSUME NEW w \in Workers, PurgeAndEnqueue(w) PROVE TypeOK'
  BY <1>10 DEF PurgeAndEnqueue, Enter, StillDue, Purge, Skips, TypeOK, Round, Idle, dbVars
<1>11. ASSUME NEW w \in Workers, ListPending(w) PROVE TypeOK'
  BY <1>11 DEF ListPending, Enter, Limited, Retried, TypeOK, Round, Idle, dbVars
<1>12. ASSUME NEW w \in Workers, DeleteStorageObject(w) PROVE TypeOK'
  BY <1>12 DEF DeleteStorageObject, Enter, TypeOK, Round, Idle, dbVars
<1>13. ASSUME NEW w \in Workers, MarkDone(w) PROVE TypeOK'
  BY <1>13 DEF MarkDone, Drain, Enter, TypeOK, Round, Idle, dbVars
<1>14. ASSUME NEW w \in Workers, MarkFailed(w) PROVE TypeOK'
  BY <1>14 DEF MarkFailed, CountUp, Drain, Enter, TypeOK, Round, Idle, dbVars
<1>15. ASSUME NEW w \in Workers, EndRound(w) PROVE TypeOK'
  BY <1>15 DEF EndRound, Abort, TypeOK, Round, Idle, dbVars
<1>16. ASSUME NEW w \in Workers, PurgeFails(w) PROVE TypeOK'
  BY <1>16 DEF PurgeFails, Fault, StillDue, Purge, Skips, Abort, TypeOK, Round, Idle, dbVars
<1>17. ASSUME NEW w \in Workers, DeleteFails(w) PROVE TypeOK'
  BY <1>17 DEF DeleteFails, Fault, Enter, TypeOK, Round, Idle, dbVars
<1>18. ASSUME NEW w \in Workers, MarkDoneFails(w) PROVE TypeOK'
  BY <1>18 DEF MarkDoneFails, Fault, Enter, TypeOK, Round, Idle, dbVars
<1>19. ASSUME NEW w \in Workers, MarkFailedFails(w) PROVE TypeOK'
  BY <1>19 DEF MarkFailedFails, Fault, CountUp, Abort, TypeOK, Round, Idle, dbVars
<1>20. ASSUME NEW w \in Workers, Crash(w) PROVE TypeOK'
  BY <1>20 DEF Crash, Fault, Abort, TypeOK, Round, Idle, dbVars
<1>21. CASE UNCHANGED vars
  BY <1>21 DEF vars, TypeOK, Round, Idle, dbVars
<1> QED
  BY <1>1, <1>2, <1>3, <1>4, <1>5, <1>6, <1>7, <1>8, <1>9, <1>10, <1>11, <1>12, <1>13, <1>14, <1>15, <1>16, <1>17, <1>18, <1>19, <1>20, <1>21 DEF Next, OwnerStep, RoundStep, RoundFault

(* Every step keeps due accounts frozen. *)
LEMMA NextFrozen == TypeOK /\ Frozen /\ [Next]_vars => Frozen'
<1> SUFFICES ASSUME TypeOK, Frozen, [Next]_vars PROVE Frozen'
  OBVIOUS
<1> USE AccountPurgeAssumption
<1>1. ASSUME NEW o \in Objects, CreateUpload(o) PROVE Frozen'
  BY <1>1 DEF CreateUpload, Admitted, TypeOK, Round, Idle, dbVars, Frozen, Due
<1>2. ASSUME NEW o \in Objects, PutObject(o) PROVE Frozen'
  BY <1>2 DEF PutObject, TypeOK, Round, Idle, dbVars, Frozen, Due
<1>3. ASSUME NEW o \in Objects, LinkExpires(o) PROVE Frozen'
  BY <1>3 DEF LinkExpires, TypeOK, Round, Idle, dbVars, Frozen, Due
<1>4. ASSUME NEW o \in Objects, CompleteUpload(o) PROVE Frozen'
  BY <1>4 DEF CompleteUpload, Admitted, TypeOK, Round, Idle, dbVars, Frozen, Due
<1>5. ASSUME NEW a \in Accounts, RequestDeletion(a) PROVE Frozen'
  BY <1>5 DEF RequestDeletion, TypeOK, Round, Idle, dbVars, Frozen, Due
<1>6. ASSUME NEW a \in Accounts, Ripen(a) PROVE Frozen'
  BY <1>6 DEF Ripen, TypeOK, Round, Idle, dbVars, Frozen, Due
<1>7. ASSUME NEW a \in Accounts, CancelDeletion(a) PROVE Frozen'
  BY <1>7 DEF CancelDeletion, TypeOK, Round, Idle, dbVars, Frozen, Due
<1>8. ASSUME NEW w \in Workers, StartRound(w) PROVE Frozen'
  BY <1>8, Cursor DEF StartRound, Enter, Limited, Due, TypeOK, Round, Idle, dbVars, Frozen
<1>9. ASSUME NEW w \in Workers, CollectKeys(w) PROVE Frozen'
  BY <1>9, Cursor DEF CollectKeys, Enter, Filed, TypeOK, Round, Idle, dbVars, Frozen, Due
<1>10. ASSUME NEW w \in Workers, PurgeAndEnqueue(w) PROVE Frozen'
  BY <1>10, Cursor DEF PurgeAndEnqueue, Enter, StillDue, Purge, Skips, TypeOK, Round, Idle, dbVars, Frozen, Due
<1>11. ASSUME NEW w \in Workers, ListPending(w) PROVE Frozen'
  BY <1>11, Cursor DEF ListPending, Enter, Limited, Retried, TypeOK, Round, Idle, dbVars, Frozen, Due
<1>12. ASSUME NEW w \in Workers, DeleteStorageObject(w) PROVE Frozen'
  BY <1>12, Cursor DEF DeleteStorageObject, Enter, TypeOK, Round, Idle, dbVars, Frozen, Due
<1>13. ASSUME NEW w \in Workers, MarkDone(w) PROVE Frozen'
  BY <1>13, Cursor DEF MarkDone, Drain, Enter, TypeOK, Round, Idle, dbVars, Frozen, Due
<1>14. ASSUME NEW w \in Workers, MarkFailed(w) PROVE Frozen'
  BY <1>14, Cursor DEF MarkFailed, CountUp, Drain, Enter, TypeOK, Round, Idle, dbVars, Frozen, Due
<1>15. ASSUME NEW w \in Workers, EndRound(w) PROVE Frozen'
  BY <1>15, Cursor DEF EndRound, Abort, TypeOK, Round, Idle, dbVars, Frozen, Due
<1>16. ASSUME NEW w \in Workers, PurgeFails(w) PROVE Frozen'
  BY <1>16, Cursor DEF PurgeFails, Fault, StillDue, Purge, Skips, Abort, TypeOK, Round, Idle, dbVars, Frozen, Due
<1>17. ASSUME NEW w \in Workers, DeleteFails(w) PROVE Frozen'
  BY <1>17, Cursor DEF DeleteFails, Fault, Enter, TypeOK, Round, Idle, dbVars, Frozen, Due
<1>18. ASSUME NEW w \in Workers, MarkDoneFails(w) PROVE Frozen'
  BY <1>18, Cursor DEF MarkDoneFails, Fault, Enter, TypeOK, Round, Idle, dbVars, Frozen, Due
<1>19. ASSUME NEW w \in Workers, MarkFailedFails(w) PROVE Frozen'
  BY <1>19, Cursor DEF MarkFailedFails, Fault, CountUp, Abort, TypeOK, Round, Idle, dbVars, Frozen, Due
<1>20. ASSUME NEW w \in Workers, Crash(w) PROVE Frozen'
  BY <1>20, Cursor DEF Crash, Fault, Abort, TypeOK, Round, Idle, dbVars, Frozen, Due
<1>21. CASE UNCHANGED vars
  BY <1>21 DEF vars, TypeOK, Round, Idle, dbVars, Frozen, Due
<1> QED
  BY <1>1, <1>2, <1>3, <1>4, <1>5, <1>6, <1>7, <1>8, <1>9, <1>10, <1>11, <1>12, <1>13, <1>14, <1>15, <1>16, <1>17, <1>18, <1>19, <1>20, <1>21 DEF Next, OwnerStep, RoundStep, RoundFault

(* Documents still go with their accounts. *)
LEMMA NextCascaded == TypeOK /\ Frozen /\ Cascaded /\ Collected /\ [Next]_vars => Cascaded'
<1> SUFFICES ASSUME TypeOK, Frozen, Cascaded, Collected, [Next]_vars PROVE Cascaded'
  OBVIOUS
<1> USE AccountPurgeAssumption
<1>1. ASSUME NEW o \in Objects, CreateUpload(o) PROVE Cascaded'
  BY <1>1 DEF CreateUpload, Admitted, TypeOK, Round, Idle, dbVars, Frozen, Due, Cascaded, Collected, Filed
<1>2. ASSUME NEW o \in Objects, PutObject(o) PROVE Cascaded'
  BY <1>2 DEF PutObject, TypeOK, Round, Idle, dbVars, Frozen, Due, Cascaded, Collected, Filed
<1>3. ASSUME NEW o \in Objects, LinkExpires(o) PROVE Cascaded'
  BY <1>3 DEF LinkExpires, TypeOK, Round, Idle, dbVars, Frozen, Due, Cascaded, Collected, Filed
<1>4. ASSUME NEW o \in Objects, CompleteUpload(o) PROVE Cascaded'
  BY <1>4 DEF CompleteUpload, Admitted, TypeOK, Round, Idle, dbVars, Frozen, Due, Cascaded, Collected, Filed
<1>5. ASSUME NEW a \in Accounts, RequestDeletion(a) PROVE Cascaded'
  BY <1>5 DEF RequestDeletion, TypeOK, Round, Idle, dbVars, Frozen, Due, Cascaded, Collected, Filed
<1>6. ASSUME NEW a \in Accounts, Ripen(a) PROVE Cascaded'
  BY <1>6 DEF Ripen, TypeOK, Round, Idle, dbVars, Frozen, Due, Cascaded, Collected, Filed
<1>7. ASSUME NEW a \in Accounts, CancelDeletion(a) PROVE Cascaded'
  BY <1>7 DEF CancelDeletion, TypeOK, Round, Idle, dbVars, Frozen, Due, Cascaded, Collected, Filed
<1>8. ASSUME NEW w \in Workers, StartRound(w) PROVE Cascaded'
  BY <1>8, Cursor DEF StartRound, Enter, Limited, Due, TypeOK, Round, Idle, dbVars, Frozen, Cascaded, Collected, Filed
<1>9. ASSUME NEW w \in Workers, CollectKeys(w) PROVE Cascaded'
  BY <1>9, Cursor DEF CollectKeys, Enter, Filed, TypeOK, Round, Idle, dbVars, Frozen, Due, Cascaded, Collected
<1>10. ASSUME NEW w \in Workers, PurgeAndEnqueue(w) PROVE Cascaded'
  BY <1>10, Cursor DEF PurgeAndEnqueue, Enter, StillDue, Purge, Skips, TypeOK, Round, Idle, dbVars, Frozen, Due, Cascaded, Collected, Filed
<1>11. ASSUME NEW w \in Workers, ListPending(w) PROVE Cascaded'
  BY <1>11, Cursor DEF ListPending, Enter, Limited, Retried, TypeOK, Round, Idle, dbVars, Frozen, Due, Cascaded, Collected, Filed
<1>12. ASSUME NEW w \in Workers, DeleteStorageObject(w) PROVE Cascaded'
  BY <1>12, Cursor DEF DeleteStorageObject, Enter, TypeOK, Round, Idle, dbVars, Frozen, Due, Cascaded, Collected, Filed
<1>13. ASSUME NEW w \in Workers, MarkDone(w) PROVE Cascaded'
  BY <1>13, Cursor DEF MarkDone, Drain, Enter, TypeOK, Round, Idle, dbVars, Frozen, Due, Cascaded, Collected, Filed
<1>14. ASSUME NEW w \in Workers, MarkFailed(w) PROVE Cascaded'
  BY <1>14, Cursor DEF MarkFailed, CountUp, Drain, Enter, TypeOK, Round, Idle, dbVars, Frozen, Due, Cascaded, Collected, Filed
<1>15. ASSUME NEW w \in Workers, EndRound(w) PROVE Cascaded'
  BY <1>15, Cursor DEF EndRound, Abort, TypeOK, Round, Idle, dbVars, Frozen, Due, Cascaded, Collected, Filed
<1>16. ASSUME NEW w \in Workers, PurgeFails(w) PROVE Cascaded'
  BY <1>16, Cursor DEF PurgeFails, Fault, StillDue, Purge, Skips, Abort, TypeOK, Round, Idle, dbVars, Frozen, Due, Cascaded, Collected, Filed
<1>17. ASSUME NEW w \in Workers, DeleteFails(w) PROVE Cascaded'
  BY <1>17, Cursor DEF DeleteFails, Fault, Enter, TypeOK, Round, Idle, dbVars, Frozen, Due, Cascaded, Collected, Filed
<1>18. ASSUME NEW w \in Workers, MarkDoneFails(w) PROVE Cascaded'
  BY <1>18, Cursor DEF MarkDoneFails, Fault, Enter, TypeOK, Round, Idle, dbVars, Frozen, Due, Cascaded, Collected, Filed
<1>19. ASSUME NEW w \in Workers, MarkFailedFails(w) PROVE Cascaded'
  BY <1>19, Cursor DEF MarkFailedFails, Fault, CountUp, Abort, TypeOK, Round, Idle, dbVars, Frozen, Due, Cascaded, Collected, Filed
<1>20. ASSUME NEW w \in Workers, Crash(w) PROVE Cascaded'
  BY <1>20, Cursor DEF Crash, Fault, Abort, TypeOK, Round, Idle, dbVars, Frozen, Due, Cascaded, Collected, Filed
<1>21. CASE UNCHANGED vars
  BY <1>21 DEF vars, TypeOK, Round, Idle, dbVars, Frozen, Due, Cascaded, Collected, Filed
<1> QED
  BY <1>1, <1>2, <1>3, <1>4, <1>5, <1>6, <1>7, <1>8, <1>9, <1>10, <1>11, <1>12, <1>13, <1>14, <1>15, <1>16, <1>17, <1>18, <1>19, <1>20, <1>21 DEF Next, OwnerStep, RoundStep, RoundFault

(* The keys collected stay complete while the account is due. *)
LEMMA NextCollected == TypeOK /\ Frozen /\ Collected /\ [Next]_vars => Collected'
<1> SUFFICES ASSUME TypeOK, Frozen, Collected, [Next]_vars PROVE Collected'
  OBVIOUS
<1> USE AccountPurgeAssumption
<1>1. ASSUME NEW o \in Objects, CreateUpload(o) PROVE Collected'
  BY <1>1 DEF CreateUpload, Admitted, TypeOK, Round, Idle, dbVars, Frozen, Due, Collected, Filed
<1>2. ASSUME NEW o \in Objects, PutObject(o) PROVE Collected'
  BY <1>2 DEF PutObject, TypeOK, Round, Idle, dbVars, Frozen, Due, Collected, Filed
<1>3. ASSUME NEW o \in Objects, LinkExpires(o) PROVE Collected'
  BY <1>3 DEF LinkExpires, TypeOK, Round, Idle, dbVars, Frozen, Due, Collected, Filed
<1>4. ASSUME NEW o \in Objects, CompleteUpload(o) PROVE Collected'
  BY <1>4 DEF CompleteUpload, Admitted, TypeOK, Round, Idle, dbVars, Frozen, Due, Collected, Filed
<1>5. ASSUME NEW a \in Accounts, RequestDeletion(a) PROVE Collected'
  BY <1>5 DEF RequestDeletion, TypeOK, Round, Idle, dbVars, Frozen, Due, Collected, Filed
<1>6. ASSUME NEW a \in Accounts, Ripen(a) PROVE Collected'
  BY <1>6 DEF Ripen, TypeOK, Round, Idle, dbVars, Frozen, Due, Collected, Filed
<1>7. ASSUME NEW a \in Accounts, CancelDeletion(a) PROVE Collected'
  BY <1>7 DEF CancelDeletion, TypeOK, Round, Idle, dbVars, Frozen, Due, Collected, Filed
<1>8. ASSUME NEW w \in Workers, StartRound(w) PROVE Collected'
  BY <1>8, Cursor DEF StartRound, Enter, Limited, Due, TypeOK, Round, Idle, dbVars, Frozen, Collected, Filed
<1>9. ASSUME NEW w \in Workers, CollectKeys(w) PROVE Collected'
  BY <1>9, Cursor DEF CollectKeys, Enter, Filed, TypeOK, Round, Idle, dbVars, Frozen, Due, Collected
<1>10. ASSUME NEW w \in Workers, PurgeAndEnqueue(w) PROVE Collected'
  BY <1>10, Cursor DEF PurgeAndEnqueue, Enter, StillDue, Purge, Skips, TypeOK, Round, Idle, dbVars, Frozen, Due, Collected, Filed
<1>11. ASSUME NEW w \in Workers, ListPending(w) PROVE Collected'
  BY <1>11, Cursor DEF ListPending, Enter, Limited, Retried, TypeOK, Round, Idle, dbVars, Frozen, Due, Collected, Filed
<1>12. ASSUME NEW w \in Workers, DeleteStorageObject(w) PROVE Collected'
  BY <1>12, Cursor DEF DeleteStorageObject, Enter, TypeOK, Round, Idle, dbVars, Frozen, Due, Collected, Filed
<1>13. ASSUME NEW w \in Workers, MarkDone(w) PROVE Collected'
  BY <1>13, Cursor DEF MarkDone, Drain, Enter, TypeOK, Round, Idle, dbVars, Frozen, Due, Collected, Filed
<1>14. ASSUME NEW w \in Workers, MarkFailed(w) PROVE Collected'
  BY <1>14, Cursor DEF MarkFailed, CountUp, Drain, Enter, TypeOK, Round, Idle, dbVars, Frozen, Due, Collected, Filed
<1>15. ASSUME NEW w \in Workers, EndRound(w) PROVE Collected'
  BY <1>15, Cursor DEF EndRound, Abort, TypeOK, Round, Idle, dbVars, Frozen, Due, Collected, Filed
<1>16. ASSUME NEW w \in Workers, PurgeFails(w) PROVE Collected'
  BY <1>16, Cursor DEF PurgeFails, Fault, StillDue, Purge, Skips, Abort, TypeOK, Round, Idle, dbVars, Frozen, Due, Collected, Filed
<1>17. ASSUME NEW w \in Workers, DeleteFails(w) PROVE Collected'
  BY <1>17, Cursor DEF DeleteFails, Fault, Enter, TypeOK, Round, Idle, dbVars, Frozen, Due, Collected, Filed
<1>18. ASSUME NEW w \in Workers, MarkDoneFails(w) PROVE Collected'
  BY <1>18, Cursor DEF MarkDoneFails, Fault, Enter, TypeOK, Round, Idle, dbVars, Frozen, Due, Collected, Filed
<1>19. ASSUME NEW w \in Workers, MarkFailedFails(w) PROVE Collected'
  BY <1>19, Cursor DEF MarkFailedFails, Fault, CountUp, Abort, TypeOK, Round, Idle, dbVars, Frozen, Due, Collected, Filed
<1>20. ASSUME NEW w \in Workers, Crash(w) PROVE Collected'
  BY <1>20, Cursor DEF Crash, Fault, Abort, TypeOK, Round, Idle, dbVars, Frozen, Due, Collected, Filed
<1>21. CASE UNCHANGED vars
  BY <1>21 DEF vars, TypeOK, Round, Idle, dbVars, Frozen, Due, Collected, Filed
<1> QED
  BY <1>1, <1>2, <1>3, <1>4, <1>5, <1>6, <1>7, <1>8, <1>9, <1>10, <1>11, <1>12, <1>13, <1>14, <1>15, <1>16, <1>17, <1>18, <1>19, <1>20, <1>21 DEF Next, OwnerStep, RoundStep, RoundFault

(* Rounds go on draining what is gone. *)
LEMMA NextDraining == TypeOK /\ Frozen /\ Cascaded /\ Draining /\ [Next]_vars => Draining'
<1> SUFFICES ASSUME TypeOK, Frozen, Cascaded, Draining, [Next]_vars PROVE Draining'
  OBVIOUS
<1> USE AccountPurgeAssumption
<1>1. ASSUME NEW o \in Objects, CreateUpload(o) PROVE Draining'
  BY <1>1 DEF CreateUpload, Admitted, TypeOK, Round, Idle, dbVars, Frozen, Due, Cascaded, Draining, Filed
<1>2. ASSUME NEW o \in Objects, PutObject(o) PROVE Draining'
  BY <1>2 DEF PutObject, TypeOK, Round, Idle, dbVars, Frozen, Due, Cascaded, Draining, Filed
<1>3. ASSUME NEW o \in Objects, LinkExpires(o) PROVE Draining'
  BY <1>3 DEF LinkExpires, TypeOK, Round, Idle, dbVars, Frozen, Due, Cascaded, Draining, Filed
<1>4. ASSUME NEW o \in Objects, CompleteUpload(o) PROVE Draining'
  BY <1>4 DEF CompleteUpload, Admitted, TypeOK, Round, Idle, dbVars, Frozen, Due, Cascaded, Draining, Filed
<1>5. ASSUME NEW a \in Accounts, RequestDeletion(a) PROVE Draining'
  BY <1>5 DEF RequestDeletion, TypeOK, Round, Idle, dbVars, Frozen, Due, Cascaded, Draining, Filed
<1>6. ASSUME NEW a \in Accounts, Ripen(a) PROVE Draining'
  BY <1>6 DEF Ripen, TypeOK, Round, Idle, dbVars, Frozen, Due, Cascaded, Draining, Filed
<1>7. ASSUME NEW a \in Accounts, CancelDeletion(a) PROVE Draining'
  BY <1>7 DEF CancelDeletion, TypeOK, Round, Idle, dbVars, Frozen, Due, Cascaded, Draining, Filed
<1>8. ASSUME NEW w \in Workers, StartRound(w) PROVE Draining'
  BY <1>8, Cursor DEF StartRound, Enter, Limited, Due, TypeOK, Round, Idle, dbVars, Frozen, Cascaded, Draining, Filed
<1>9. ASSUME NEW w \in Workers, CollectKeys(w) PROVE Draining'
  BY <1>9, Cursor DEF CollectKeys, Enter, Filed, TypeOK, Round, Idle, dbVars, Frozen, Due, Cascaded, Draining
<1>10. ASSUME NEW w \in Workers, PurgeAndEnqueue(w) PROVE Draining'
  BY <1>10, Cursor DEF PurgeAndEnqueue, Enter, StillDue, Purge, Skips, TypeOK, Round, Idle, dbVars, Frozen, Due, Cascaded, Draining, Filed
<1>11. ASSUME NEW w \in Workers, ListPending(w) PROVE Draining'
  BY <1>11, Cursor DEF ListPending, Enter, Limited, Retried, TypeOK, Round, Idle, dbVars, Frozen, Due, Cascaded, Draining, Filed
<1>12. ASSUME NEW w \in Workers, DeleteStorageObject(w) PROVE Draining'
  BY <1>12, Cursor DEF DeleteStorageObject, Enter, TypeOK, Round, Idle, dbVars, Frozen, Due, Cascaded, Draining, Filed
<1>13. ASSUME NEW w \in Workers, MarkDone(w) PROVE Draining'
  BY <1>13, Cursor DEF MarkDone, Drain, Enter, TypeOK, Round, Idle, dbVars, Frozen, Due, Cascaded, Draining, Filed
<1>14. ASSUME NEW w \in Workers, MarkFailed(w) PROVE Draining'
  BY <1>14, Cursor DEF MarkFailed, CountUp, Drain, Enter, TypeOK, Round, Idle, dbVars, Frozen, Due, Cascaded, Draining, Filed
<1>15. ASSUME NEW w \in Workers, EndRound(w) PROVE Draining'
  BY <1>15, Cursor DEF EndRound, Abort, TypeOK, Round, Idle, dbVars, Frozen, Due, Cascaded, Draining, Filed
<1>16. ASSUME NEW w \in Workers, PurgeFails(w) PROVE Draining'
  BY <1>16, Cursor DEF PurgeFails, Fault, StillDue, Purge, Skips, Abort, TypeOK, Round, Idle, dbVars, Frozen, Due, Cascaded, Draining, Filed
<1>17. ASSUME NEW w \in Workers, DeleteFails(w) PROVE Draining'
  BY <1>17, Cursor DEF DeleteFails, Fault, Enter, TypeOK, Round, Idle, dbVars, Frozen, Due, Cascaded, Draining, Filed
<1>18. ASSUME NEW w \in Workers, MarkDoneFails(w) PROVE Draining'
  BY <1>18, Cursor DEF MarkDoneFails, Fault, Enter, TypeOK, Round, Idle, dbVars, Frozen, Due, Cascaded, Draining, Filed
<1>19. ASSUME NEW w \in Workers, MarkFailedFails(w) PROVE Draining'
  BY <1>19, Cursor DEF MarkFailedFails, Fault, CountUp, Abort, TypeOK, Round, Idle, dbVars, Frozen, Due, Cascaded, Draining, Filed
<1>20. ASSUME NEW w \in Workers, Crash(w) PROVE Draining'
  BY <1>20, Cursor DEF Crash, Fault, Abort, TypeOK, Round, Idle, dbVars, Frozen, Due, Cascaded, Draining, Filed
<1>21. CASE UNCHANGED vars
  BY <1>21 DEF vars, TypeOK, Round, Idle, dbVars, Frozen, Due, Cascaded, Draining, Filed
<1> QED
  BY <1>1, <1>2, <1>3, <1>4, <1>5, <1>6, <1>7, <1>8, <1>9, <1>10, <1>11, <1>12, <1>13, <1>14, <1>15, <1>16, <1>17, <1>18, <1>19, <1>20, <1>21 DEF Next, OwnerStep, RoundStep, RoundFault

(* Confirmed uploads stay in the store. *)
LEMMA NextKept == TypeOK /\ Draining /\ Kept /\ [Next]_vars => Kept'
<1> SUFFICES ASSUME TypeOK, Draining, Kept, [Next]_vars PROVE Kept'
  OBVIOUS
<1> USE AccountPurgeAssumption
<1>1. ASSUME NEW o \in Objects, CreateUpload(o) PROVE Kept'
  BY <1>1 DEF CreateUpload, Admitted, TypeOK, Round, Idle, dbVars, Draining, Kept
<1>2. ASSUME NEW o \in Objects, PutObject(o) PROVE Kept'
  BY <1>2 DEF PutObject, TypeOK, Round, Idle, dbVars, Draining, Kept
<1>3. ASSUME NEW o \in Objects, LinkExpires(o) PROVE Kept'
  BY <1>3 DEF LinkExpires, TypeOK, Round, Idle, dbVars, Draining, Kept
<1>4. ASSUME NEW o \in Objects, CompleteUpload(o) PROVE Kept'
  BY <1>4 DEF CompleteUpload, Admitted, TypeOK, Round, Idle, dbVars, Draining, Kept
<1>5. ASSUME NEW a \in Accounts, RequestDeletion(a) PROVE Kept'
  BY <1>5 DEF RequestDeletion, TypeOK, Round, Idle, dbVars, Draining, Kept
<1>6. ASSUME NEW a \in Accounts, Ripen(a) PROVE Kept'
  BY <1>6 DEF Ripen, TypeOK, Round, Idle, dbVars, Draining, Kept
<1>7. ASSUME NEW a \in Accounts, CancelDeletion(a) PROVE Kept'
  BY <1>7 DEF CancelDeletion, TypeOK, Round, Idle, dbVars, Draining, Kept
<1>8. ASSUME NEW w \in Workers, StartRound(w) PROVE Kept'
  BY <1>8, Cursor DEF StartRound, Enter, Limited, Due, TypeOK, Round, Idle, dbVars, Draining, Kept
<1>9. ASSUME NEW w \in Workers, CollectKeys(w) PROVE Kept'
  BY <1>9, Cursor DEF CollectKeys, Enter, Filed, TypeOK, Round, Idle, dbVars, Draining, Kept
<1>10. ASSUME NEW w \in Workers, PurgeAndEnqueue(w) PROVE Kept'
  BY <1>10, Cursor DEF PurgeAndEnqueue, Enter, StillDue, Purge, Skips, TypeOK, Round, Idle, dbVars, Draining, Kept
<1>11. ASSUME NEW w \in Workers, ListPending(w) PROVE Kept'
  BY <1>11, Cursor DEF ListPending, Enter, Limited, Retried, TypeOK, Round, Idle, dbVars, Draining, Kept
<1>12. ASSUME NEW w \in Workers, DeleteStorageObject(w) PROVE Kept'
  BY <1>12, Cursor DEF DeleteStorageObject, Enter, TypeOK, Round, Idle, dbVars, Draining, Kept
<1>13. ASSUME NEW w \in Workers, MarkDone(w) PROVE Kept'
  BY <1>13, Cursor DEF MarkDone, Drain, Enter, TypeOK, Round, Idle, dbVars, Draining, Kept
<1>14. ASSUME NEW w \in Workers, MarkFailed(w) PROVE Kept'
  BY <1>14, Cursor DEF MarkFailed, CountUp, Drain, Enter, TypeOK, Round, Idle, dbVars, Draining, Kept
<1>15. ASSUME NEW w \in Workers, EndRound(w) PROVE Kept'
  BY <1>15, Cursor DEF EndRound, Abort, TypeOK, Round, Idle, dbVars, Draining, Kept
<1>16. ASSUME NEW w \in Workers, PurgeFails(w) PROVE Kept'
  BY <1>16, Cursor DEF PurgeFails, Fault, StillDue, Purge, Skips, Abort, TypeOK, Round, Idle, dbVars, Draining, Kept
<1>17. ASSUME NEW w \in Workers, DeleteFails(w) PROVE Kept'
  BY <1>17, Cursor DEF DeleteFails, Fault, Enter, TypeOK, Round, Idle, dbVars, Draining, Kept
<1>18. ASSUME NEW w \in Workers, MarkDoneFails(w) PROVE Kept'
  BY <1>18, Cursor DEF MarkDoneFails, Fault, Enter, TypeOK, Round, Idle, dbVars, Draining, Kept
<1>19. ASSUME NEW w \in Workers, MarkFailedFails(w) PROVE Kept'
  BY <1>19, Cursor DEF MarkFailedFails, Fault, CountUp, Abort, TypeOK, Round, Idle, dbVars, Draining, Kept
<1>20. ASSUME NEW w \in Workers, Crash(w) PROVE Kept'
  BY <1>20, Cursor DEF Crash, Fault, Abort, TypeOK, Round, Idle, dbVars, Draining, Kept
<1>21. CASE UNCHANGED vars
  BY <1>21 DEF vars, TypeOK, Round, Idle, dbVars, Draining, Kept
<1> QED
  BY <1>1, <1>2, <1>3, <1>4, <1>5, <1>6, <1>7, <1>8, <1>9, <1>10, <1>11, <1>12, <1>13, <1>14, <1>15, <1>16, <1>17, <1>18, <1>19, <1>20, <1>21 DEF Next, OwnerStep, RoundStep, RoundFault

(* No step loses a key. *)
LEMMA NextNoKeyLost == TypeOK /\ Frozen /\ Cascaded /\ Collected /\ Draining /\ NoKeyLost /\ [Next]_vars => NoKeyLost'
<1> SUFFICES ASSUME TypeOK, Frozen, Cascaded, Collected, Draining, NoKeyLost, [Next]_vars PROVE NoKeyLost'
  OBVIOUS
<1> USE AccountPurgeAssumption
<1>1. ASSUME NEW o \in Objects, CreateUpload(o) PROVE NoKeyLost'
  BY <1>1 DEF CreateUpload, Admitted, TypeOK, Round, Idle, dbVars, Frozen, Due, Cascaded, Collected, Draining, NoKeyLost, Filed
<1>2. ASSUME NEW o \in Objects, PutObject(o) PROVE NoKeyLost'
  BY <1>2 DEF PutObject, TypeOK, Round, Idle, dbVars, Frozen, Due, Cascaded, Collected, Draining, NoKeyLost, Filed
<1>3. ASSUME NEW o \in Objects, LinkExpires(o) PROVE NoKeyLost'
  BY <1>3 DEF LinkExpires, TypeOK, Round, Idle, dbVars, Frozen, Due, Cascaded, Collected, Draining, NoKeyLost, Filed
<1>4. ASSUME NEW o \in Objects, CompleteUpload(o) PROVE NoKeyLost'
  BY <1>4 DEF CompleteUpload, Admitted, TypeOK, Round, Idle, dbVars, Frozen, Due, Cascaded, Collected, Draining, NoKeyLost, Filed
<1>5. ASSUME NEW a \in Accounts, RequestDeletion(a) PROVE NoKeyLost'
  BY <1>5 DEF RequestDeletion, TypeOK, Round, Idle, dbVars, Frozen, Due, Cascaded, Collected, Draining, NoKeyLost, Filed
<1>6. ASSUME NEW a \in Accounts, Ripen(a) PROVE NoKeyLost'
  BY <1>6 DEF Ripen, TypeOK, Round, Idle, dbVars, Frozen, Due, Cascaded, Collected, Draining, NoKeyLost, Filed
<1>7. ASSUME NEW a \in Accounts, CancelDeletion(a) PROVE NoKeyLost'
  BY <1>7 DEF CancelDeletion, TypeOK, Round, Idle, dbVars, Frozen, Due, Cascaded, Collected, Draining, NoKeyLost, Filed
<1>8. ASSUME NEW w \in Workers, StartRound(w) PROVE NoKeyLost'
  BY <1>8, Cursor DEF StartRound, Enter, Limited, Due, TypeOK, Round, Idle, dbVars, Frozen, Cascaded, Collected, Draining, NoKeyLost, Filed
<1>9. ASSUME NEW w \in Workers, CollectKeys(w) PROVE NoKeyLost'
  BY <1>9, Cursor DEF CollectKeys, Enter, Filed, TypeOK, Round, Idle, dbVars, Frozen, Due, Cascaded, Collected, Draining, NoKeyLost
<1>10. ASSUME NEW w \in Workers, PurgeAndEnqueue(w) PROVE NoKeyLost'
  BY <1>10, Cursor DEF PurgeAndEnqueue, Enter, StillDue, Purge, Skips, TypeOK, Round, Idle, dbVars, Frozen, Due, Cascaded, Collected, Draining, NoKeyLost, Filed
<1>11. ASSUME NEW w \in Workers, ListPending(w) PROVE NoKeyLost'
  BY <1>11, Cursor DEF ListPending, Enter, Limited, Retried, TypeOK, Round, Idle, dbVars, Frozen, Due, Cascaded, Collected, Draining, NoKeyLost, Filed
<1>12. ASSUME NEW w \in Workers, DeleteStorageObject(w) PROVE NoKeyLost'
  BY <1>12, Cursor DEF DeleteStorageObject, Enter, TypeOK, Round, Idle, dbVars, Frozen, Due, Cascaded, Collected, Draining, NoKeyLost, Filed
<1>13. ASSUME NEW w \in Workers, MarkDone(w) PROVE NoKeyLost'
  BY <1>13, Cursor DEF MarkDone, Drain, Enter, TypeOK, Round, Idle, dbVars, Frozen, Due, Cascaded, Collected, Draining, NoKeyLost, Filed
<1>14. ASSUME NEW w \in Workers, MarkFailed(w) PROVE NoKeyLost'
  BY <1>14, Cursor DEF MarkFailed, CountUp, Drain, Enter, TypeOK, Round, Idle, dbVars, Frozen, Due, Cascaded, Collected, Draining, NoKeyLost, Filed
<1>15. ASSUME NEW w \in Workers, EndRound(w) PROVE NoKeyLost'
  BY <1>15, Cursor DEF EndRound, Abort, TypeOK, Round, Idle, dbVars, Frozen, Due, Cascaded, Collected, Draining, NoKeyLost, Filed
<1>16. ASSUME NEW w \in Workers, PurgeFails(w) PROVE NoKeyLost'
  BY <1>16, Cursor DEF PurgeFails, Fault, StillDue, Purge, Skips, Abort, TypeOK, Round, Idle, dbVars, Frozen, Due, Cascaded, Collected, Draining, NoKeyLost, Filed
<1>17. ASSUME NEW w \in Workers, DeleteFails(w) PROVE NoKeyLost'
  BY <1>17, Cursor DEF DeleteFails, Fault, Enter, TypeOK, Round, Idle, dbVars, Frozen, Due, Cascaded, Collected, Draining, NoKeyLost, Filed
<1>18. ASSUME NEW w \in Workers, MarkDoneFails(w) PROVE NoKeyLost'
  BY <1>18, Cursor DEF MarkDoneFails, Fault, Enter, TypeOK, Round, Idle, dbVars, Frozen, Due, Cascaded, Collected, Draining, NoKeyLost, Filed
<1>19. ASSUME NEW w \in Workers, MarkFailedFails(w) PROVE NoKeyLost'
  BY <1>19, Cursor DEF MarkFailedFails, Fault, CountUp, Abort, TypeOK, Round, Idle, dbVars, Frozen, Due, Cascaded, Collected, Draining, NoKeyLost, Filed
<1>20. ASSUME NEW w \in Workers, Crash(w) PROVE NoKeyLost'
  BY <1>20, Cursor DEF Crash, Fault, Abort, TypeOK, Round, Idle, dbVars, Frozen, Due, Cascaded, Collected, Draining, NoKeyLost, Filed
<1>21. CASE UNCHANGED vars
  BY <1>21 DEF vars, TypeOK, Round, Idle, dbVars, Frozen, Due, Cascaded, Collected, Draining, NoKeyLost, Filed
<1> QED
  BY <1>1, <1>2, <1>3, <1>4, <1>5, <1>6, <1>7, <1>8, <1>9, <1>10, <1>11, <1>12, <1>13, <1>14, <1>15, <1>16, <1>17, <1>18, <1>19, <1>20, <1>21 DEF Next, OwnerStep, RoundStep, RoundFault

(* The whole inductive invariant. *)
LEMMA SpecSound == Spec => [](TypeOK /\ Sound)
<1>1. TypeOK /\ Sound /\ [Next]_vars => (TypeOK /\ Sound)'
  BY NextTyped, NextFrozen, NextCascaded, NextCollected, NextDraining, NextKept, NextNoKeyLost DEF Sound
<1> QED
  BY InitSound, <1>1, PTL DEF Spec

(* Every variable keeps its type.                                           *)
THEOREM TypeCorrect == Spec => []TypeOK
BY SpecSound, PTL

(* Objects of purged documents are deleted or in the queue: purgeAndEnqueue *)
(* never loses a key.                                                       *)
THEOREM KeysNeverLost == Spec => []NoKeyLost
<1>1. Sound => NoKeyLost
  BY DEF Sound
<1> QED
  BY <1>1, SpecSound, PTL

(* Rounds never touch the objects of an account that exists.                *)
THEOREM LiveAccountsKeep == Spec => []LiveAccountsKeepObjects
<1>1. TypeOK /\ Sound => LiveAccountsKeepObjects
  BY DEF TypeOK, Sound, Kept, Cascaded, LiveAccountsKeepObjects
<1> QED
  BY <1>1, SpecSound, PTL

(* No account is purged while its owner may still count on the cooldown.    *)
THEOREM CooldownAlwaysRespected == Spec => CooldownRespected
<1>1. TypeOK /\ Sound /\ [Next]_vars =>
        \A a \in Accounts : acct'[a] = "gone" => acct[a] \in {"due", "gone"}
  <2> DEFINE P(b) == acct'[b] = "gone" => acct[b] \in {"due", "gone"}
  <2> SUFFICES ASSUME TypeOK, Sound, [Next]_vars, NEW b \in Accounts PROVE P(b)
    OBVIOUS
  <2> USE AccountPurgeAssumption

  <2>1. ASSUME NEW o \in Objects, CreateUpload(o) PROVE P(b)
    BY <2>1 DEF CreateUpload, Admitted, TypeOK, Round, Idle, dbVars, Sound, Frozen, Due
  <2>2. ASSUME NEW o \in Objects, PutObject(o) PROVE P(b)
    BY <2>2 DEF PutObject, TypeOK, Round, Idle, dbVars, Sound, Frozen, Due
  <2>3. ASSUME NEW o \in Objects, LinkExpires(o) PROVE P(b)
    BY <2>3 DEF LinkExpires, TypeOK, Round, Idle, dbVars, Sound, Frozen, Due
  <2>4. ASSUME NEW o \in Objects, CompleteUpload(o) PROVE P(b)
    BY <2>4 DEF CompleteUpload, Admitted, TypeOK, Round, Idle, dbVars, Sound, Frozen, Due
  <2>5. ASSUME NEW a \in Accounts, RequestDeletion(a) PROVE P(b)
    BY <2>5 DEF RequestDeletion, TypeOK, Round, Idle, dbVars, Sound, Frozen, Due
  <2>6. ASSUME NEW a \in Accounts, Ripen(a) PROVE P(b)
    BY <2>6 DEF Ripen, TypeOK, Round, Idle, dbVars, Sound, Frozen, Due
  <2>7. ASSUME NEW a \in Accounts, CancelDeletion(a) PROVE P(b)
    BY <2>7 DEF CancelDeletion, TypeOK, Round, Idle, dbVars, Sound, Frozen, Due
  <2>8. ASSUME NEW w \in Workers, StartRound(w) PROVE P(b)
    BY <2>8, Cursor DEF StartRound, Enter, Limited, Due, TypeOK, Round, Idle, dbVars, Sound, Frozen
  <2>9. ASSUME NEW w \in Workers, CollectKeys(w) PROVE P(b)
    BY <2>9, Cursor DEF CollectKeys, Enter, Filed, TypeOK, Round, Idle, dbVars, Sound, Frozen, Due
  <2>10. ASSUME NEW w \in Workers, PurgeAndEnqueue(w) PROVE P(b)
    BY <2>10, Cursor DEF PurgeAndEnqueue, Enter, StillDue, Purge, Skips, TypeOK, Round, Idle, dbVars, Sound, Frozen, Due
  <2>11. ASSUME NEW w \in Workers, ListPending(w) PROVE P(b)
    BY <2>11, Cursor DEF ListPending, Enter, Limited, Retried, TypeOK, Round, Idle, dbVars, Sound, Frozen, Due
  <2>12. ASSUME NEW w \in Workers, DeleteStorageObject(w) PROVE P(b)
    BY <2>12, Cursor DEF DeleteStorageObject, Enter, TypeOK, Round, Idle, dbVars, Sound, Frozen, Due
  <2>13. ASSUME NEW w \in Workers, MarkDone(w) PROVE P(b)
    BY <2>13, Cursor DEF MarkDone, Drain, Enter, TypeOK, Round, Idle, dbVars, Sound, Frozen, Due
  <2>14. ASSUME NEW w \in Workers, MarkFailed(w) PROVE P(b)
    BY <2>14, Cursor DEF MarkFailed, CountUp, Drain, Enter, TypeOK, Round, Idle, dbVars, Sound, Frozen, Due
  <2>15. ASSUME NEW w \in Workers, EndRound(w) PROVE P(b)
    BY <2>15, Cursor DEF EndRound, Abort, TypeOK, Round, Idle, dbVars, Sound, Frozen, Due
  <2>16. ASSUME NEW w \in Workers, PurgeFails(w) PROVE P(b)
    BY <2>16, Cursor DEF PurgeFails, Fault, StillDue, Purge, Skips, Abort, TypeOK, Round, Idle, dbVars, Sound, Frozen, Due
  <2>17. ASSUME NEW w \in Workers, DeleteFails(w) PROVE P(b)
    BY <2>17, Cursor DEF DeleteFails, Fault, Enter, TypeOK, Round, Idle, dbVars, Sound, Frozen, Due
  <2>18. ASSUME NEW w \in Workers, MarkDoneFails(w) PROVE P(b)
    BY <2>18, Cursor DEF MarkDoneFails, Fault, Enter, TypeOK, Round, Idle, dbVars, Sound, Frozen, Due
  <2>19. ASSUME NEW w \in Workers, MarkFailedFails(w) PROVE P(b)
    BY <2>19, Cursor DEF MarkFailedFails, Fault, CountUp, Abort, TypeOK, Round, Idle, dbVars, Sound, Frozen, Due
  <2>20. ASSUME NEW w \in Workers, Crash(w) PROVE P(b)
    BY <2>20, Cursor DEF Crash, Fault, Abort, TypeOK, Round, Idle, dbVars, Sound, Frozen, Due
  <2>21. CASE UNCHANGED vars
    BY <2>21 DEF vars, TypeOK, Round, Idle, dbVars, Sound, Frozen, Due
  <2> QED
    BY <2>1, <2>2, <2>3, <2>4, <2>5, <2>6, <2>7, <2>8, <2>9, <2>10, <2>11, <2>12, <2>13, <2>14, <2>15, <2>16, <2>17, <2>18, <2>19, <2>20, <2>21 DEF Next, OwnerStep, RoundStep, RoundFault
<1> QED
  BY <1>1, SpecSound, PTL DEF Spec, CooldownRespected
=============================================================================
