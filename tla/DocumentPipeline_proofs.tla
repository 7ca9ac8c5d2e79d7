---------------------- MODULE DocumentPipeline_proofs ----------------------
(***************************************************************************)
(* Proofs about DocumentPipeline, for every set of documents and workers   *)
(* and every bound: type correctness, the three invariants the runs check  *)
(* (OutcomeRecorded, ReadySearchable, QueuedHasCarrier) and the two action *)
(* properties (NoFailureOverSuccess, ReprocessingStartsPrivate).           *)
(*                                                                         *)
(* TypeOK alone is not inductive: a save takes its status from what the    *)
(* run read of the canonical document, so the contents of a run in flight  *)
(* must be constrained too (SoundRun). The rest of the inductive           *)
(* invariant, Inv, adds to the two properties that a document that was     *)
(* never processed is private and has no publication request in flight.    *)
(* QueuedHasCarrier needs an invariant of its own, Undisturbed, which ties *)
(* the locks of the queue to the runs while no fault has happened.         *)
(***************************************************************************)
EXTENDS DocumentPipeline, TLAPS

-----------------------------------------------------------------------------
(* A run in flight works on a document; once it has read a canonical        *)
(* document it knows a ready status to copy; and it never carries missing   *)
(* vectors (loadFinalizedContent).                                          *)
SoundRun(r) ==
    /\ r.pc # "idle" => r.doc \in Docs
    /\ r.pc = "load" => r.canon \in Docs /\ r.as \in Ready
    /\ r.from # "none" => r.as \in Ready
    /\ r.from # "null"
    /\ r.pc \in {"claim", "stage", "lookup", "load"} => r.from = "none"

RunSound == run \in [Workers -> RunRecord] /\ \A w \in Workers : SoundRun(run[w])

Typed == RowsTyped /\ QueueTyped /\ RestTyped /\ RunSound

(* Replacing one slot's run by a sound one keeps all runs sound. *)
LEMMA RunUpdate ==
  ASSUME RunSound, NEW w \in Workers, NEW r \in RunRecord, SoundRun(r),
         run' = [run EXCEPT ![w] = r]
  PROVE  RunSound'
BY DEF RunSound

(* The slot of a worker that does nothing is sound. *)
LEMMA IdleRunSound == IdleRun \in RunRecord /\ SoundRun(IdleRun)
BY PipelineAssumption DEF IdleRun, RunRecord, SoundRun, RunPcs, Ready, ChunkStates

(* The control flow after a markStage keeps a run sound. *)
LEMMA AfterStageSound ==
  ASSUME NEW r \in RunRecord, SoundRun(r), r.pc = "stage"
  PROVE  AfterStage(r) \in RunRecord /\ SoundRun(AfterStage(r))
<1> USE PipelineAssumption DEF AfterStage, RunRecord, SoundRun, RunPcs
<1>1. CASE r.stage = 1
  BY <1>1
<1>2. CASE r.stage # 1 /\ r.stage = Stages
  BY <1>2
<1>3. CASE r.stage # 1 /\ r.stage # Stages
  BY <1>3
<1> QED
  BY <1>1, <1>2, <1>3

(* So does the control flow after a lookup that found nothing to copy. *)
LEMMA AfterLookupSound ==
  ASSUME NEW r \in RunRecord, SoundRun(r), r.pc \in {"lookup", "load"}
  PROVE  AfterLookup(r) \in RunRecord /\ SoundRun(AfterLookup(r))
<1> USE PipelineAssumption DEF AfterLookup, RunRecord, SoundRun, RunPcs
<1>1. CASE Stages = 1
  BY <1>1
<1>2. CASE Stages # 1
  <2>1. 2 \in 0..Stages
    BY <1>2
  <2> QED
    BY <1>2, <2>1
<1> QED
  BY <1>1, <1>2

-----------------------------------------------------------------------------
(* The initial state is well typed. *)
LEMMA InitTyped == Init => Typed
<1> SUFFICES ASSUME Init PROVE Typed
  OBVIOUS
<1>1. RunSound
  BY IdleRunSound DEF Init, RunSound
<1>2. RowsTyped /\ QueueTyped /\ RestTyped
  BY PipelineAssumption DEF Init, RowsTyped, QueueTyped, RestTyped, ChunkStates, Statuses, Ready
<1> QED
  BY <1>1, <1>2 DEF Typed

(* Every step keeps it so. *)
LEMMA NextTyped == Typed /\ [Next]_vars => Typed'
<1> SUFFICES ASSUME Typed, [Next]_vars PROVE Typed'
  OBVIOUS
<1> USE PipelineAssumption DEF Typed, rowVars, mqVars, apiVars, Statuses, Ready
<1>1. ASSUME NEW d \in Docs, CreateUpload(d) PROVE Typed'
  <2>1. RowsTyped'
    BY <1>1 DEF CreateUpload, RowsTyped, ChunkStates, Recoverable
  <2>2. QueueTyped'
    BY <1>1 DEF CreateUpload, QueueTyped, LiveStates
  <2>3. RestTyped'
    BY <1>1 DEF CreateUpload, RestTyped
  <2>4. RunSound'
    BY <1>1 DEF CreateUpload, RunSound, SoundRun
  <2> QED
    BY <2>1, <2>2, <2>3, <2>4
<1>2. ASSUME NEW d \in Docs, CompleteUpload(d) PROVE Typed'
  <2>1. RowsTyped'
    BY <1>2 DEF CompleteUpload, NewEvent, RowsTyped, ChunkStates, Recoverable
  <2>2. QueueTyped'
    BY <1>2 DEF CompleteUpload, NewEvent, QueueTyped, LiveStates
  <2>3. RestTyped'
    BY <1>2 DEF CompleteUpload, NewEvent, RestTyped
  <2>4. RunSound'
    BY <1>2 DEF CompleteUpload, RunSound, SoundRun
  <2> QED
    BY <2>1, <2>2, <2>3, <2>4
<1>3. ASSUME NEW d \in Docs, AskPublic(d) PROVE Typed'
  <2>1. RowsTyped'
    BY <1>3 DEF AskPublic, RowsTyped, ChunkStates, Recoverable
  <2>2. QueueTyped'
    BY <1>3 DEF AskPublic, QueueTyped, LiveStates
  <2>3. RestTyped'
    BY <1>3 DEF AskPublic, RestTyped
  <2>4. RunSound'
    BY <1>3 DEF AskPublic, RunSound, SoundRun
  <2> QED
    BY <2>1, <2>2, <2>3, <2>4
<1>4. ASSUME NEW d \in Docs, SetPublic(d) PROVE Typed'
  <2>1. RowsTyped'
    BY <1>4 DEF SetPublic, RowsTyped, ChunkStates, Recoverable
  <2>2. QueueTyped'
    BY <1>4 DEF SetPublic, QueueTyped, LiveStates
  <2>3. RestTyped'
    BY <1>4 DEF SetPublic, RestTyped
  <2>4. RunSound'
    BY <1>4 DEF SetPublic, RunSound, SoundRun
  <2> QED
    BY <2>1, <2>2, <2>3, <2>4
<1>5. ASSUME NEW d \in Docs, SetPrivate(d) PROVE Typed'
  <2>1. RowsTyped'
    BY <1>5 DEF SetPrivate, RowsTyped, ChunkStates, Recoverable
  <2>2. QueueTyped'
    BY <1>5 DEF SetPrivate, QueueTyped, LiveStates
  <2>3. RestTyped'
    BY <1>5 DEF SetPrivate, RestTyped
  <2>4. RunSound'
    BY <1>5 DEF SetPrivate, RunSound, SoundRun
  <2> QED
    BY <2>1, <2>2, <2>3, <2>4
<1>6. ASSUME NEW d \in Docs, Purge(d) PROVE Typed'
  <2>1. RowsTyped'
    BY <1>6 DEF Purge, RowsTyped, ChunkStates, Recoverable
  <2>2. QueueTyped'
    BY <1>6 DEF Purge, QueueTyped, LiveStates
  <2>3. RestTyped'
    BY <1>6 DEF Purge, RestTyped
  <2>4. RunSound'
    BY <1>6 DEF Purge, RunSound, SoundRun
  <2> QED
    BY <2>1, <2>2, <2>3, <2>4
<1>7. ASSUME NEW d \in Docs, BackfillEnqueue(d) PROVE Typed'
  <2>1. RowsTyped'
    BY <1>7 DEF BackfillEnqueue, NewEvent, BackfillVisibility, RowsTyped, ChunkStates, Recoverable
  <2>2. QueueTyped'
    BY <1>7 DEF BackfillEnqueue, NewEvent, BackfillVisibility, QueueTyped, LiveStates
  <2>3. RestTyped'
    BY <1>7 DEF BackfillEnqueue, NewEvent, BackfillVisibility, RestTyped
  <2>4. RunSound'
    BY <1>7 DEF BackfillEnqueue, RunSound, SoundRun
  <2> QED
    BY <2>1, <2>2, <2>3, <2>4
<1>8. ASSUME NEW d \in Docs, Deliver(d) PROVE Typed'
  <2>1. RowsTyped'
    BY <1>8 DEF Deliver, AddJob, RowsTyped, ChunkStates, Recoverable
  <2>2. QueueTyped'
    BY <1>8 DEF Deliver, AddJob, QueueTyped, LiveStates
  <2>3. RestTyped'
    BY <1>8 DEF Deliver, AddJob, RestTyped
  <2>4. RunSound'
    BY <1>8 DEF Deliver, RunSound, SoundRun
  <2> QED
    BY <2>1, <2>2, <2>3, <2>4
<1>9. ASSUME NEW d \in Docs, DeliverUnconfirmed(d) PROVE Typed'
  <2>1. RowsTyped'
    BY <1>9 DEF DeliverUnconfirmed, AddJob, Fault, RowsTyped, ChunkStates, Recoverable
  <2>2. QueueTyped'
    BY <1>9 DEF DeliverUnconfirmed, AddJob, Fault, QueueTyped, LiveStates
  <2>3. RestTyped'
    BY <1>9 DEF DeliverUnconfirmed, AddJob, Fault, RestTyped
  <2>4. RunSound'
    BY <1>9 DEF DeliverUnconfirmed, RunSound, SoundRun
  <2> QED
    BY <2>1, <2>2, <2>3, <2>4
<1>10. ASSUME NEW d \in Docs, Promote(d) PROVE Typed'
  <2>1. RowsTyped'
    BY <1>10 DEF Promote, RowsTyped, ChunkStates, Recoverable
  <2>2. QueueTyped'
    BY <1>10 DEF Promote, QueueTyped, LiveStates
  <2>3. RestTyped'
    BY <1>10 DEF Promote, RestTyped
  <2>4. RunSound'
    BY <1>10 DEF Promote, RunSound, SoundRun
  <2> QED
    BY <2>1, <2>2, <2>3, <2>4
<1>11. ASSUME NEW d \in Docs, StallDead(d) PROVE Typed'
  <2>1. RowsTyped'
    BY <1>11 DEF StallDead, Requeue, RowsTyped, ChunkStates, Recoverable
  <2>2. QueueTyped'
    BY <1>11 DEF StallDead, Requeue, QueueTyped, LiveStates
  <2>3. RestTyped'
    BY <1>11 DEF StallDead, Requeue, RestTyped
  <2>4. RunSound'
    BY <1>11 DEF StallDead, RunSound, SoundRun
  <2> QED
    BY <2>1, <2>2, <2>3, <2>4
<1>12. ASSUME NEW d \in Docs, StallAlive(d) PROVE Typed'
  <2>1. RowsTyped'
    BY <1>12 DEF StallAlive, Requeue, Fault, RowsTyped, ChunkStates, Recoverable
  <2>2. QueueTyped'
    BY <1>12 DEF StallAlive, Requeue, Fault, QueueTyped, LiveStates
  <2>3. RestTyped'
    BY <1>12 DEF StallAlive, Requeue, Fault, RestTyped
  <2>4. RunSound'
    BY <1>12 DEF StallAlive, RunSound, SoundRun
  <2> QED
    BY <2>1, <2>2, <2>3, <2>4
<1>13. ASSUME NEW d \in Docs, Tick(d) PROVE Typed'
  <2>1. RowsTyped'
    BY <1>13 DEF Tick, RowsTyped, ChunkStates, Recoverable
  <2>2. QueueTyped'
    BY <1>13 DEF Tick, QueueTyped, LiveStates
  <2>3. RestTyped'
    BY <1>13 DEF Tick, RestTyped
  <2>4. RunSound'
    BY <1>13 DEF Tick, RunSound, SoundRun
  <2> QED
    BY <2>1, <2>2, <2>3, <2>4
<1>14. ASSUME NEW d \in Docs, Age(d) PROVE Typed'
  <2>1. RowsTyped'
    BY <1>14 DEF Age, RowsTyped, ChunkStates, Recoverable
  <2>2. QueueTyped'
    BY <1>14 DEF Age, QueueTyped, LiveStates
  <2>3. RestTyped'
    BY <1>14 DEF Age, RestTyped
  <2>4. RunSound'
    BY <1>14 DEF Age, RunSound, SoundRun
  <2> QED
    BY <2>1, <2>2, <2>3, <2>4
<1>15. ASSUME NEW d \in Docs, ReconcileFail(d) PROVE Typed'
  <2>1. RowsTyped'
    BY <1>15 DEF ReconcileFail, RowsTyped, ChunkStates, Recoverable
  <2>2. QueueTyped'
    BY <1>15 DEF ReconcileFail, QueueTyped, LiveStates
  <2>3. RestTyped'
    BY <1>15 DEF ReconcileFail, RestTyped
  <2>4. RunSound'
    BY <1>15 DEF ReconcileFail, RunSound, SoundRun
  <2> QED
    BY <2>1, <2>2, <2>3, <2>4
<1>16. ASSUME NEW d \in Docs, ReconcileFailJob(d) PROVE Typed'
  <2>1. RowsTyped'
    BY <1>16 DEF ReconcileFailJob, RowsTyped, ChunkStates, Recoverable
  <2>2. QueueTyped'
    BY <1>16 DEF ReconcileFailJob, QueueTyped, LiveStates
  <2>3. RestTyped'
    BY <1>16 DEF ReconcileFailJob, RestTyped
  <2>4. RunSound'
    BY <1>16 DEF ReconcileFailJob, RunSound, SoundRun
  <2> QED
    BY <2>1, <2>2, <2>3, <2>4
<1>17. ASSUME NEW d \in Docs, ReconcileCheck(d) PROVE Typed'
  <2>1. RowsTyped'
    BY <1>17 DEF ReconcileCheck, RowsTyped, ChunkStates, Recoverable
  <2>2. QueueTyped'
    BY <1>17 DEF ReconcileCheck, QueueTyped, LiveStates
  <2>3. RestTyped'
    BY <1>17 DEF ReconcileCheck, RestTyped
  <2>4. RunSound'
    BY <1>17 DEF ReconcileCheck, RunSound, SoundRun
  <2> QED
    BY <2>1, <2>2, <2>3, <2>4
<1>18. ASSUME NEW d \in Docs, ReconcileReset(d) PROVE Typed'
  <2>1. RowsTyped'
    BY <1>18 DEF ReconcileReset, RowsTyped, ChunkStates, Recoverable
  <2>2. QueueTyped'
    BY <1>18 DEF ReconcileReset, QueueTyped, LiveStates
  <2>3. RestTyped'
    BY <1>18 DEF ReconcileReset, RestTyped
  <2>4. RunSound'
    BY <1>18 DEF ReconcileReset, RunSound, SoundRun
  <2> QED
    BY <2>1, <2>2, <2>3, <2>4
<1>19. ASSUME NEW d \in Docs, ReconcileAdd(d) PROVE Typed'
  <2>1. RowsTyped'
    BY <1>19 DEF ReconcileAdd, AddJob, RowsTyped, ChunkStates, Recoverable
  <2>2. QueueTyped'
    BY <1>19 DEF ReconcileAdd, AddJob, QueueTyped, LiveStates
  <2>3. RestTyped'
    BY <1>19 DEF ReconcileAdd, AddJob, RestTyped
  <2>4. RunSound'
    BY <1>19 DEF ReconcileAdd, RunSound, SoundRun
  <2> QED
    BY <2>1, <2>2, <2>3, <2>4
<1>20. ASSUME NEW d \in Docs, ReconcilePendJob(d) PROVE Typed'
  <2>1. RowsTyped'
    BY <1>20 DEF ReconcilePendJob, RowsTyped, ChunkStates, Recoverable
  <2>2. QueueTyped'
    BY <1>20 DEF ReconcilePendJob, QueueTyped, LiveStates
  <2>3. RestTyped'
    BY <1>20 DEF ReconcilePendJob, RestTyped
  <2>4. RunSound'
    BY <1>20 DEF ReconcilePendJob, RunSound, SoundRun
  <2> QED
    BY <2>1, <2>2, <2>3, <2>4
<1>21. ASSUME NEW w \in Workers, Claim(w) PROVE Typed'
  <2>1. run[w] \in RunRecord /\ SoundRun(run[w])
    BY DEF RunSound
  <2>2. RowsTyped'
    BY <1>21, <2>1 DEF Claim, PassesGuard, RowsTyped, SoundRun, RunRecord, ChunkStates
  <2>3. QueueTyped'
    BY <1>21, <2>1 DEF Claim, PassesGuard, QueueTyped, SoundRun, LiveStates
  <2>4. RestTyped'
    BY <1>21, <2>1 DEF Claim, PassesGuard, RestTyped, SoundRun
  <2>5. RunSound'
    <3> DEFINE r == [run[w] EXCEPT !.pc = "stage", !.stage = 1]
               s == [run[w] EXCEPT !.pc = "done"]
    <3>0. 1 \in 0..Stages
      BY PipelineAssumption
    <3>1. r \in RunRecord /\ SoundRun(r)
      <4>1. r \in RunRecord
        BY <2>1, <3>0 DEF RunRecord, RunPcs
      <4> QED
        BY <1>21, <2>1, <4>1 DEF Claim, RunRecord, SoundRun
    <3>2. s \in RunRecord /\ SoundRun(s)
      BY <1>21, <2>1 DEF Claim, RunRecord, SoundRun, RunPcs
    <3>3. run' = [run EXCEPT ![w] = r] \/ run' = [run EXCEPT ![w] = s]
      BY <1>21 DEF Claim
    <3> HIDE DEF r, s
    <3> QED
      BY <3>1, <3>2, <3>3, RunUpdate
  <2> QED
    BY <2>2, <2>3, <2>4, <2>5
<1>22. ASSUME NEW w \in Workers, MarkStage(w) PROVE Typed'
  <2>1. run[w] \in RunRecord /\ SoundRun(run[w])
    BY DEF RunSound
  <2>2. RowsTyped'
    BY <1>22, <2>1 DEF MarkStage, PassesGuard, StageBlocks, AfterStage, RowsTyped, SoundRun, RunRecord, ChunkStates
  <2>3. QueueTyped'
    BY <1>22, <2>1 DEF MarkStage, PassesGuard, StageBlocks, AfterStage, QueueTyped, SoundRun, LiveStates
  <2>4. RestTyped'
    BY <1>22, <2>1 DEF MarkStage, PassesGuard, StageBlocks, AfterStage, RestTyped, SoundRun
  <2>5. RunSound'
    BY <1>22, <2>1, RunUpdate, AfterStageSound DEF MarkStage
  <2> QED
    BY <2>2, <2>3, <2>4, <2>5
<1>23. ASSUME NEW w \in Workers, Lookup(w) PROVE Typed'
  <2>1. run[w] \in RunRecord /\ SoundRun(run[w])
    BY DEF RunSound
  <2>2. RowsTyped'
    BY <1>23, <2>1 DEF Lookup, AfterLookup, Canonical, RowsTyped, SoundRun, RunRecord, ChunkStates
  <2>3. QueueTyped'
    BY <1>23, <2>1 DEF Lookup, AfterLookup, Canonical, QueueTyped, SoundRun, LiveStates
  <2>4. RestTyped'
    BY <1>23, <2>1 DEF Lookup, AfterLookup, Canonical, RestTyped, SoundRun
  <2>5. RunSound'
    <3>1. CASE Canonical(run[w].doc) = {}
      BY <1>23, <2>1, <3>1, RunUpdate, AfterLookupSound DEF Lookup
    <3>2. CASE Canonical(run[w].doc) # {}
      <4>1. PICK e \in Canonical(run[w].doc) :
              run' = [run EXCEPT ![w] =
                       [run[w] EXCEPT !.pc = "load", !.canon = e, !.as = status[e]]]
        BY <1>23, <3>2 DEF Lookup
      <4> DEFINE r == [run[w] EXCEPT !.pc = "load", !.canon = e, !.as = status[e]]
      <4>2. e \in Docs /\ status[e] \in Ready
        BY <4>1 DEF Canonical
      <4>3. r \in RunRecord /\ SoundRun(r)
        BY <1>23, <2>1, <4>2 DEF Lookup, RunRecord, SoundRun, RunPcs
      <4>4. run' = [run EXCEPT ![w] = r]
        BY <2>1, <4>1 DEF RunSound
      <4> HIDE DEF r
      <4> QED
        BY <4>3, <4>4, RunUpdate
    <3> QED
      BY <3>1, <3>2
  <2> QED
    BY <2>2, <2>3, <2>4, <2>5
<1>24. ASSUME NEW w \in Workers, Load(w) PROVE Typed'
  <2>1. run[w] \in RunRecord /\ SoundRun(run[w])
    BY DEF RunSound
  <2>2. RowsTyped'
    BY <1>24, <2>1 DEF Load, AfterLookup, Loadable, RowsTyped, SoundRun, RunRecord, ChunkStates
  <2>3. QueueTyped'
    BY <1>24, <2>1 DEF Load, AfterLookup, Loadable, QueueTyped, SoundRun, LiveStates
  <2>4. RestTyped'
    BY <1>24, <2>1 DEF Load, AfterLookup, Loadable, RestTyped, SoundRun
  <2>5. RunSound'
    <3> DEFINE c == chunks[run[w].canon]
    <3>1. c \in ChunkStates
      BY <1>24, <2>1 DEF Load, SoundRun, RowsTyped
    <3>2. CASE Loadable(c)
      <4>1. run' = [run EXCEPT ![w] = [run[w] EXCEPT !.pc = "save", !.from = c]]
        BY <1>24, <2>1, <3>2 DEF Load, RunRecord
      <4> QED
        BY <1>24, <2>1, <3>1, <3>2, <4>1, RunUpdate DEF Load, Loadable, RunRecord, SoundRun, RunPcs
    <3>3. CASE ~Loadable(c)
      <4> DEFINE r == AfterLookup(run[w])
      <4>1. r \in RunRecord /\ SoundRun(r) /\ r.pc # "load" /\ r.from = run[w].from
        BY <1>24, <2>1, AfterLookupSound DEF Load, AfterLookup, RunRecord
      <4> DEFINE s == [r EXCEPT !.canon = None, !.as = "none"]
      <4>2. run[w].from = "none"
        BY <1>24, <2>1 DEF Load, SoundRun
      <4>3. run' = [run EXCEPT ![w] = s]
        BY <1>24, <3>3 DEF Load
      <4> HIDE DEF r
      <4>4. s \in RunRecord /\ SoundRun(s)
        BY <4>1, <4>2 DEF RunRecord, SoundRun
      <4> HIDE DEF s
      <4> QED
        BY <4>3, <4>4, RunUpdate
    <3> QED
      BY <3>2, <3>3
  <2> QED
    BY <2>2, <2>3, <2>4, <2>5
<1>25. ASSUME NEW w \in Workers, Save(w) PROVE Typed'
  <2>1. run[w] \in RunRecord /\ SoundRun(run[w])
    BY DEF RunSound
  <2>2. RowsTyped'
    BY <1>25, <2>1 DEF Save, PassesGuard, SavedStatuses, SavedChunks, WithNotice, RowsTyped, SoundRun, RunRecord, ChunkStates
  <2>3. QueueTyped'
    BY <1>25, <2>1 DEF Save, PassesGuard, SavedStatuses, SavedChunks, WithNotice, QueueTyped, SoundRun, LiveStates
  <2>4. RestTyped'
    BY <1>25, <2>1 DEF Save, PassesGuard, SavedStatuses, SavedChunks, WithNotice, RestTyped, SoundRun
  <2>5. RunSound'
    BY <1>25, <2>1, RunUpdate, IdleRunSound, ZenonT(60) DEF Save, PassesGuard, SavedStatuses, SavedChunks, WithNotice, RunRecord, SoundRun, RunPcs, RowsTyped, ChunkStates
  <2> QED
    BY <2>2, <2>3, <2>4, <2>5
<1>26. ASSUME NEW w \in Workers, MarkFailed(w) PROVE Typed'
  <2>1. run[w] \in RunRecord /\ SoundRun(run[w])
    BY DEF RunSound
  <2>2. RowsTyped'
    BY <1>26, <2>1 DEF MarkFailed, PassesGuard, FailBlocks, WithNotice, RowsTyped, SoundRun, RunRecord, ChunkStates
  <2>3. QueueTyped'
    BY <1>26, <2>1 DEF MarkFailed, PassesGuard, FailBlocks, WithNotice, QueueTyped, SoundRun, LiveStates
  <2>4. RestTyped'
    BY <1>26, <2>1 DEF MarkFailed, PassesGuard, FailBlocks, WithNotice, RestTyped, SoundRun
  <2>5. RunSound'
    <3> DEFINE r == [run[w] EXCEPT !.pc = IF run[w].pc = "fail" THEN "throw" ELSE "throwFinal"]
    <3>1. r \in RunRecord /\ SoundRun(r)
      <4>1. run[w].pc \in {"fail", "failFinal"}
        BY <1>26 DEF MarkFailed
      <4> QED
        BY <4>1, <2>1 DEF RunRecord, SoundRun, RunPcs
    <3>2. run' = [run EXCEPT ![w] = r]
      BY <1>26 DEF MarkFailed
    <3> HIDE DEF r
    <3> QED
      BY <3>1, <3>2, RunUpdate
  <2> QED
    BY <2>2, <2>3, <2>4, <2>5
<1>27. ASSUME NEW w \in Workers, Complete(w) PROVE Typed'
  <2>1. run[w] \in RunRecord /\ SoundRun(run[w])
    BY DEF RunSound
  <2>2. RowsTyped'
    BY <1>27, <2>1 DEF Complete, IdleRun, RowsTyped, SoundRun, RunRecord, ChunkStates
  <2>3. QueueTyped'
    BY <1>27, <2>1 DEF Complete, IdleRun, QueueTyped, SoundRun, LiveStates
  <2>4. RestTyped'
    BY <1>27, <2>1 DEF Complete, IdleRun, RestTyped, SoundRun
  <2>5. RunSound'
    BY <1>27, <2>1, RunUpdate, IdleRunSound DEF Complete, IdleRun, RunRecord, SoundRun, RunPcs, RowsTyped, ChunkStates
  <2> QED
    BY <2>2, <2>3, <2>4, <2>5
<1>28. ASSUME NEW w \in Workers, Throw(w) PROVE Typed'
  <2>1. run[w] \in RunRecord /\ SoundRun(run[w])
    BY DEF RunSound
  <2>2. RowsTyped'
    BY <1>28, <2>1 DEF Throw, IdleRun, LastAttempt, RowsTyped, SoundRun, RunRecord, ChunkStates
  <2>3. QueueTyped'
    BY <1>28, <2>1 DEF Throw, IdleRun, LastAttempt, QueueTyped, SoundRun, LiveStates
  <2>4. RestTyped'
    BY <1>28, <2>1 DEF Throw, IdleRun, LastAttempt, RestTyped, SoundRun
  <2>5. RunSound'
    BY <1>28, <2>1, RunUpdate, IdleRunSound DEF Throw, IdleRun, LastAttempt, RunRecord, SoundRun, RunPcs, RowsTyped, ChunkStates
  <2> QED
    BY <2>2, <2>3, <2>4, <2>5
<1>29. ASSUME NEW w \in Workers, ClaimRaises(w) PROVE Typed'
  <2>1. run[w] \in RunRecord /\ SoundRun(run[w])
    BY DEF RunSound
  <2>2. RowsTyped'
    BY <1>29, <2>1 DEF ClaimRaises, Fault, RowsTyped, SoundRun, RunRecord, ChunkStates
  <2>3. QueueTyped'
    BY <1>29, <2>1 DEF ClaimRaises, Fault, QueueTyped, SoundRun, LiveStates
  <2>4. RestTyped'
    BY <1>29, <2>1 DEF ClaimRaises, Fault, RestTyped, SoundRun
  <2>5. RunSound'
    BY <1>29, <2>1, RunUpdate, IdleRunSound DEF ClaimRaises, Fault, RunRecord, SoundRun, RunPcs, RowsTyped, ChunkStates
  <2> QED
    BY <2>2, <2>3, <2>4, <2>5
<1>30. ASSUME NEW w \in Workers, MarkFailedRaises(w) PROVE Typed'
  <2>1. run[w] \in RunRecord /\ SoundRun(run[w])
    BY DEF RunSound
  <2>2. RowsTyped'
    BY <1>30, <2>1 DEF MarkFailedRaises, Fault, RowsTyped, SoundRun, RunRecord, ChunkStates
  <2>3. QueueTyped'
    BY <1>30, <2>1 DEF MarkFailedRaises, Fault, QueueTyped, SoundRun, LiveStates
  <2>4. RestTyped'
    BY <1>30, <2>1 DEF MarkFailedRaises, Fault, RestTyped, SoundRun
  <2>5. RunSound'
    BY <1>30, <2>1, RunUpdate, IdleRunSound DEF MarkFailedRaises, Fault, RunRecord, SoundRun, RunPcs, RowsTyped, ChunkStates
  <2> QED
    BY <2>2, <2>3, <2>4, <2>5
<1>31. ASSUME NEW w \in Workers, Crash(w) PROVE Typed'
  <2>1. run[w] \in RunRecord /\ SoundRun(run[w])
    BY DEF RunSound
  <2>2. RowsTyped'
    BY <1>31, <2>1 DEF Crash, Fault, IdleRun, RowsTyped, SoundRun, RunRecord, ChunkStates
  <2>3. QueueTyped'
    BY <1>31, <2>1 DEF Crash, Fault, IdleRun, QueueTyped, SoundRun, LiveStates
  <2>4. RestTyped'
    BY <1>31, <2>1 DEF Crash, Fault, IdleRun, RestTyped, SoundRun
  <2>5. RunSound'
    BY <1>31, <2>1, RunUpdate, IdleRunSound DEF Crash, Fault, IdleRun, RunRecord, SoundRun, RunPcs, RowsTyped, ChunkStates
  <2> QED
    BY <2>2, <2>3, <2>4, <2>5
<1>32. ASSUME NEW w \in Workers, NEW retryable \in BOOLEAN, Raise(w, retryable) PROVE Typed'
  <2>1. run[w] \in RunRecord /\ SoundRun(run[w])
    BY DEF RunSound
  <2>2. RowsTyped'
    BY <1>32, <2>1 DEF Raise, Fault, LastAttempt, RowsTyped, SoundRun, RunRecord, ChunkStates
  <2>3. QueueTyped'
    BY <1>32, <2>1 DEF Raise, Fault, LastAttempt, QueueTyped, SoundRun, LiveStates
  <2>4. RestTyped'
    BY <1>32, <2>1 DEF Raise, Fault, LastAttempt, RestTyped, SoundRun
  <2>5. RunSound'
    BY <1>32, <2>1, RunUpdate, IdleRunSound, ZenonT(60) DEF Raise, Fault, LastAttempt, RunRecord, SoundRun, RunPcs, RowsTyped, ChunkStates
  <2> QED
    BY <2>2, <2>3, <2>4, <2>5
<1>33. ASSUME NEW w \in Workers, NEW d \in Docs, Fetch(w, d) PROVE Typed'
  <2>1. run[w] \in RunRecord /\ SoundRun(run[w])
    BY DEF RunSound
  <2>2. RowsTyped'
    BY <1>33, <2>1 DEF Fetch, IdleRun, RowsTyped, SoundRun, RunRecord, ChunkStates
  <2>3. QueueTyped'
    BY <1>33, <2>1 DEF Fetch, IdleRun, QueueTyped, SoundRun, LiveStates
  <2>4. RestTyped'
    BY <1>33, <2>1 DEF Fetch, IdleRun, RestTyped, SoundRun
  <2>5. RunSound'
    <3> DEFINE r == [IdleRun EXCEPT !.pc = "claim", !.doc = d, !.try = tries[d]]
    <3>1. r \in RunRecord /\ SoundRun(r)
      <4>1. tries[d] \in 0..(MaxAttempts - 1)
        BY DEF QueueTyped
      <4> QED
        BY <4>1, IdleRunSound DEF IdleRun, RunRecord, SoundRun, RunPcs
    <3>2. run' = [run EXCEPT ![w] = r]
      BY <1>33 DEF Fetch
    <3> HIDE DEF r
    <3> QED
      BY <3>1, <3>2, RunUpdate
  <2> QED
    BY <2>2, <2>3, <2>4, <2>5
<1>34. CASE BackfillScan
  <2>1. RowsTyped'
    BY <1>34 DEF BackfillScan, RowsTyped, ChunkStates, Recoverable
  <2>2. QueueTyped'
    BY <1>34 DEF BackfillScan, QueueTyped, LiveStates
  <2>3. RestTyped'
    BY <1>34 DEF BackfillScan, RestTyped
  <2>4. RunSound'
    BY <1>34 DEF BackfillScan, RunSound, SoundRun
  <2> QED
    BY <2>1, <2>2, <2>3, <2>4
<1>35. CASE ReconcileList
  <2>1. RowsTyped'
    BY <1>35 DEF ReconcileList, Round, Stale, Classify, Reconcilable, Recoverable, RowsTyped, ChunkStates, Recoverable
  <2>2. QueueTyped'
    BY <1>35 DEF ReconcileList, Round, Stale, Classify, Reconcilable, Recoverable, QueueTyped, LiveStates
  <2>3. RestTyped'
    BY <1>35 DEF ReconcileList, Round, Stale, Classify, Reconcilable, Recoverable, RestTyped
  <2>4. RunSound'
    BY <1>35 DEF ReconcileList, RunSound, SoundRun
  <2> QED
    BY <2>1, <2>2, <2>3, <2>4
<1>36. CASE ReconcileAbort
  <2>1. RowsTyped'
    BY <1>36 DEF ReconcileAbort, Fault, RowsTyped, ChunkStates, Recoverable
  <2>2. QueueTyped'
    BY <1>36 DEF ReconcileAbort, Fault, QueueTyped, LiveStates
  <2>3. RestTyped'
    BY <1>36 DEF ReconcileAbort, Fault, RestTyped
  <2>4. RunSound'
    BY <1>36 DEF ReconcileAbort, RunSound, SoundRun
  <2> QED
    BY <2>1, <2>2, <2>3, <2>4
<1>37. CASE UNCHANGED vars
  <2>1. RowsTyped'
    BY <1>37 DEF vars, RowsTyped, ChunkStates, Recoverable
  <2>2. QueueTyped'
    BY <1>37 DEF vars, QueueTyped, LiveStates
  <2>3. RestTyped'
    BY <1>37 DEF vars, RestTyped
  <2>4. RunSound'
    BY <1>37 DEF vars, RunSound, SoundRun
  <2> QED
    BY <2>1, <2>2, <2>3, <2>4
<1> QED
  BY <1>1, <1>2, <1>3, <1>4, <1>5, <1>6, <1>7, <1>8, <1>9, <1>10, <1>11, <1>12, <1>13, <1>14, <1>15, <1>16, <1>17, <1>18, <1>19, <1>20, <1>21, <1>22, <1>23, <1>24, <1>25, <1>26, <1>27, <1>28, <1>29, <1>30, <1>31, <1>32, <1>33, <1>34, <1>35, <1>36, <1>37 DEF Next, ApiStep, QueueStep, RunStep, RunFault, ReconcileStep

-----------------------------------------------------------------------------
(* A document that has not been uploaded was never ready, so nobody can be  *)
(* about to publish it and it is private.                                   *)
NeverAsked ==
    \A d \in Docs : status[d] \in {"absent", "pending_upload"}
                     => visibility[d] = "private" /\ d \notin asked

Inv == OutcomeRecorded /\ ReadySearchable /\ NeverAsked

(* The initial state satisfies the properties. *)
LEMMA InitInv == Init => Inv
BY PipelineAssumption DEF Init, Inv, OutcomeRecorded, ReadySearchable, NeverAsked, Ready

(* Only these variables occur in Inv. *)
invVars == <<status, visibility, error, notes, chunks, asked>>

(* Every step of a well-typed state preserves them: only the steps that write *)
(* one of invVars need an argument of their own.                             *)
LEMMA NextInv == Typed /\ Inv /\ [Next]_vars => Inv'
<1> SUFFICES ASSUME Typed, Inv, [Next]_vars PROVE Inv'
  OBVIOUS
<1> USE DEF Inv, OutcomeRecorded, ReadySearchable, NeverAsked, Typed, RowsTyped, Ready,
            Exists, rowVars, mqVars, apiVars
<1>1. ASSUME NEW d \in Docs, CreateUpload(d) PROVE Inv'
  BY <1>1 DEF CreateUpload
<1>2. ASSUME NEW d \in Docs, CompleteUpload(d) PROVE Inv'
  BY <1>2 DEF CompleteUpload, NewEvent
<1>3. ASSUME NEW d \in Docs, AskPublic(d) PROVE Inv'
  BY <1>3 DEF AskPublic
<1>4. ASSUME NEW d \in Docs, SetPublic(d) PROVE Inv'
  BY <1>4 DEF SetPublic
<1>5. ASSUME NEW d \in Docs, SetPrivate(d) PROVE Inv'
  BY <1>5 DEF SetPrivate
<1>6. ASSUME NEW d \in Docs, Purge(d) PROVE Inv'
  BY <1>6 DEF Purge
<1>7. ASSUME NEW d \in Docs, BackfillEnqueue(d) PROVE Inv'
  BY <1>7 DEF BackfillEnqueue, NewEvent, BackfillVisibility
<1>8. ASSUME NEW d \in Docs, ReconcileFail(d) PROVE Inv'
  BY <1>8 DEF ReconcileFail, Reconcilable
<1>9. ASSUME NEW d \in Docs, ReconcileReset(d) PROVE Inv'
  BY <1>9 DEF ReconcileReset, Recoverable
<1>10. ASSUME NEW w \in Workers, MarkStage(w) PROVE Inv'
  <2>1. run[w] \in RunRecord /\ SoundRun(run[w])
    BY DEF RunSound
  <2> QED
    BY <1>10, <2>1 DEF MarkStage, PassesGuard, StageBlocks, AfterStage, SoundRun, RunRecord, ChunkStates
<1>11. ASSUME NEW w \in Workers, Save(w) PROVE Inv'
  <2>1. run[w] \in RunRecord /\ SoundRun(run[w])
    BY DEF RunSound
  <2> QED
    BY <1>11, <2>1 DEF Save, PassesGuard, SavedStatuses, SavedChunks, WithNotice, SoundRun, RunRecord, ChunkStates
<1>12. ASSUME NEW w \in Workers, MarkFailed(w) PROVE Inv'
  <2>1. run[w] \in RunRecord /\ SoundRun(run[w])
    BY DEF RunSound
  <2> QED
    BY <1>12, <2>1 DEF MarkFailed, PassesGuard, FailBlocks, WithNotice, SoundRun, RunRecord, ChunkStates
<1>13. CASE UNCHANGED invVars
  BY <1>13 DEF invVars
<1>14. ASSUME NEW d \in Docs, \/ Deliver(d) \/ DeliverUnconfirmed(d) \/ Promote(d) \/ StallDead(d) \/ StallAlive(d) \/ Tick(d) \/ Age(d) \/ ReconcileFailJob(d) \/ ReconcileCheck(d) \/ ReconcileAdd(d) \/ ReconcilePendJob(d)
      PROVE  UNCHANGED invVars
  BY <1>14, SMTT(60) DEF invVars, Deliver, DeliverUnconfirmed, Promote, StallDead, StallAlive, Tick, Age, ReconcileFailJob, ReconcileCheck, ReconcileAdd, ReconcilePendJob
<1>15. ASSUME NEW w \in Workers, RunFault(w) \/ Claim(w) \/ Lookup(w) \/ Load(w) \/ Complete(w) \/ Throw(w)
      PROVE  UNCHANGED invVars
  BY <1>15 DEF invVars, RunFault, Claim, Lookup, Load, Complete, Throw, ClaimRaises, MarkFailedRaises, Crash, Raise
<1>16. ASSUME NEW w \in Workers, NEW d \in Docs, Fetch(w, d) PROVE UNCHANGED invVars
  BY <1>16 DEF invVars, Fetch
<1>17. CASE BackfillScan \/ ReconcileList \/ ReconcileAbort
  BY <1>17, <1>13 DEF invVars, BackfillScan, ReconcileList, ReconcileAbort
<1>18. CASE UNCHANGED vars
  BY <1>18, <1>13 DEF vars, invVars
<1> QED
  BY <1>1, <1>2, <1>3, <1>4, <1>5, <1>6, <1>7, <1>8, <1>9, <1>10, <1>11, <1>12, <1>13, <1>14, <1>15, <1>16, <1>17, <1>18 DEF Next, ApiStep, QueueStep, RunStep, ReconcileStep

-----------------------------------------------------------------------------
(* Typed /\ Inv is the inductive invariant of the specification. *)
LEMMA SpecInv == Spec => [](Typed /\ Inv)
<1>1. Init => Typed /\ Inv
  BY InitTyped, InitInv
<1>2. Typed /\ Inv /\ [Next]_vars => (Typed /\ Inv)'
  BY NextTyped, NextInv
<1> QED
  BY <1>1, <1>2, PTL DEF Spec

(* Every variable keeps its type; in particular attemptsMade never reaches  *)
(* PROCESSING_RETRY.attempts and no unpublished-event count goes negative.  *)
THEOREM TypeCorrect == Spec => []TypeOK
<1>1. Typed => TypeOK
  BY DEF Typed, TypeOK, RunSound
<1> QED
  BY <1>1, SpecInv, PTL

(* The outcome a user sees is always complete: status, error code and       *)
(* notification agree (saveChunksAndFinalize, markFailed, reconcile fail).  *)
THEOREM OutcomeAlwaysRecorded == Spec => []OutcomeRecorded
<1>1. Inv => OutcomeRecorded
  BY DEF Inv
<1> QED
  BY <1>1, SpecInv, PTL

(* A document made ready by the current workers always has searchable       *)
(* chunks, own or copied, if there is anything under its headings           *)
(* (chunkDocument, loadFinalizedContent, saveChunksAndFinalize).            *)
THEOREM ReadyAlwaysSearchable == Spec => []ReadySearchable
<1>1. Inv => ReadySearchable
  BY DEF Inv
<1> QED
  BY <1>1, SpecInv, PTL

(* No step of any actor moves a ready document straight to failed           *)
(* (READY_STATUSES in markFailed, guardedDocumentWhere in fail).            *)
THEOREM SuccessNeverFailsInOneStep == Spec => NoFailureOverSuccess
<1> DEFINE P(d) == status[d] \in Ready => status'[d] # "failed"
<1>1. Typed /\ Inv /\ [Next]_vars => \A d \in Docs : P(d)
  <2> SUFFICES ASSUME Typed, Inv, [Next]_vars, NEW c \in Docs PROVE P(c)
    OBVIOUS
  <2> USE DEF Typed, RowsTyped, Ready, Recoverable, rowVars, mqVars, apiVars
  <2>1. ASSUME NEW d \in Docs, CreateUpload(d) PROVE P(c)
    BY <2>1 DEF CreateUpload
  <2>2. ASSUME NEW d \in Docs, CompleteUpload(d) PROVE P(c)
    BY <2>2 DEF CompleteUpload, NewEvent
  <2>3. ASSUME NEW d \in Docs, Purge(d) PROVE P(c)
    BY <2>3 DEF Purge
  <2>4. ASSUME NEW d \in Docs, BackfillEnqueue(d) PROVE P(c)
    BY <2>4 DEF BackfillEnqueue, NewEvent, BackfillVisibility
  <2>5. ASSUME NEW d \in Docs, ReconcileFail(d) PROVE P(c)
    BY <2>5 DEF ReconcileFail, Reconcilable
  <2>6. ASSUME NEW d \in Docs, ReconcileReset(d) PROVE P(c)
    BY <2>6 DEF ReconcileReset, Recoverable
  <2>7. ASSUME NEW w \in Workers, MarkStage(w) PROVE P(c)
    <3>1. run[w] \in RunRecord /\ SoundRun(run[w])
      BY DEF RunSound
    <3> QED
      BY <2>7, <3>1 DEF MarkStage, PassesGuard, StageBlocks, AfterStage, SoundRun
  <2>8. ASSUME NEW w \in Workers, Save(w) PROVE P(c)
    <3>1. run[w] \in RunRecord /\ SoundRun(run[w])
      BY DEF RunSound
    <3> QED
      BY <2>8, <3>1 DEF Save, PassesGuard, SavedStatuses, SavedChunks, WithNotice, SoundRun
  <2>9. ASSUME NEW w \in Workers, MarkFailed(w) PROVE P(c)
    <3>1. run[w] \in RunRecord /\ SoundRun(run[w])
      BY DEF RunSound
    <3> QED
      BY <2>9, <3>1 DEF MarkFailed, PassesGuard, FailBlocks, WithNotice, SoundRun
  <2>10. CASE UNCHANGED status
    BY <2>10
  <2>11. ASSUME NEW d \in Docs, \/ AskPublic(d) \/ SetPublic(d) \/ SetPrivate(d) \/ Deliver(d) \/ DeliverUnconfirmed(d) \/ Promote(d) \/ StallDead(d) \/ StallAlive(d) \/ Tick(d) \/ Age(d) \/ ReconcileFailJob(d) \/ ReconcileCheck(d) \/ ReconcileAdd(d) \/ ReconcilePendJob(d)
        PROVE  UNCHANGED status
    BY <2>11, SMTT(60) DEF AskPublic, SetPublic, SetPrivate, Deliver, DeliverUnconfirmed, Promote, StallDead, StallAlive, Tick, Age, ReconcileFailJob, ReconcileCheck, ReconcileAdd, ReconcilePendJob
  <2>12. ASSUME NEW w \in Workers, RunFault(w) \/ Claim(w) \/ Lookup(w) \/ Load(w) \/ Complete(w) \/ Throw(w)
        PROVE  UNCHANGED status
    BY <2>12 DEF RunFault, Claim, Lookup, Load, Complete, Throw, ClaimRaises, MarkFailedRaises, Crash, Raise
  <2>13. ASSUME NEW w \in Workers, NEW d \in Docs, Fetch(w, d) PROVE UNCHANGED status
    BY <2>13 DEF Fetch
  <2>14. CASE BackfillScan \/ ReconcileList \/ ReconcileAbort \/ UNCHANGED vars
    BY <2>14, <2>10 DEF BackfillScan, ReconcileList, ReconcileAbort, vars
  <2> QED
    BY <2>1, <2>2, <2>3, <2>4, <2>5, <2>6, <2>7, <2>8, <2>9, <2>10, <2>11, <2>12, <2>13, <2>14 DEF Next, ApiStep, QueueStep, RunStep, ReconcileStep
<1> QED
  BY <1>1, SpecInv, PTL DEF Spec, NoFailureOverSuccess

(* Every step that sends a document into queued or processing leaves it     *)
(* private (markStage, recover, enqueueReprocess, completeUploadTx).        *)
THEOREM ReprocessingAlwaysStartsPrivate == Spec => ReprocessingStartsPrivate
<1> DEFINE P(d) == status[d] \notin Recoverable /\ status'[d] \in Recoverable => visibility'[d] = "private"
<1>1. Typed /\ Inv /\ [Next]_vars => \A d \in Docs : P(d)
  <2> SUFFICES ASSUME Typed, Inv, [Next]_vars, NEW c \in Docs PROVE P(c)
    OBVIOUS
  <2> USE DEF Typed, RowsTyped, Ready, Recoverable, rowVars, mqVars, apiVars
  <2>1. ASSUME NEW d \in Docs, CreateUpload(d) PROVE P(c)
    BY <2>1 DEF CreateUpload
  <2>2. ASSUME NEW d \in Docs, CompleteUpload(d) PROVE P(c)
    BY <2>2 DEF CompleteUpload, NewEvent, Inv, NeverAsked
  <2>3. ASSUME NEW d \in Docs, Purge(d) PROVE P(c)
    BY <2>3 DEF Purge
  <2>4. ASSUME NEW d \in Docs, BackfillEnqueue(d) PROVE P(c)
    BY <2>4 DEF BackfillEnqueue, NewEvent, BackfillVisibility
  <2>5. ASSUME NEW d \in Docs, ReconcileFail(d) PROVE P(c)
    BY <2>5 DEF ReconcileFail, Reconcilable
  <2>6. ASSUME NEW d \in Docs, ReconcileReset(d) PROVE P(c)
    BY <2>6 DEF ReconcileReset, Recoverable
  <2>7. ASSUME NEW w \in Workers, MarkStage(w) PROVE P(c)
    <3>1. run[w] \in RunRecord /\ SoundRun(run[w])
      BY DEF RunSound
    <3> QED
      BY <2>7, <3>1 DEF MarkStage, PassesGuard, StageBlocks, AfterStage, SoundRun
  <2>8. ASSUME NEW w \in Workers, Save(w) PROVE P(c)
    <3>1. run[w] \in RunRecord /\ SoundRun(run[w])
      BY DEF RunSound
    <3> QED
      BY <2>8, <3>1 DEF Save, PassesGuard, SavedStatuses, SavedChunks, WithNotice, SoundRun
  <2>9. ASSUME NEW w \in Workers, MarkFailed(w) PROVE P(c)
    <3>1. run[w] \in RunRecord /\ SoundRun(run[w])
      BY DEF RunSound
    <3> QED
      BY <2>9, <3>1 DEF MarkFailed, PassesGuard, FailBlocks, WithNotice, SoundRun
  <2>10. CASE UNCHANGED status
    BY <2>10
  <2>11. ASSUME NEW d \in Docs, \/ AskPublic(d) \/ SetPublic(d) \/ SetPrivate(d) \/ Deliver(d) \/ DeliverUnconfirmed(d) \/ Promote(d) \/ StallDead(d) \/ StallAlive(d) \/ Tick(d) \/ Age(d) \/ ReconcileFailJob(d) \/ ReconcileCheck(d) \/ ReconcileAdd(d) \/ ReconcilePendJob(d)
        PROVE  UNCHANGED status
    BY <2>11 DEF AskPublic, SetPublic, SetPrivate, Deliver, DeliverUnconfirmed, Promote, StallDead, StallAlive, Tick, Age, ReconcileFailJob, ReconcileCheck, ReconcileAdd, ReconcilePendJob
  <2>12. ASSUME NEW w \in Workers, RunFault(w) \/ Claim(w) \/ Lookup(w) \/ Load(w) \/ Complete(w) \/ Throw(w)
        PROVE  UNCHANGED status
    BY <2>12 DEF RunFault, Claim, Lookup, Load, Complete, Throw, ClaimRaises, MarkFailedRaises, Crash, Raise
  <2>13. ASSUME NEW w \in Workers, NEW d \in Docs, Fetch(w, d) PROVE UNCHANGED status
    BY <2>13 DEF Fetch
  <2>14. CASE BackfillScan \/ ReconcileList \/ ReconcileAbort \/ UNCHANGED vars
    BY <2>14, <2>10 DEF BackfillScan, ReconcileList, ReconcileAbort, vars
  <2> QED
    BY <2>1, <2>2, <2>3, <2>4, <2>5, <2>6, <2>7, <2>8, <2>9, <2>10, <2>11, <2>12, <2>13, <2>14 DEF Next, ApiStep, QueueStep, RunStep, ReconcileStep
<1> QED
  BY <1>1, SpecInv, PTL DEF Spec, ReprocessingStartsPrivate

-----------------------------------------------------------------------------
(* QueuedHasCarrier is about executions without faults. The lock of a job    *)
(* and the run that holds it then belong together, a run never fails, a run  *)
(* that is over has left its document ready or found it purged, and the      *)
(* backfill only ever sees documents no run has touched: a run that ends     *)
(* cannot leave a queued document behind without a job.                      *)

(* The job is not parked, and is active exactly while its run is going on.   *)
LockHeld ==
    /\ \A d \in Docs : mq[d] \in {"none", "waiting", "active"}
    /\ \A d \in Docs : mq[d] = "active" =>
          \E w \in Workers : owner[d] = w /\ run[w].pc # "idle" /\ run[w].doc = d
    /\ \A w \in Workers : run[w].pc # "idle" =>
          mq[run[w].doc] = "active" /\ owner[run[w].doc] = w

(* A run does not fail, and at its end nothing is left to do.                *)
RunSucceeds ==
    \A w \in Workers :
        /\ run[w].pc \in {"idle", "claim", "stage", "lookup", "load", "save", "done"}
        /\ run[w].pc = "done" => status[run[w].doc] \in Ready \cup {"gone"}

(* What is queued, processed or ready, in the queue, on its way to it or in   *)
(* the hands of the reconciliation was uploaded and has a job row.           *)
InHand(d) ==
    \/ status[d] \in Ready \cup Recoverable
    \/ events[d] > 0
    \/ mq[d] # "none"
    \/ plan[d] \in {"check", "reset", "add"}

Uploaded ==
    \A d \in Docs :
        status[d] # "gone" /\ InHand(d)
          => job[d] # "none" /\ status[d] \notin {"absent", "pending_upload"}

(* What the backfill selects or has selected is ready and nobody's task.     *)
Selectable(d) == status[d] \in Ready /\ chunks[d] \in {"old", "null"}

BackfillAlone ==
    \A d \in Docs :
        status[d] # "gone" /\ (d \in scan \/ Selectable(d))
          => Selectable(d) /\ mq[d] = "none" /\ events[d] = 0 /\ plan[d] = "none"

(* QueuedHasCarrier, also within a round of the reconciliation except        *)
(* between its reset and its queue.add.                                      *)
Carried ==
    \A d \in Docs : status[d] = "queued" /\ plan[d] # "add"
                     => events[d] > 0 \/ mq[d] \in LiveStates

Undisturbed == LockHeld /\ RunSucceeds /\ Uploaded /\ BackfillAlone /\ Carried

(* Faults are counted and never forgotten. *)
LEMMA FaultsGrow == Typed /\ [Next]_vars /\ faults' = 0 => faults = 0
<1> SUFFICES ASSUME Typed, [Next]_vars, faults' = 0 PROVE faults = 0
  OBVIOUS
<1>1. ASSUME Fault PROVE FALSE
  BY <1>1 DEF Fault, Typed, RestTyped
<1>2. ASSUME NEW d \in Docs, ApiStep(d) PROVE UNCHANGED faults
  BY <1>2 DEF ApiStep, CreateUpload, CompleteUpload, AskPublic, SetPublic, SetPrivate, Purge
<1>3. ASSUME NEW d \in Docs, QueueStep(d) PROVE UNCHANGED faults \/ Fault
  BY <1>3 DEF QueueStep, BackfillEnqueue, Deliver, DeliverUnconfirmed, Promote, StallDead, StallAlive, Tick, Age
<1>4. ASSUME NEW d \in Docs, ReconcileStep(d) PROVE UNCHANGED faults
  BY <1>4, SMTT(60) DEF ReconcileStep, ReconcileFail, ReconcileFailJob, ReconcileCheck, ReconcileReset, ReconcileAdd, ReconcilePendJob
<1>5. ASSUME NEW w \in Workers, RunStep(w) PROVE UNCHANGED faults
  BY <1>5 DEF RunStep, Claim, MarkStage, Lookup, Load, Save, MarkFailed, Complete, Throw
<1>6. ASSUME NEW w \in Workers, RunFault(w) PROVE Fault
  BY <1>6 DEF RunFault, ClaimRaises, MarkFailedRaises, Crash, Raise
<1>7. ASSUME NEW w \in Workers, NEW d \in Docs, Fetch(w, d) PROVE UNCHANGED faults
  BY <1>7 DEF Fetch
<1>8. CASE BackfillScan \/ ReconcileList \/ UNCHANGED vars
  BY <1>8 DEF BackfillScan, ReconcileList, vars
<1>9. CASE ReconcileAbort
  BY <1>1, <1>9 DEF ReconcileAbort
<1> QED
  BY <1>1, <1>2, <1>3, <1>4, <1>5, <1>6, <1>7, <1>8, <1>9 DEF Next

(* A run that goes on with its document keeps the lock it held. *)
LEMMA RunGoesOn ==
  ASSUME LockHeld, RunSucceeds, NEW w \in Workers, NEW r, run \in [Workers -> RunRecord],
         run' = [run EXCEPT ![w] = r], run[w].pc # "idle", r.doc = run[w].doc,
         r.pc \in {"claim", "stage", "lookup", "load", "save"},
         UNCHANGED <<mq, owner, status>>
  PROVE  LockHeld' /\ RunSucceeds'
BY DEF LockHeld, RunSucceeds

(* Which steps follow a lookup. *)
LEMMA AfterLookupStays ==
  ASSUME NEW r \in RunRecord
  PROVE  AfterLookup(r).pc \in {"save", "stage"} /\ AfterLookup(r).doc = r.doc
BY DEF AfterLookup, RunRecord

(* The initial state: no run, no queue, no listing. *)
LEMMA InitQueue == Init => Undisturbed
BY PipelineAssumption, SMTT(60) DEF Init, Undisturbed, LockHeld, RunSucceeds, Uploaded, InHand, BackfillAlone,
   Selectable, Carried, IdleRun, Ready, Recoverable

(* Only these variables occur in Undisturbed. *)
queueVars == <<status, chunks, job, events, mq, owner, run, plan, scan>>

(* Every step that is not a fault keeps the queue undisturbed. *)
LEMMA NextQueue == Typed /\ Undisturbed /\ [Next]_vars /\ faults' = 0 => Undisturbed'
<1> SUFFICES ASSUME Typed, Undisturbed, [Next]_vars, faults' = 0 PROVE Undisturbed'
  OBVIOUS
<1> USE PipelineAssumption DEF Undisturbed, LockHeld, RunSucceeds, Uploaded, InHand, BackfillAlone, Selectable, Carried,
            Typed, RowsTyped, QueueTyped, RestTyped, RunSound, SoundRun, RunRecord, Ready, Recoverable, LiveStates, Exists, rowVars, mqVars, apiVars
<1>1. ASSUME NEW d \in Docs, CreateUpload(d) PROVE Undisturbed'
  <2>1. LockHeld'
    BY <1>1 DEF CreateUpload
  <2>2. RunSucceeds'
    BY <1>1 DEF CreateUpload
  <2>3. Uploaded'
    BY <1>1 DEF CreateUpload
  <2>4. BackfillAlone'
    BY <1>1 DEF CreateUpload
  <2>5. Carried'
    BY <1>1 DEF CreateUpload
  <2> QED
    BY <2>1, <2>2, <2>3, <2>4, <2>5
<1>2. ASSUME NEW d \in Docs, CompleteUpload(d) PROVE Undisturbed'
  <2>1. LockHeld'
    BY <1>2 DEF CompleteUpload, NewEvent
  <2>2. RunSucceeds'
    BY <1>2 DEF CompleteUpload, NewEvent
  <2>3. Uploaded'
    BY <1>2 DEF CompleteUpload, NewEvent
  <2>4. BackfillAlone'
    BY <1>2 DEF CompleteUpload, NewEvent
  <2>5. Carried'
    BY <1>2 DEF CompleteUpload, NewEvent
  <2> QED
    BY <2>1, <2>2, <2>3, <2>4, <2>5
<1>3. ASSUME NEW d \in Docs, Purge(d) PROVE Undisturbed'
  <2>1. LockHeld'
    BY <1>3 DEF Purge
  <2>2. RunSucceeds'
    BY <1>3 DEF Purge
  <2>3. Uploaded'
    BY <1>3 DEF Purge
  <2>4. BackfillAlone'
    BY <1>3 DEF Purge
  <2>5. Carried'
    BY <1>3 DEF Purge
  <2> QED
    BY <2>1, <2>2, <2>3, <2>4, <2>5
<1>4. ASSUME NEW d \in Docs, BackfillEnqueue(d) PROVE Undisturbed'
  <2>1. LockHeld'
    BY <1>4 DEF BackfillEnqueue, NewEvent, BackfillVisibility
  <2>2. RunSucceeds'
    BY <1>4 DEF BackfillEnqueue, NewEvent, BackfillVisibility
  <2>3. Uploaded'
    BY <1>4 DEF BackfillEnqueue, NewEvent, BackfillVisibility
  <2>4. BackfillAlone'
    BY <1>4 DEF BackfillEnqueue, NewEvent, BackfillVisibility
  <2>5. Carried'
    BY <1>4 DEF BackfillEnqueue, NewEvent, BackfillVisibility
  <2> QED
    BY <2>1, <2>2, <2>3, <2>4, <2>5
<1>5. ASSUME NEW d \in Docs, Deliver(d) PROVE Undisturbed'
  <2>1. LockHeld'
    BY <1>5 DEF Deliver, AddJob
  <2>2. RunSucceeds'
    BY <1>5 DEF Deliver, AddJob
  <2>3. Uploaded'
    BY <1>5 DEF Deliver, AddJob
  <2>4. BackfillAlone'
    BY <1>5 DEF Deliver, AddJob
  <2>5. Carried'
    BY <1>5 DEF Deliver, AddJob
  <2> QED
    BY <2>1, <2>2, <2>3, <2>4, <2>5
<1>6. ASSUME NEW d \in Docs, Promote(d) PROVE Undisturbed'
  <2>1. LockHeld'
    BY <1>6 DEF Promote
  <2>2. RunSucceeds'
    BY <1>6 DEF Promote
  <2>3. Uploaded'
    BY <1>6 DEF Promote
  <2>4. BackfillAlone'
    BY <1>6 DEF Promote
  <2>5. Carried'
    BY <1>6 DEF Promote
  <2> QED
    BY <2>1, <2>2, <2>3, <2>4, <2>5
<1>7. ASSUME NEW d \in Docs, StallDead(d) PROVE Undisturbed'
  <2>1. LockHeld'
    BY <1>7 DEF StallDead
  <2>2. RunSucceeds'
    BY <1>7 DEF StallDead
  <2>3. Uploaded'
    BY <1>7 DEF StallDead
  <2>4. BackfillAlone'
    BY <1>7 DEF StallDead
  <2>5. Carried'
    BY <1>7 DEF StallDead
  <2> QED
    BY <2>1, <2>2, <2>3, <2>4, <2>5
<1>8. ASSUME NEW d \in Docs, ReconcileFail(d) PROVE Undisturbed'
  <2>1. LockHeld'
    BY <1>8 DEF ReconcileFail, Reconcilable
  <2>2. RunSucceeds'
    BY <1>8 DEF ReconcileFail, Reconcilable
  <2>3. Uploaded'
    <3>1. CASE status[d] \in Reconcilable
      BY <1>8, <3>1 DEF ReconcileFail, Reconcilable
    <3>2. CASE status[d] \notin Reconcilable
      BY <1>8, <3>2 DEF ReconcileFail, Reconcilable
    <3> QED
      BY <3>1, <3>2
  <2>4. BackfillAlone'
    <3>1. CASE status[d] \in Reconcilable
      BY <1>8, <3>1 DEF ReconcileFail, Reconcilable
    <3>2. CASE status[d] \notin Reconcilable
      BY <1>8, <3>2 DEF ReconcileFail, Reconcilable
    <3> QED
      BY <3>1, <3>2
  <2>5. Carried'
    <3>1. CASE status[d] \in Reconcilable
      BY <1>8, <3>1 DEF ReconcileFail, Reconcilable
    <3>2. CASE status[d] \notin Reconcilable
      BY <1>8, <3>2 DEF ReconcileFail, Reconcilable
    <3> QED
      BY <3>1, <3>2
  <2> QED
    BY <2>1, <2>2, <2>3, <2>4, <2>5
<1>9. ASSUME NEW d \in Docs, ReconcileFailJob(d) PROVE Undisturbed'
  <2>1. LockHeld'
    BY <1>9 DEF ReconcileFailJob
  <2>2. RunSucceeds'
    BY <1>9 DEF ReconcileFailJob
  <2>3. Uploaded'
    BY <1>9 DEF ReconcileFailJob
  <2>4. BackfillAlone'
    BY <1>9 DEF ReconcileFailJob
  <2>5. Carried'
    BY <1>9 DEF ReconcileFailJob
  <2> QED
    BY <2>1, <2>2, <2>3, <2>4, <2>5
<1>10. ASSUME NEW d \in Docs, ReconcileCheck(d) PROVE Undisturbed'
  <2>1. LockHeld'
    BY <1>10 DEF ReconcileCheck
  <2>2. RunSucceeds'
    BY <1>10 DEF ReconcileCheck
  <2>3. Uploaded'
    BY <1>10 DEF ReconcileCheck
  <2>4. BackfillAlone'
    BY <1>10 DEF ReconcileCheck
  <2>5. Carried'
    BY <1>10 DEF ReconcileCheck
  <2> QED
    BY <2>1, <2>2, <2>3, <2>4, <2>5
<1>11. ASSUME NEW d \in Docs, ReconcileReset(d) PROVE Undisturbed'
  <2>1. LockHeld'
    BY <1>11 DEF ReconcileReset
  <2>2. RunSucceeds'
    BY <1>11 DEF ReconcileReset
  <2>3. Uploaded'
    <3>1. CASE status[d] \in Recoverable
      BY <1>11, <3>1 DEF ReconcileReset
    <3>2. CASE status[d] \notin Recoverable
      BY <1>11, <3>2 DEF ReconcileReset
    <3> QED
      BY <3>1, <3>2
  <2>4. BackfillAlone'
    <3>1. CASE status[d] \in Recoverable
      BY <1>11, <3>1 DEF ReconcileReset
    <3>2. CASE status[d] \notin Recoverable
      BY <1>11, <3>2 DEF ReconcileReset
    <3> QED
      BY <3>1, <3>2
  <2>5. Carried'
    <3>1. CASE status[d] \in Recoverable
      BY <1>11, <3>1 DEF ReconcileReset
    <3>2. CASE status[d] \notin Recoverable
      BY <1>11, <3>2 DEF ReconcileReset
    <3> QED
      BY <3>1, <3>2
  <2> QED
    BY <2>1, <2>2, <2>3, <2>4, <2>5
<1>12. ASSUME NEW d \in Docs, ReconcileAdd(d) PROVE Undisturbed'
  <2>1. LockHeld'
    BY <1>12 DEF ReconcileAdd, AddJob
  <2>2. RunSucceeds'
    BY <1>12 DEF ReconcileAdd, AddJob
  <2>3. Uploaded'
    BY <1>12 DEF ReconcileAdd, AddJob
  <2>4. BackfillAlone'
    BY <1>12 DEF ReconcileAdd, AddJob
  <2>5. Carried'
    BY <1>12 DEF ReconcileAdd, AddJob
  <2> QED
    BY <2>1, <2>2, <2>3, <2>4, <2>5
<1>13. ASSUME NEW d \in Docs, ReconcilePendJob(d) PROVE Undisturbed'
  <2>1. LockHeld'
    BY <1>13 DEF ReconcilePendJob
  <2>2. RunSucceeds'
    BY <1>13 DEF ReconcilePendJob
  <2>3. Uploaded'
    BY <1>13 DEF ReconcilePendJob
  <2>4. BackfillAlone'
    BY <1>13 DEF ReconcilePendJob
  <2>5. Carried'
    BY <1>13 DEF ReconcilePendJob
  <2> QED
    BY <2>1, <2>2, <2>3, <2>4, <2>5
<1>14. ASSUME NEW w \in Workers, Claim(w) PROVE Undisturbed'
  <2>0. run[w] \in RunRecord
    OBVIOUS
  <2>1. LockHeld' /\ RunSucceeds'
    <3>1. CASE PassesGuard(run[w].doc, {}) /\ job[run[w].doc] # "none"
      <4> DEFINE r == [run[w] EXCEPT !.pc = "stage", !.stage = 1]
      <4>1. run' = [run EXCEPT ![w] = r]
        BY <1>14, <3>1 DEF Claim
      <4>2. r.pc = "stage" /\ r.doc = run[w].doc
        BY <2>0
      <4> HIDE DEF r
      <4> QED
        BY <1>14, <4>1, <4>2, RunGoesOn DEF Claim
    <3>2. CASE ~(PassesGuard(run[w].doc, {}) /\ job[run[w].doc] # "none")
      <4>1. run[w].doc \in Docs /\ mq[run[w].doc] = "active"
        BY <1>14 DEF Claim
      <4>2. status[run[w].doc] = "gone"
        BY <3>2, <4>1 DEF PassesGuard
      <4> DEFINE r == [run[w] EXCEPT !.pc = "done"]
      <4>3. run' = [run EXCEPT ![w] = r]
        BY <1>14, <3>2 DEF Claim
      <4>4. r.pc = "done" /\ r.doc = run[w].doc
        BY <2>0
      <4> HIDE DEF r
      <4>5. LockHeld'
        BY <1>14, <4>3, <4>4 DEF Claim
      <4>6. RunSucceeds'
        BY <1>14, <4>2, <4>3, <4>4 DEF Claim
      <4> QED
        BY <4>5, <4>6
    <3> QED
      BY <3>1, <3>2
  <2>3. Uploaded'
    BY <1>14 DEF Claim, PassesGuard
  <2>4. BackfillAlone'
    BY <1>14 DEF Claim, PassesGuard
  <2>5. Carried'
    BY <1>14 DEF Claim, PassesGuard
  <2> QED
    BY <2>1, <2>3, <2>4, <2>5
<1>15. ASSUME NEW w \in Workers, MarkStage(w) PROVE Undisturbed'
  <2>1. LockHeld'
    BY <1>15 DEF MarkStage, PassesGuard, StageBlocks, AfterStage
  <2>2. RunSucceeds'
    BY <1>15 DEF MarkStage, PassesGuard, StageBlocks, AfterStage
  <2>3. Uploaded'
    BY <1>15 DEF MarkStage, PassesGuard, StageBlocks, AfterStage
  <2>4. BackfillAlone'
    BY <1>15, SMTT(60) DEF MarkStage, PassesGuard, StageBlocks, AfterStage
  <2>5. Carried'
    BY <1>15 DEF MarkStage, PassesGuard, StageBlocks, AfterStage
  <2> QED
    BY <2>1, <2>2, <2>3, <2>4, <2>5
<1>16. ASSUME NEW w \in Workers, Lookup(w) PROVE Undisturbed'
  <2>0. run[w] \in RunRecord
    OBVIOUS
  <2>1. LockHeld' /\ RunSucceeds'
    <3>1. CASE Canonical(run[w].doc) = {}
      <4> DEFINE r == AfterLookup(run[w])
      <4>1. run' = [run EXCEPT ![w] = r]
        BY <1>16, <3>1 DEF Lookup
      <4>2. r.pc \in {"save", "stage"} /\ r.doc = run[w].doc
        BY <2>0, AfterLookupStays
      <4> HIDE DEF r
      <4> QED
        BY <1>16, <4>1, <4>2, RunGoesOn DEF Lookup
    <3>2. ASSUME NEW e \in Canonical(run[w].doc),
                 run' = [run EXCEPT ![w] = [@ EXCEPT !.pc = "load", !.canon = e, !.as = status[e]]]
          PROVE  LockHeld' /\ RunSucceeds'
      <4> DEFINE r == [run[w] EXCEPT !.pc = "load", !.canon = e, !.as = status[e]]
      <4>1. run' = [run EXCEPT ![w] = r]
        BY <3>2
      <4>2. r.pc = "load" /\ r.doc = run[w].doc
        BY <2>0
      <4> HIDE DEF r
      <4> QED
        BY <1>16, <4>1, <4>2, RunGoesOn DEF Lookup
    <3> QED
      BY <1>16, <3>1, <3>2 DEF Lookup
  <2>3. Uploaded'
    BY <1>16, ZenonT(60) DEF Lookup, AfterLookup
  <2>4. BackfillAlone'
    BY <1>16 DEF Lookup, AfterLookup
  <2>5. Carried'
    BY <1>16 DEF Lookup, AfterLookup
  <2> QED
    BY <2>1, <2>3, <2>4, <2>5
<1>17. ASSUME NEW w \in Workers, Load(w) PROVE Undisturbed'
  <2>0. run[w] \in RunRecord
    OBVIOUS
  <2>1. LockHeld' /\ RunSucceeds'
    <3>1. CASE Loadable(chunks[run[w].canon])
      <4> DEFINE r == [run[w] EXCEPT !.pc = "save", !.from = chunks[run[w].canon]]
      <4>1. run' = [run EXCEPT ![w] = r]
        BY <1>17, <3>1 DEF Load
      <4>2. r.pc = "save" /\ r.doc = run[w].doc
        BY <2>0
      <4> HIDE DEF r
      <4> QED
        BY <1>17, <4>1, <4>2, RunGoesOn DEF Load
    <3>2. CASE ~Loadable(chunks[run[w].canon])
      <4> DEFINE r == [AfterLookup(run[w]) EXCEPT !.canon = None, !.as = "none"]
      <4>1. run' = [run EXCEPT ![w] = r]
        BY <1>17, <3>2 DEF Load
      <4>2. r.pc \in {"save", "stage"} /\ r.doc = run[w].doc
        BY <2>0, AfterLookupStays DEF AfterLookup
      <4> HIDE DEF r
      <4> QED
        BY <1>17, <4>1, <4>2, RunGoesOn DEF Load
    <3> QED
      BY <3>1, <3>2
  <2>3. Uploaded'
    BY <1>17 DEF Load, Loadable, AfterLookup
  <2>4. BackfillAlone'
    BY <1>17 DEF Load, Loadable, AfterLookup
  <2>5. Carried'
    BY <1>17 DEF Load, Loadable, AfterLookup
  <2> QED
    BY <2>1, <2>3, <2>4, <2>5
<1>18. ASSUME NEW w \in Workers, Save(w) PROVE Undisturbed'
  <2>1. LockHeld'
    BY <1>18 DEF Save, PassesGuard, SavedStatuses, SavedChunks, WithNotice
  <2>2. RunSucceeds'
    BY <1>18 DEF Save, PassesGuard, SavedStatuses, SavedChunks, WithNotice
  <2>3. Uploaded'
    BY <1>18 DEF Save, PassesGuard, SavedStatuses, SavedChunks, WithNotice
  <2>4. BackfillAlone'
    BY <1>18 DEF Save, PassesGuard, SavedStatuses, SavedChunks, WithNotice
  <2>5. Carried'
    BY <1>18 DEF Save, PassesGuard, SavedStatuses, SavedChunks, WithNotice
  <2> QED
    BY <2>1, <2>2, <2>3, <2>4, <2>5
<1>19. ASSUME NEW w \in Workers, Complete(w) PROVE Undisturbed'
  <2>0. /\ owner[run[w].doc] = w /\ run[w].doc \in Docs
        /\ mq' = [mq EXCEPT ![run[w].doc] = "none"]
        /\ owner' = [owner EXCEPT ![run[w].doc] = None]
        /\ run' = [run EXCEPT ![w] = IdleRun]
    BY <1>19 DEF Complete
  <2>1. LockHeld'
    BY <1>19, <2>0 DEF Complete, IdleRun
  <2>2. RunSucceeds'
    BY <1>19, <2>0 DEF Complete, IdleRun
  <2>3. Uploaded'
    BY <1>19 DEF Complete
  <2>4. BackfillAlone'
    BY <1>19 DEF Complete
  <2>5. Carried'
    <3>1. status[run[w].doc] \in Ready \cup {"gone"}
      BY <1>19 DEF Complete
    <3> QED
      BY <1>19, <2>0, <3>1 DEF Complete
  <2> QED
    BY <2>1, <2>2, <2>3, <2>4, <2>5
<1>20. ASSUME NEW w \in Workers, NEW d \in Docs, Fetch(w, d) PROVE Undisturbed'
  <2>1. LockHeld'
    BY <1>20 DEF Fetch, IdleRun
  <2>2. RunSucceeds'
    BY <1>20 DEF Fetch, IdleRun
  <2>3. Uploaded'
    BY <1>20 DEF Fetch, IdleRun
  <2>4. BackfillAlone'
    BY <1>20 DEF Fetch, IdleRun
  <2>5. Carried'
    BY <1>20 DEF Fetch, IdleRun
  <2> QED
    BY <2>1, <2>2, <2>3, <2>4, <2>5
<1>21. CASE BackfillScan
  <2>1. LockHeld'
    BY <1>21 DEF BackfillScan
  <2>2. RunSucceeds'
    BY <1>21 DEF BackfillScan
  <2>3. Uploaded'
    BY <1>21 DEF BackfillScan
  <2>4. BackfillAlone'
    BY <1>21 DEF BackfillScan
  <2>5. Carried'
    BY <1>21 DEF BackfillScan
  <2> QED
    BY <2>1, <2>2, <2>3, <2>4, <2>5
<1>22. CASE ReconcileList
  <2>1. LockHeld'
    BY <1>22 DEF ReconcileList, Round, Stale, Classify, Reconcilable
  <2>2. RunSucceeds'
    BY <1>22 DEF ReconcileList, Round, Stale, Classify, Reconcilable
  <2>3. Uploaded'
    BY <1>22 DEF ReconcileList, Round, Stale, Classify, Reconcilable
  <2>4. BackfillAlone'
    BY <1>22 DEF ReconcileList, Round, Stale, Classify, Reconcilable
  <2>5. Carried'
    BY <1>22 DEF ReconcileList, Round, Stale, Classify, Reconcilable
  <2> QED
    BY <2>1, <2>2, <2>3, <2>4, <2>5
<1>23. CASE UNCHANGED queueVars
  BY <1>23 DEF queueVars
<1>24. ASSUME NEW d \in Docs, AskPublic(d) \/ SetPublic(d) \/ SetPrivate(d) \/ Tick(d) \/ Age(d)
      PROVE  UNCHANGED queueVars
  BY <1>24 DEF queueVars, AskPublic, SetPublic, SetPrivate, Tick, Age
<1>25. CASE UNCHANGED vars
  BY <1>25, <1>23 DEF vars, queueVars
<1>26. ASSUME NEW w \in Workers, MarkFailed(w) \/ Throw(w) PROVE FALSE
  BY <1>26 DEF MarkFailed, Throw
<1>27. ASSUME Fault PROVE FALSE
  BY <1>27 DEF Fault, RestTyped
<1>28. ASSUME NEW d \in Docs, DeliverUnconfirmed(d) \/ StallAlive(d) PROVE Fault
  BY <1>28 DEF DeliverUnconfirmed, StallAlive
<1>29. ASSUME NEW w \in Workers, RunFault(w) PROVE Fault
  BY <1>29 DEF RunFault, ClaimRaises, MarkFailedRaises, Crash, Raise
<1>30. CASE ReconcileAbort
  BY <1>30, <1>27 DEF ReconcileAbort
<1> QED
  BY <1>1, <1>2, <1>3, <1>4, <1>5, <1>6, <1>7, <1>8, <1>9, <1>10, <1>11, <1>12, <1>13, <1>14, <1>15, <1>16, <1>17, <1>18, <1>19, <1>20, <1>21, <1>22, <1>23, <1>24, <1>25, <1>26, <1>27, <1>28, <1>29, <1>30 DEF Next, ApiStep, QueueStep, RunStep, ReconcileStep

(* As long as there was no fault a queued document outside the               *)
(* reconciliation has an event to publish or a job (ADR-005): an upload's    *)
(* first delivery, a duplicate delivery, a reconciliation's new job and the  *)
(* backfill never leave it without one.                                      *)
THEOREM QueuedAlwaysHasCarrier == Spec => []QueuedHasCarrier
<1> DEFINE QueueInv == faults = 0 => Undisturbed
<1>1. Init => QueueInv
  BY InitQueue
<1>2. Typed /\ Typed' /\ QueueInv /\ [Next]_vars => QueueInv'
  <2> SUFFICES ASSUME Typed, Typed', QueueInv, [Next]_vars, faults' = 0 PROVE Undisturbed'
    OBVIOUS
  <2>1. faults = 0
    BY FaultsGrow
  <2> QED
    BY <2>1, NextQueue
<1>3. QueueInv => QueuedHasCarrier
  BY DEF Undisturbed, Carried, QueuedHasCarrier
<1> HIDE DEF QueueInv
<1> QED
  BY <1>1, <1>2, <1>3, SpecInv, PTL DEF Spec
=============================================================================
