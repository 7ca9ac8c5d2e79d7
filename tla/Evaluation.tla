------------------------------ MODULE Evaluation ------------------------------
(***************************************************************************)
(* The offline evaluation: a dataset is put into the real database under a *)
(* user of its own, each case is searched as the service would search it   *)
(* and, in full mode, answered and judged; the report is written and       *)
(* everything removed again, whatever failed on the way.                   *)
(*   packages/eval/src/cli.ts, runner.ts, metrics.ts                       *)
(***************************************************************************)
EXTENDS Grounding

CONSTANTS
    Corpus,       \* documents of the dataset in order: chunks, with a page (0: none)
    EvalCases,    \* [document, pages, shouldAnswer]
    SmallK,       \* the two cuts of the ranking (5 and 10)
    LargeK,
    MaxBreaks     \* bound: failures of a call, and kills

ASSUME EvaluationAssumption ==
    /\ SmallK \in Nat /\ LargeK \in Nat /\ SmallK <= LargeK /\ MaxBreaks \in Nat
    /\ Len(Corpus) \in Nat \ {0} /\ DOMAIN Corpus = 1..Len(Corpus)
    /\ \A d \in DOMAIN Corpus :
         /\ Len(Corpus[d]) \in Nat /\ DOMAIN Corpus[d] = 1..Len(Corpus[d])
         /\ \A i \in DOMAIN Corpus[d] : Corpus[d][i].tokens \in Nat
         \* contentHash is the document's name with the number of the chunk
         /\ \A i, j \in DOMAIN Corpus[d] : Corpus[d][i].hash = Corpus[d][j].hash => i = j
    /\ EvalCases \in Seq({EvalCases[i] : i \in DOMAIN EvalCases})
    \* loadDataset refuses any other
    /\ \A i \in DOMAIN EvalCases :
         /\ EvalCases[i].document \in DOMAIN Corpus
         /\ EvalCases[i].shouldAnswer \in BOOLEAN
         /\ IsFiniteSet(EvalCases[i].pages)
         /\ EvalCases[i].shouldAnswer => EvalCases[i].pages # {}

VARIABLES
    evalAt,    \* where the process is
    evalMode,  \* EVAL_MODE
    rows,      \* the fixture in the database: "user", "workspace", "documents"
    evalVectors, \* of each document: the chunks stored with a vector
    turn,      \* the document put in, then the case run
    evalRank,  \* candidates of this case
    evalPicks, \* its sources
    outcome,   \* its answer: [refused, claimed, valid, judged]
    found,     \* retrieval metrics so far: [case, small, large, first]
    answered,  \* answers so far
    report,    \* what is written in the end
    breaks,    \* failures so far
    stranded   \* history: a deletion failed, or the process was killed

fixtureVars == <<rows, evalVectors>>
resultVars == <<found, answered, report>>
evalVars == <<evalAt, evalMode, rows, evalVectors, turn, evalRank, evalPicks, outcome,
              found, answered, report, breaks, stranded>>

NoReport == [cases |-> 0]
NoOutcome == [refused |-> FALSE, claimed |-> 0, valid |-> 0, judged |-> FALSE]

EvaluationInit ==
    /\ evalAt = "user"
    /\ evalMode \in {"retrieval", "full"}
    /\ rows = {} /\ evalVectors = [d \in DOMAIN Corpus |-> {}]
    /\ turn = 1
    /\ evalRank = <<>> /\ evalPicks = <<>> /\ outcome = NoOutcome
    /\ found = <<>> /\ answered = <<>> /\ report = NoReport
    /\ breaks = 0 /\ stranded = FALSE

Break == breaks < MaxBreaks /\ breaks' = breaks + 1

-----------------------------------------------------------------------------
\* ingestDataset

\* The row the current step inserts.
NextRow == IF evalAt \in {"user", "workspace"} THEN evalAt ELSE "documents"

InsertOwner ==
    /\ evalAt \in {"user", "workspace"}
    /\ rows' = rows \cup {NextRow}
    /\ evalAt' = IF evalAt = "user" THEN "workspace" ELSE "document"
    /\ UNCHANGED <<evalMode, evalVectors, turn, evalRank, evalPicks, outcome, resultVars, breaks, stranded>>

InsertDocument ==
    /\ evalAt = "document"
    /\ rows' = rows \cup {NextRow}
    /\ evalAt' = "chunks"
    /\ UNCHANGED <<evalMode, evalVectors, turn, evalRank, evalPicks, outcome, resultVars, breaks, stranded>>

(* The texts are embedded and the chunks inserted. A reply that names one   *)
(* text twice leaves another without a vector, and such a chunk is stored.  *)
InsertChunks ==
    /\ evalAt = "chunks"
    /\ \E v \in SUBSET DOMAIN Corpus[turn] :
         /\ Len(Corpus[turn]) <= Cardinality(v) + 1
         /\ evalVectors' = [evalVectors EXCEPT ![turn] = v]
    /\ IF turn < Len(Corpus)
       THEN turn' = turn + 1 /\ evalAt' = "document"
       ELSE turn' = 1 /\ evalAt' = IF EvalCases = <<>> THEN "report" ELSE "search"
    /\ UNCHANGED <<evalMode, rows, evalRank, evalPicks, outcome, resultVars, breaks, stranded>>

(* An insertion throws, applied or not. Only the user is not covered by the *)
(* deletion that follows.                                                   *)
IngestFails ==
    /\ evalAt \in {"user", "workspace", "document", "chunks"}
    /\ Break
    /\ rows' \in {rows, rows \cup {NextRow}}
    /\ evalAt' = IF evalAt = "user" THEN "failed" ELSE "undo"
    /\ stranded' = (evalAt = "user" /\ rows' # {})
    /\ UNCHANGED <<evalMode, evalVectors, turn, evalRank, evalPicks, outcome, resultVars>>

(* The user goes, and all that is the user's with it; if that fails too,    *)
(* nobody hears of it.                                                      *)
Undo ==
    /\ evalAt = "undo"
    /\ \/ rows' = {} /\ UNCHANGED <<breaks, stranded>>
       \/ Break /\ rows' \in {rows, {}} /\ stranded' = TRUE
    /\ evalAt' = "failed"
    /\ UNCHANGED <<evalMode, evalVectors, turn, evalRank, evalPicks, outcome, resultVars>>

-----------------------------------------------------------------------------
\* runCase

ThisCase == EvalCases[turn]
Chunks == Corpus[ThisCase.document]

\* rankedPages: candidates without a page do not count.
RankedPages(rank) ==
    LET read[i \in 0..Len(rank)] ==
          IF i = 0 THEN <<>>
          ELSE IF Chunks[rank[i]].page = 0 THEN read[i - 1]
          ELSE Append(read[i - 1], Chunks[rank[i]].page)
    IN  read[Len(rank)]

\* recallAtK: expected pages among the first k (of all of them).
RecallAtK(pages, expected, k) == Cardinality({p \in expected : \E i \in DOMAIN pages : i <= k /\ pages[i] = p})

\* The rank reciprocalRank divides by: of the first expected page, 0 when there is none.
FirstHit(pages, expected) ==
    LET hits == {i \in DOMAIN pages : pages[i] \in expected}
    IN  IF hits = {} THEN 0 ELSE CHOOSE i \in hits : \A j \in hits : i <= j

(* The runner's own selection, without the service's other two rules.       *)
EvalPicked(rank) ==
    LET pick[i \in 0..Len(rank)] ==
          IF i = 0 THEN {}
          ELSE LET p == pick[i - 1]
               IN  IF Cardinality(p) >= MaxSources \/ ~FitsBeside(Chunks, p, rank[i])
                   THEN p ELSE p \cup {rank[i]}
    IN  pick[Len(rank)]

NextCase ==
    IF turn < Len(EvalCases) THEN turn' = turn + 1 /\ evalAt' = "search"
    ELSE evalAt' = "report" /\ UNCHANGED turn

(* retrieve, and what it is worth when the case has an answer.              *)
Search ==
    /\ evalAt = "search"
    /\ evalRank' \in Rankings(evalVectors[ThisCase.document])
    /\ LET pages == RankedPages(evalRank')
       IN  found' = IF ~ThisCase.shouldAnswer THEN found
                    ELSE Append(found, [case |-> turn,
                                        small |-> RecallAtK(pages, ThisCase.pages, SmallK),
                                        large |-> RecallAtK(pages, ThisCase.pages, LargeK),
                                        first |-> FirstHit(pages, ThisCase.pages)])
    /\ IF evalMode = "full"
       THEN /\ evalPicks' = InOrder(EvalPicked(evalRank'))
            /\ evalAt' = "answer"
            /\ UNCHANGED turn
       ELSE NextCase /\ UNCHANGED evalPicks
    /\ UNCHANGED <<evalMode, fixtureVars, outcome, answered, report, breaks, stranded>>

(* What one answer may cite, and what the check of it keeps.                *)
ClaimSets == {{}} \cup {{<<s, q>>} : s \in 1..(MaxSources + 1), q \in Quotes}
VerdictOn(refused, claims) ==
    [refused |-> refused, claimed |-> Cardinality(claims), judged |-> FALSE,
     valid |-> Cardinality({c \in claims : Accepted(Chunks, evalPicks, c[1], c[2])})]

(* The answer is streamed to its end and its citations are checked; one     *)
(* that refuses is not judged.                                              *)
AnswerCase ==
    /\ evalAt = "answer"
    /\ \E refused \in BOOLEAN, claims \in ClaimSets : outcome' = VerdictOn(refused, claims)
    /\ IF outcome'.refused
       THEN answered' = Append(answered, outcome') /\ NextCase
       ELSE evalAt' = "judge" /\ UNCHANGED <<answered, turn>>
    /\ UNCHANGED <<evalMode, fixtureVars, evalRank, evalPicks, found, report, breaks, stranded>>

Judge ==
    /\ evalAt = "judge"
    /\ answered' = Append(answered, [outcome EXCEPT !.judged = TRUE])
    /\ NextCase
    /\ UNCHANGED <<evalMode, fixtureVars, evalRank, evalPicks, outcome, found, report, breaks, stranded>>

(* aggregate, and the file it is written to. The means are kept as their    *)
(* sums and numbers.                                                        *)
WriteReport ==
    /\ evalAt = "report"
    /\ report' = [cases |-> Len(found),
                  answers |-> Len(answered),
                  rightRefusals |-> Cardinality({i \in DOMAIN answered :
                      answered[i].refused = ~EvalCases[i].shouldAnswer}),
                  claimed |-> SumOver([i \in DOMAIN answered |-> answered[i].claimed]),
                  valid |-> SumOver([i \in DOMAIN answered |-> answered[i].valid]),
                  judged |-> Cardinality({i \in DOMAIN answered : answered[i].judged})]
    /\ evalAt' = "sweep"
    /\ UNCHANGED <<evalMode, fixtureVars, turn, evalRank, evalPicks, outcome, found, answered, breaks, stranded>>

(* A search, a model call or the writing throws: no case after this one.    *)
RunFails ==
    /\ evalAt \in {"search", "answer", "judge", "report"}
    /\ Break
    /\ evalAt' = "sweep"
    /\ UNCHANGED <<evalMode, fixtureVars, turn, evalRank, evalPicks, outcome, resultVars, stranded>>

(* cleanup, in the finally: the workspace with all it has, then the user.   *)
Sweep ==
    /\ evalAt \in {"sweep", "sweepUser"}
    /\ \/ /\ rows' = IF evalAt = "sweep" THEN {"user"} ELSE {}
          /\ evalAt' = IF evalAt = "sweep" THEN "sweepUser" ELSE IF report = NoReport THEN "failed" ELSE "done"
          /\ UNCHANGED <<breaks, stranded>>
       \/ /\ Break
          /\ rows' \in {rows, IF evalAt = "sweep" THEN {"user"} ELSE {}}
          /\ evalAt' = "failed" /\ stranded' = TRUE
    /\ UNCHANGED <<evalMode, evalVectors, turn, evalRank, evalPicks, outcome, resultVars>>

Kill ==
    /\ evalAt \notin {"done", "failed"}
    /\ Break
    /\ evalAt' = "failed" /\ stranded' = TRUE
    /\ UNCHANGED <<evalMode, fixtureVars, turn, evalRank, evalPicks, outcome, resultVars>>

EvaluationNext ==
    \/ InsertOwner \/ InsertDocument \/ InsertChunks \/ IngestFails \/ Undo
    \/ Search \/ AnswerCase \/ Judge \/ WriteReport \/ RunFails
    \/ Sweep \/ Kill

EvaluationSpec == EvaluationInit /\ [][EvaluationNext]_evalVars

-----------------------------------------------------------------------------
\* Properties

(* No failure of a model, of an insertion or of a query leaves rows of the  *)
(* evaluation in the database: only a failed deletion, a kill, or a user of *)
(* whose insertion the reply was lost does.                                 *)
FixtureRemoved ==
    /\ evalAt \in {"done", "failed"} /\ ~stranded => rows = {}
    /\ rows # {} => "user" \in rows

(* What is evaluated is what is served: without a limit of similarity the   *)
(* service would pick these very sources (runner.ts:203).                   *)
SameSources ==
    evalAt = "answer" => evalPicks = InOrder(Picked(Chunks, evalRank, Len(evalRank)))

(* The three measures of a search agree with one another.                   *)
MetricsAgree ==
    \A i \in DOMAIN found :
        LET m == found[i]
        IN  /\ m.small <= m.large
            /\ m.small > 0 <=> m.first \in 1..SmallK
            /\ m.large > 0 <=> m.first \in 1..LargeK

(* A report is of all cases, and of nothing that was judged but refused.    *)
ReportCovers ==
    report # NoReport =>
        /\ report.cases = Cardinality({i \in DOMAIN EvalCases : EvalCases[i].shouldAnswer})
        /\ report.answers = (IF evalMode = "full" THEN Len(EvalCases) ELSE 0)
        /\ report.valid <= report.claimed
        /\ report.judged = report.answers - Cardinality({i \in DOMAIN answered : answered[i].refused})

EvaluationSound == FixtureRemoved /\ SameSources /\ MetricsAgree /\ ReportCovers

(* What answers stand on is chosen as promised, where they are given and      *)
(* where they are measured.                                                   *)
EvidenceSound == GroundingSound /\ EvaluationSound
=============================================================================
