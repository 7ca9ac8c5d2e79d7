------------------------------ MODULE Grounding ------------------------------
(***************************************************************************)
(* What an answer stands on: which chunks of the document become its       *)
(* sources, how much of the conversation goes with the question, and which *)
(* quotations of the answer are taken for quotations. Answering has the    *)
(* steps around it and knows a source only by its name.                    *)
(*   apps/api/src/modules/conversations/retrieval.ts, conversation.service *)
(*   packages/ai/src/citations.ts                                          *)
(***************************************************************************)
EXTENDS Folding, FiniteSets

CONSTANTS
    Passages,       \* the document's chunks in order: [hash, tokens, text]
    CandidateLimit, \* RETRIEVAL.candidateLimit (20)
    MaxSources,     \* RETRIEVAL.maxSources (8)
    ContextBudget,  \* RETRIEVAL.contextTokenBudget (6000)
    HistoryBudget,  \* RETRIEVAL.historyTokenBudget (2000)
    Histories,      \* completed messages before a question: their tokens
    Quotes,         \* what a model may quote
    Folded,         \* characters and what normalize makes of them
    Blanks          \* characters normalize drops

ASSUME GroundingAssumption ==
    /\ CandidateLimit \in Nat /\ MaxSources \in Nat \ {0}
    /\ ContextBudget \in Nat /\ HistoryBudget \in Nat
    /\ Histories \subseteq Seq(Nat \ {0})
    /\ Len(Passages) \in Nat /\ DOMAIN Passages = 1..Len(Passages)
    /\ \A i \in DOMAIN Passages : /\ Passages[i].tokens \in Nat \ {0}
                                  /\ Passages[i].text \in Seq(DOMAIN Folded \cup Blanks)
    /\ Quotes \subseteq Seq(DOMAIN Folded \cup Blanks)

VARIABLES
    groundAt, \* next: "retrieve", "history", "cite" or "done"
    ranking,  \* candidates: chunk numbers by falling similarity
    similar,  \* how many of them are similar enough (RAG_MIN_SCORE)
    sources,  \* chunk numbers in the order of S1, S2, ...
    before,   \* tokens of the messages before the question
    history,  \* tokens of those that go with it
    citation  \* the citation the answer makes: a source, a quotation, accepted or not

groundVars == <<groundAt, ranking, similar, sources, before, history, citation>>

-----------------------------------------------------------------------------
\* Choosing among the chunks of a document

(* What the vector search may return: no chunk twice, the nearest first.    *)
Rankings(of) ==
    LET n == IF Cardinality(of) < CandidateLimit THEN Cardinality(of) ELSE CandidateLimit
    IN  {r \in [1..n -> of] : \A i, j \in 1..n : r[i] = r[j] => i = j}

TokensOf(chunks, picked) ==
    SumOver([i \in DOMAIN chunks |-> IF i \in picked THEN chunks[i].tokens ELSE 0])

Repeats(chunks, picked, c) == \E p \in picked : chunks[p].hash = chunks[c].hash

FitsBeside(chunks, picked, c) == TokensOf(chunks, picked) + chunks[c].tokens <= ContextBudget

\* Mutant: the first candidate that does not fit ends the choice.
PickedStopping(chunks, rank, enough) ==
    LET pick[i \in 0..Len(rank)] ==
          IF i = 0 THEN [of |-> {}, go |-> TRUE]
          ELSE LET p == pick[i - 1].of
               IN  IF \/ ~pick[i - 1].go \/ Cardinality(p) >= MaxSources
                      \/ i > enough \/ ~FitsBeside(chunks, p, rank[i])
                   THEN [of |-> p, go |-> FALSE]
                   ELSE [of |-> IF Repeats(chunks, p, rank[i]) THEN p ELSE p \cup {rank[i]}, go |-> TRUE]
    IN  pick[Len(rank)].of

(* selectSources: one candidate after the other, as long as there is room;  *)
(* only the first so many are similar enough.                               *)
Picked(chunks, rank, enough) ==
    LET pick[i \in 0..Len(rank)] ==
          IF i = 0 THEN {}
          ELSE LET p == pick[i - 1]
               IN  IF \/ Cardinality(p) >= MaxSources
                      \/ i > enough
                      \/ Repeats(chunks, p, rank[i])
                      \/ ~FitsBeside(chunks, p, rank[i])
                   THEN p ELSE p \cup {rank[i]}
    IN  pick[Len(rank)]

(* Sources are numbered in the order of the text.                           *)
InOrder(picked) ==
    [i \in 1..Cardinality(picked) |->
        CHOOSE c \in picked : Cardinality({d \in picked : d < c}) = i - 1]

(* pickHistory: from the newest message back until the budget is used up.   *)
PickHistory(rows) ==
    LET n == Len(rows)
        taken[i \in 0..n] ==
          IF i = 0 THEN [used |-> 0, count |-> 0, more |-> TRUE]
          ELSE LET t == taken[i - 1]
                   tokens == rows[n - i + 1]
               IN  IF t.more /\ t.used + tokens <= HistoryBudget
                   THEN [used |-> t.used + tokens, count |-> i, more |-> TRUE]
                   ELSE [t EXCEPT !.more = FALSE]
    IN  SubSeq(rows, n - taken[n].count + 1, n)

-----------------------------------------------------------------------------
\* Quoting

Normalize(text) ==
    LET read[i \in 0..Len(text)] ==
          IF i = 0 THEN <<>>
          ELSE IF text[i] \in Blanks THEN read[i - 1]
          ELSE Append(read[i - 1], Folded[text[i]])
    IN  read[Len(text)]

Pairs(s) == {<<s[i], s[i + 1]>> : i \in 1..(Len(s) - 1)}

Includes(s, q) == \E i \in 0..Len(s) : i + Len(q) <= Len(s) /\ SubSeq(s, i + 1, i + Len(q)) = q

(* quoteMatchScore at the threshold of 0.8: the quotation is in the text,   *)
(* or four in five of its pairs of characters are.                          *)
QuoteMatches(quote, text) ==
    LET q == Normalize(quote)
        s == Normalize(text)
        hits == Cardinality({i \in 1..(Len(q) - 1) : <<q[i], q[i + 1]>> \in Pairs(s)})
    IN  /\ q # <<>>
        /\ Includes(s, q) \/ (Len(q) >= 2 /\ 10 * hits >= 8 * (Len(q) - 1))

(* validateAnswer on one citation: a source that was given, whose text has  *)
(* the quotation.                                                           *)
Accepted(chunks, given, s, quote) ==
    s \in DOMAIN given /\ QuoteMatches(quote, chunks[given[s]].text)

-----------------------------------------------------------------------------
NoCitation == [source |-> 0, quote |-> <<>>, accepted |-> FALSE]

GroundInit ==
    /\ groundAt = "retrieve"
    /\ ranking = <<>> /\ similar = 0 /\ sources = <<>>
    /\ before = <<>> /\ history = <<>>
    /\ citation = NoCitation

(* The document is searched; without a source the model is not asked.       *)
Retrieve ==
    /\ groundAt = "retrieve"
    /\ ranking' \in Rankings(DOMAIN Passages)
    /\ similar' \in 0..Len(ranking')
    /\ sources' = InOrder(Picked(Passages, ranking', similar'))
    /\ groundAt' = IF sources' = <<>> THEN "done" ELSE "history"
    /\ UNCHANGED <<before, history, citation>>

(* What goes with the question, of the completed messages before it.        *)
TakeHistory ==
    /\ groundAt = "history"
    /\ before' \in Histories
    /\ history' = PickHistory(before')
    /\ groundAt' = "cite"
    /\ UNCHANGED <<ranking, similar, sources, citation>>

(* The answer quotes, a source it was given or another.                     *)
Cite ==
    /\ groundAt = "cite" /\ groundAt' = "done"
    /\ \E s \in 1..(MaxSources + 1), q \in Quotes :
         citation' = [source |-> s, quote |-> q,
                      accepted |-> Accepted(Passages, sources, s, q)]
    /\ UNCHANGED <<ranking, similar, sources, before, history>>

GroundNext == Retrieve \/ TakeHistory \/ Cite

GroundSpec == GroundInit /\ [][GroundNext]_groundVars

-----------------------------------------------------------------------------
\* Properties

Chosen == {sources[i] : i \in DOMAIN sources}

(* The sources keep all limits at once: number, tokens, similarity, no text *)
(* twice, and they come in the order of the document (rag.md 17.3, 18.1).   *)
SourcesFit ==
    /\ Len(sources) <= MaxSources /\ TokensOf(Passages, Chosen) <= ContextBudget
    /\ Chosen \subseteq {ranking[i] : i \in 1..similar}
    /\ \A i, j \in DOMAIN sources : i < j => /\ sources[i] < sources[j]
                                            /\ Passages[sources[i]].hash # Passages[sources[j]].hash

(* Nothing similar enough is left out while there is room for it and its    *)
(* text is not there already; the nearest that fits at all is there.        *)
NothingLeftOut ==
    \A i \in 1..similar :
        LET c == ranking[i]
        IN  c \notin Chosen =>
              /\ Len(sources) = MaxSources \/ Repeats(Passages, Chosen, c) \/ ~FitsBeside(Passages, Chosen, c)
              /\ Passages[c].tokens <= ContextBudget => sources # <<>>

(* The history is the longest end of the conversation the budget holds.     *)
HistoryIsLongestEnd ==
    LET End(k) == SubSeq(before, k, Len(before))
    IN  \E k \in 1..(Len(before) + 1) :
          /\ history = End(k) /\ SumOver(history) <= HistoryBudget
          /\ k > 1 => SumOver(End(k - 1)) > HistoryBudget

(* Whatever is copied from a source is accepted, and a short quotation that *)
(* is accepted is made of pairs of the source: one that misses any pair has *)
(* six characters at least.                                                 *)
QuotesAreChecked ==
    /\ citation # NoCitation /\ citation.source \in DOMAIN sources =>
         LET text == Passages[sources[citation.source]].text
             q == Normalize(citation.quote)
         IN  /\ Includes(text, citation.quote) /\ q # <<>> => citation.accepted
             /\ citation.accepted /\ Len(q) < 6 => Pairs(q) \subseteq Pairs(Normalize(text))
    /\ citation.accepted => citation.source \in DOMAIN sources

(* What the model is given keeps its limits and leaves out nothing it could *)
(* have, and what it quotes is held to it.                                  *)
GroundingSound == SourcesFit /\ NothingLeftOut /\ HistoryIsLongestEnd /\ QuotesAreChecked
=============================================================================
