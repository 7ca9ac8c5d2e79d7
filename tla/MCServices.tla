------------------------------ MODULE MCServices ------------------------------
(* What the API and the worker do with a document and a question, one by one: *)
(* an upload on its way into the workspace, the stages that make its chunks,  *)
(* the choice of what an answer stands on, the answer to a question, and the  *)
(* evaluation of answers. They share nothing, so that each behaviour is of    *)
(* one of them, chosen at the start.                                          *)
EXTENDS Answering, Admission, Ingest, Evaluation

VARIABLE part

(* Answering: the marker begins and ends alike, as the real one does.         *)
MCMarker == <<"=", "=", "C", "=">>

(* Admission: a tab with a larger file and an app with a smaller one.         *)
MCContentOf == [c \in Clients |-> IF c = "tab" THEN "large" ELSE "small"]
MCSizeOf == [f \in {"large", "small"} |-> IF f = "large" THEN 2 ELSE 1]

(* Ingest: limits of a few tokens of two characters. Long documents repeat    *)
(* lines over three pages, for the cleaning; short ones have a page or two of *)
(* lines of very different sizes, for the chunking.                           *)
MCLines == {"title", "sub", "tiny", "clause", "half", "long", "wide", "p1"}
MCSize == [l \in MCLines |->
    CASE l = "title" -> 2 [] l = "sub" -> 2 [] l = "tiny" -> 1 [] l = "clause" -> 5
      [] l = "half" -> 5 [] l = "long" -> 23 [] l = "wide" -> 9 [] l = "p1" -> 1]
MCWords == [l \in MCLines |-> IF l \in {"title", "sub"} THEN 1 ELSE 9]
MCDepth == [l \in MCLines |-> IF l = "sub" THEN 2 ELSE 1]

Of(ls, n) == UNION {[1..k -> ls] : k \in 1..n}
Repeating == [1..3 -> Of({"half", "tiny"}, 2) \cup {<<"half", "p1">>, <<"p1">>}]
\* A page of paragraphs of a line each.
Apart(ls) == [i \in 1..(2 * Len(ls) - 1) |-> IF i % 2 = 1 THEN ls[(i + 1) \div 2] ELSE ""]
Sections == {<<Apart(ls)>> : ls \in [1..4 -> {"title", "sub", "tiny", "half"}]}
Varied == {<<p>> : p \in Of({"", "tiny", "clause", "half", "long", "wide"}, 4)}
TwoPages == {<<p, q>> : p \in Of({"", "tiny", "half", "long"}, 2), q \in Of({"title", "tiny", "wide"}, 2)}
FourPages == {<<<<"half">>, <<"half">>, <<"tiny">>, <<"tiny">>>>}
MCDocuments == Repeating \cup Sections \cup Varied \cup TwoPages \cup FourPages

(* Grounding: a text that is in the document twice, one that never fits, and  *)
(* quotations that are exact, blank, or miss one pair of characters or two.   *)
MCText == <<"A", "b", " ", "c", "a">>
MCOther == <<"b", "c", "b", "a">>
MCPassages == <<[hash |-> "h1", tokens |-> 1, text |-> MCText],
                [hash |-> "h2", tokens |-> 2, text |-> MCOther],
                [hash |-> "h1", tokens |-> 1, text |-> MCText],
                [hash |-> "h3", tokens |-> 5, text |-> <<"c">>]>>
MCFolded == [c \in {"a", "b", "c", "A"} |-> IF c = "A" THEN "a" ELSE c]
MCQuotes == {<<"a", "b", "c">>, <<"A", "b", " ">>, <<" ">>, <<"c">>, <<"c", "b", "a">>, <<"a", "a">>,
             <<"a", "b", "c", "a", "b", "b">>, <<"a", "b", "c", "b", "b">>}
MCHistories == {<<>>, <<3>>, <<1, 3>>, <<3, 1>>, <<1, 1, 1>>, <<2, 1, 1>>, <<1, 2, 1>>}

(* Evaluation: a document with a chunk of no page, of which three chunks fit  *)
(* but for their number and one leaves room for no other; another of one.     *)
MCCorpus == <<<<[hash |-> "h1", tokens |-> 1, page |-> 1, text |-> MCText],
                [hash |-> "h2", tokens |-> 2, page |-> 0, text |-> MCOther],
                [hash |-> "h3", tokens |-> 1, page |-> 2, text |-> <<"c">>],
                [hash |-> "h4", tokens |-> 4, page |-> 3, text |-> <<"b">>]>>,
              <<[hash |-> "h5", tokens |-> 1, page |-> 1, text |-> MCOther]>>>>
MCEvalCases == <<[document |-> 1, pages |-> {2}, shouldAnswer |-> TRUE],
                 [document |-> 2, pages |-> {}, shouldAnswer |-> FALSE]>>

vars == <<part, answeringVars, admissionVars, ingestVars, groundVars, evalVars>>

Init ==
    /\ part \in {"answer", "upload", "ingest", "ground", "evaluate"}
    /\ AnsweringInit /\ AdmissionInit /\ IngestInit /\ GroundInit /\ EvaluationInit
    /\ part # "evaluate" => evalMode = "full"

Only(p) == part = p /\ part' = p

Next ==
    \/ Only("answer") /\ AnsweringNext /\ UNCHANGED <<admissionVars, ingestVars, groundVars, evalVars>>
    \/ Only("upload") /\ AdmissionNext /\ UNCHANGED <<answeringVars, ingestVars, groundVars, evalVars>>
    \/ Only("ingest") /\ IngestNext /\ UNCHANGED <<answeringVars, admissionVars, groundVars, evalVars>>
    \/ Only("ground") /\ GroundNext /\ UNCHANGED <<answeringVars, admissionVars, ingestVars, evalVars>>
    \/ Only("evaluate") /\ EvaluationNext
       /\ UNCHANGED <<answeringVars, admissionVars, ingestVars, groundVars>>

(* A part that is not run has no fair action to take from its first state.   *)
Spec == Init /\ [][Next]_vars /\ AnsweringFairness /\ AdmissionFairness

(* A question is answered or refused and traced, an upload ends, and a list  *)
(* that shows a document in flight comes to show its outcome.                *)
RequestsEnd == EventuallyTold /\ EventuallyTraced /\ UploadsSettle /\ ListSettles
=============================================================================
