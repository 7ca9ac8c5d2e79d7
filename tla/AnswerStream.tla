----------------------------- MODULE AnswerStream -----------------------------
(***************************************************************************)
(* The parser of the two-part answer a model streams: text, a marker, then *)
(* citations. The text is passed on delta by delta while the marker, which *)
(* may be cut anywhere between deltas, must not be. The part after the     *)
(* marker is kept until the stream ends and is parsed then.                *)
(***************************************************************************)
EXTENDS Naturals, Sequences

CONSTANTS
    Chars,      \* characters of the stream
    Blank,      \* the one that trim() removes
    Marker,     \* ANSWER_CITATIONS_MARKER
    MaxText     \* bound: characters a model sends in one stream

ASSUME AnswerStreamAssumption ==
    /\ Blank \in Chars
    /\ Marker \in Seq(Chars) /\ Len(Marker) > 0
    /\ MaxText \in Nat

VARIABLES
    sent,       \* history: all the model has sent
    body,       \* text passed on so far
    pending,    \* text held back: it may be the beginning of the marker
    marked,     \* the marker was found (tail is not null)
    tail        \* what came after the marker

streamVars == <<sent, body, pending, marked, tail>>

StreamTypeOK ==
    /\ sent \in Seq(Chars)
    /\ body \in Seq(Chars)
    /\ pending \in Seq(Chars)
    /\ marked \in BOOLEAN
    /\ tail \in Seq(Chars)

StreamInit ==
    /\ sent = <<>>
    /\ body = <<>>
    /\ pending = <<>>
    /\ marked = FALSE
    /\ tail = <<>>

MarkerAt(t, i) == SubSeq(t, i, i + Len(Marker) - 1) = Marker

Positions(t) == {i \in 1..(Len(t) - Len(Marker) + 1) : MarkerAt(t, i)}

(* indexOf: the first occurrence.                                           *)
FirstMarker(t) == CHOOSE i \in Positions(t) : \A j \in Positions(t) : i <= j

\* Mutant: an overlap of all but one character of the marker is not held back.
MarkerPrefixLengthShort(t) ==
    LET K == {k \in 0..Len(t) : k <= Len(Marker) - 2
                /\ SubSeq(t, Len(t) - k + 1, Len(t)) = SubSeq(Marker, 1, k)}
    IN  CHOOSE k \in K : \A j \in K : j <= k

(* The longest end of t that is a beginning, but not all, of the marker.    *)
MarkerPrefixLength(t) ==
    LET K == {k \in 0..Len(t) : k <= Len(Marker) - 1
                /\ SubSeq(t, Len(t) - k + 1, Len(t)) = SubSeq(Marker, 1, k)}
    IN  CHOOSE k \in K : \A j \in K : j <= k

(* One delta of the model.                                                  *)
Delta(chunk) ==
    /\ sent' = sent \o chunk
    /\ LET text == pending \o chunk
           i == FirstMarker(text)
           safe == Len(text) - MarkerPrefixLength(text)
       IN  \/ /\ marked
              /\ tail' = tail \o chunk
              /\ UNCHANGED <<body, pending, marked>>
           \/ /\ ~marked /\ Positions(text) # {}
              /\ body' = body \o SubSeq(text, 1, i - 1)
              /\ tail' = SubSeq(text, i + Len(Marker), Len(text))
              /\ pending' = <<>>
              /\ marked' = TRUE
           \/ /\ ~marked /\ Positions(text) = {}
              /\ body' = body \o SubSeq(text, 1, safe)
              /\ pending' = SubSeq(text, safe + 1, Len(text))
              /\ UNCHANGED <<marked, tail>>

(* The stream ends: without a marker what was held back is text, and the    *)
(* answer is then rejected.                                                 *)
Flush ==
    /\ body' = body \o pending
    /\ pending' = <<>>
    /\ UNCHANGED <<sent, marked, tail>>

NonBlank(t) == {i \in 1..Len(t) : t[i] # Blank}

(* trim() *)
Trim(t) ==
    IF NonBlank(t) = {} THEN <<>>
    ELSE SubSeq(t, CHOOSE i \in NonBlank(t) : \A j \in NonBlank(t) : i <= j,
                   CHOOSE i \in NonBlank(t) : \A j \in NonBlank(t) : j <= i)

-----------------------------------------------------------------------------
\* Properties

(* However the stream is cut, the reader is given the text before the first *)
(* marker and nothing of the marker or of what follows.                     *)
ShownIsAnswer ==
    IF Positions(sent) = {}
    THEN ~marked /\ body \o pending = sent
    ELSE /\ marked
         /\ body = SubSeq(sent, 1, FirstMarker(sent) - 1)
         /\ tail = SubSeq(sent, FirstMarker(sent) + Len(Marker), Len(sent))

(* Only what may still become a marker is held back, all else is passed on  *)
(* at once ("其余字符立即吐出,保证流式延迟不受影响").                            *)
HeldIsMarkerStart ==
    /\ Len(pending) < Len(Marker)
    /\ pending = SubSeq(Marker, 1, Len(pending))
=============================================================================
