------------------------------- MODULE Chunking -------------------------------
(***************************************************************************)
(* chunkDocument: blocks become chunks of bounded size within a section,   *)
(* small ones merged, each begun with the end of the one before. A text is *)
(* a sequence of fragments joined by white space; a fragment is a number   *)
(* of characters of one line, from a given one on.                         *)
(***************************************************************************)
EXTENDS Cleaning

CONSTANTS
    CJK,           \* lines in a script of one token per character
    Depth,         \* numbering depth of a heading that begins with the line
    CharsPerToken, \* characters per token of other scripts (4)
    TargetTokens,  \* 700
    MaxTokens,     \* 1000
    OverlapTokens, \* 120
    MinTokens,     \* 100
    MaxChunks      \* MAX_CHUNKS_PER_DOCUMENT

ASSUME ChunkingAssumption ==
    /\ CJK \subseteq Lines /\ Depth \in [Lines -> Nat \ {0}]
    /\ CharsPerToken \in Nat \ {0} /\ MaxChunks \in Nat
    /\ MinTokens \in Nat /\ OverlapTokens \in Nat \ {0} /\ TargetTokens \in Nat
    /\ MaxTokens \in Nat \ {0} /\ TargetTokens <= MaxTokens

Fragment(l, from, chars) == [line |-> l, from |-> from, chars |-> chars]

(* The text of a block: its lines.                                          *)
Whole(text) == [i \in DOMAIN text |-> Fragment(text[i], 0, Size[text[i]])]

Wide(f) == f.line \in CJK

\* Characters of a text that are of certain lines.
CharsIn(text, lines) == SumOver([i \in DOMAIN text |-> IF text[i].line \in lines THEN text[i].chars ELSE 0])

Larger(a, b) == IF a >= b THEN a ELSE b
Smaller(a, b) == IF a <= b THEN a ELSE b
Ceiling(a, b) == (a + b - 1) \div b

(* estimateTokens: the white space between two narrow fragments counts as a *)
(* character.                                                               *)
EstimateTokens(text) ==
    LET narrow == Cardinality({i \in DOMAIN text : ~Wide(text[i])})
        joins == IF narrow = 0 THEN 0 ELSE narrow - 1
    IN  CharsIn(text, CJK) + Ceiling(CharsIn(text, Lines \ CJK) + joins, CharsPerToken)
EstimatesOf(texts) == SumOver([i \in DOMAIN texts |-> EstimateTokens(texts[i])])

\* The last character of its line, and that ends a sentence.
EndsSentence(f) == f.line \in SentenceEnds /\ f.from + f.chars = Size[f.line]

(* splitSentences: a text is cut behind what ends a sentence.               *)
Sentences(text) ==
    LET n == Len(text)
        read[i \in 0..n] ==
            IF i = 0 THEN [done |-> <<>>, buf |-> <<>>]
            ELSE LET buf == Append(read[i - 1].buf, text[i])
                 IN  IF EndsSentence(text[i])
                     THEN [done |-> Append(read[i - 1].done, buf), buf |-> <<>>]
                     ELSE [done |-> read[i - 1].done, buf |-> buf]
    IN  Closed(read[n])

Cuts(chars, size) == Ceiling(chars, size)

\* Where a fragment begins in the text, with one white space behind each other.
Offset(text, i) == SumOver([j \in 1..(i - 1) |-> text[j].chars]) + i - 1

(* hardSplit: a sentence over the limit is cut every so many characters, of *)
(* whatever script they are.                                                *)
HardSplit(text) ==
    LET size == MaxTokens * CharsPerToken
        Slice(i, k) ==
            LET at == Offset(text, i)
                lo == Larger(at, size * (k - 1))
            IN  Fragment(text[i].line, text[i].from + lo - at, Smaller(at + text[i].chars, size * k) - lo)
        Piece(k) == Selected([i \in DOMAIN text |-> Slice(i, k)], {i \in DOMAIN text : Slice(i, k).chars > 0})
    IN  IF EstimateTokens(text) <= MaxTokens THEN <<text>>
        ELSE [k \in 1..Cuts(Offset(text, Len(text) + 1) - 1, size) |-> Piece(k)]

Pieces(sentences) == Flatten([i \in DOMAIN sentences |-> HardSplit(sentences[i])])

(* Pieces are joined as long as there is room.                              *)
Packed(pieces) ==
    LET Full(buf, piece) ==
            buf # <<>> /\ EstimateTokens(buf) + EstimateTokens(piece) > MaxTokens
        pack[i \in 0..Len(pieces)] ==
            IF i = 0 THEN [done |-> <<>>, buf |-> <<>>]
            ELSE IF Full(pack[i - 1].buf, pieces[i])
            THEN [done |-> Closed(pack[i - 1]), buf |-> pieces[i]]
            ELSE [pack[i - 1] EXCEPT !.buf = @ \o pieces[i]]
    IN  Closed(pack[Len(pieces)])

(* splitBlock: the texts of a block's units, whole or packed from pieces.   *)
SplitBlock(text) ==
    IF EstimateTokens(text) <= MaxTokens THEN <<text>> ELSE Packed(Pieces(Sentences(text)))

\* Mutant: a heading of the same depth is kept on the stack.
UpdateSectionStackNested(stack, heading) ==
    Append(Selected(stack, {i \in DOMAIN stack : Depth[stack[i][1]] <= Depth[heading[1]]}), heading)

(* updateSectionStack: depths on the stack increase, so what is popped is   *)
(* what is as deep as the new heading or deeper.                            *)
UpdateSectionStack(stack, heading) ==
    Append(Selected(stack, {i \in DOMAIN stack : Depth[stack[i][1]] < Depth[heading[1]]}), heading)

Units(texts, page) ==
    [i \in DOMAIN texts |-> [heading |-> <<>>, text |-> texts[i], page |-> page]]

(* The units and headings of a document in order.                           *)
Items(blocks) ==
    Flatten([i \in DOMAIN blocks |->
        IF blocks[i].heading
        THEN <<[heading |-> blocks[i].text, text |-> <<>>, page |-> blocks[i].page]>>
        ELSE Units(SplitBlock(Whole(blocks[i].text)), blocks[i].page)])

Empty == [chunks |-> <<>>, stack |-> <<>>, buf |-> <<>>, tokens |-> 0, first |-> 0, last |-> 0]

(* flush(): pages only grow along a document.                               *)
FlushUnits(acc) ==
    IF acc.buf = <<>> THEN acc
    ELSE [Empty EXCEPT !.stack = acc.stack,
                       !.chunks = Append(acc.chunks, [body |-> acc.buf, path |-> acc.stack,
                                                      pageStart |-> acc.first, pageEnd |-> acc.last])]

Push(acc, item) ==
    [acc EXCEPT !.buf = @ \o item.text, !.tokens = @ + EstimateTokens(item.text),
                !.first = IF acc.buf = <<>> THEN item.page ELSE @, !.last = item.page]

(* The text before a heading is stored under the section it belongs to.     *)
AtHeading(acc, heading) ==
    [FlushUnits(acc) EXCEPT !.stack = UpdateSectionStack(@, heading)]

AtUnit(acc, item) ==
    LET room == IF acc.tokens > 0 /\ acc.tokens + EstimateTokens(item.text) > MaxTokens
                THEN FlushUnits(acc) ELSE acc
        next == Push(room, item)
    IN  IF next.tokens >= TargetTokens THEN FlushUnits(next) ELSE next

BuildRawChunks(items) ==
    LET upTo[i \in 0..Len(items)] ==
            IF i = 0 THEN Empty
            ELSE IF items[i].heading # <<>> THEN AtHeading(upTo[i - 1], items[i].heading)
            ELSE AtUnit(upTo[i - 1], items[i])
    IN  FlushUnits(upTo[Len(items)]).chunks

Merges(prev, c) ==
    /\ EstimateTokens(c.body) < MinTokens
    /\ prev.path = c.path
    /\ EstimateTokens(prev.body) + EstimateTokens(c.body) <= MaxTokens

Merged(prev, c) ==
    [body |-> prev.body \o c.body, path |-> prev.path, pageStart |-> prev.pageStart, pageEnd |-> c.pageEnd]

(* mergeSmall *)
MergeSmall(raw) ==
    LET upTo[i \in 0..Len(raw)] ==
          IF i = 0 THEN <<>>
          ELSE LET out == upTo[i - 1]
                   n == Len(out)
               IN  IF n > 0 /\ Merges(out[n], raw[i])
                   THEN [out EXCEPT ![n] = Merged(out[n], raw[i])]
                   ELSE Append(out, raw[i])
    IN  upTo[Len(raw)]

(* takeTail: whole sentences from the end until there is enough.            *)
TakeTail(text) ==
    LET ss == Sentences(text)
        End(i) == SubSeq(ss, i, Len(ss))
        Enough == {i \in DOMAIN ss : EstimatesOf(End(i)) >= OverlapTokens}
    IN  IF Enough = {} THEN text
        ELSE Flatten(End(CHOOSE i \in Enough : \A j \in Enough : j <= i))

Overlap(raw, i) ==
    IF i > 1 /\ raw[i - 1].path = raw[i].path THEN TakeTail(raw[i - 1].body) ELSE <<>>

(* finalize: the overlap with the chunk before, within a section.           *)
Finalize(raw) ==
    [i \in DOMAIN raw |->
        [body |-> raw[i].body, overlap |-> Overlap(raw, i), path |-> raw[i].path,
         pageStart |-> raw[i].pageStart, pageEnd |-> raw[i].pageEnd,
         tokenCount |-> EstimateTokens(Overlap(raw, i) \o raw[i].body)]]

ChunkDocument(blocks) == Finalize(MergeSmall(BuildRawChunks(Items(blocks))))
=============================================================================
