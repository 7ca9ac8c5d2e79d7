------------------------------- MODULE Cleaning -------------------------------
(***************************************************************************)
(* cleanDocument: pages of lines become blocks, without page numbers and   *)
(* the lines that run through the document. A line is a name; what the     *)
(* regular expressions see in it are the sets and functions of Lines.      *)
(* Joining a word hyphenated at the end of a line is left out: it takes    *)
(* two characters away and nothing else.                                   *)
(***************************************************************************)
EXTENDS Folding, FiniteSets

CONSTANTS
    Lines,        \* lines of text, normalised and trimmed
    BlankLine,        \* the empty line, which ends a paragraph
    Size,         \* characters of a line
    PageNumbers,  \* lines that look like a page number
    SentenceEnds, \* lines that end a sentence
    Listed,       \* lines that begin a list item
    Numbered,     \* lines that begin with a section number or a chapter
    Words,        \* words of a line
    HeadingChars, \* characters of a heading, at most (80)
    HeadingWords, \* words of a heading without a number, at most (8)
    RunningPages  \* pages a running line is found on, at least (3)

ASSUME CleaningAssumption ==
    /\ BlankLine \notin Lines
    /\ Size \in [Lines -> Nat \ {0}] /\ Words \in [Lines -> Nat]
    /\ PageNumbers \cup SentenceEnds \cup Listed \cup Numbered \subseteq Lines
    /\ HeadingChars \in Nat /\ HeadingWords \in Nat /\ RunningPages \in Nat

Page == Seq(Lines \cup {BlankLine})

NonEmpty(page) == Selected(page, {i \in DOMAIN page : page[i] # BlankLine})

(* The first and the last line of a page.                                   *)
Edges(page) ==
    LET ls == NonEmpty(page) IN IF ls = <<>> THEN {} ELSE {ls[1], ls[Len(ls)]}

EdgeCount(pages, l) == Cardinality({i \in DOMAIN pages : l \in Edges(pages[i])})

(* detectRunningLines: headers and footers, on half of three or more pages. *)
Running(pages) ==
    {l \in Lines : /\ Len(pages) >= 3
                   /\ EdgeCount(pages, l) >= RunningPages
                   /\ EdgeCount(pages, l) * 2 >= Len(pages)}

Kept(page, running) ==
    Selected(page, {i \in DOMAIN page : page[i] \notin running /\ page[i] \notin PageNumbers})

(* A text read so far: the parts that are closed and the one under way.      *)
Closed(read) == read.done \o (IF read.buf = <<>> THEN <<>> ELSE <<read.buf>>)

(* assembleParagraphs: what is between blank lines.                         *)
Paragraphs(page) ==
    LET n == Len(page)
        read[i \in 0..n] ==
            IF i = 0 THEN [done |-> <<>>, buf |-> <<>>]
            ELSE IF page[i] # BlankLine THEN [read[i - 1] EXCEPT !.buf = Append(@, page[i])]
            ELSE [done |-> Closed(read[i - 1]), buf |-> <<>>]
    IN  Closed(read[n])

Total(f, text) == SumOver([i \in DOMAIN text |-> f[text[i]]])

(* classifyBlock, where a list item and a paragraph are chunked alike.      *)
IsHeading(text) ==
    /\ text[1] \notin Listed
    /\ text[Len(text)] \notin SentenceEnds
    /\ Total(Size, text) + Len(text) - 1 <= HeadingChars
    /\ text[1] \in Numbered \/ Total(Words, text) <= HeadingWords

(* Blocks of one page after those before it; a text that comes twice in a   *)
(* row is kept once.                                                        *)
PageBlocks(blocks, texts, page) ==
    LET n == Len(texts)
        add[i \in 0..n] ==
            IF i = 0 THEN blocks
            ELSE IF add[i - 1] # <<>> /\ add[i - 1][Len(add[i - 1])].text = texts[i] THEN add[i - 1]
            ELSE Append(add[i - 1], [heading |-> IsHeading(texts[i]), text |-> texts[i], page |-> page])
    IN  add[n]

(* cleanDocument; no block at all is EMPTY_DOCUMENT.                        *)
CleanDocument(pages) ==
    LET running == Running(pages)
        upTo[i \in 0..Len(pages)] ==
            IF i = 0 THEN <<>>
            ELSE PageBlocks(upTo[i - 1], Paragraphs(Kept(pages[i], running)), i)
    IN  upTo[Len(pages)]
=============================================================================
