-------------------------------- MODULE Ingest --------------------------------
(***************************************************************************)
(* The stages of one run over one document's text: parse, clean, chunk,    *)
(* embed in batches, summarise by sections. What DocumentPipeline does     *)
(* around them (claims, saves, retries) is left out here. A vector is the  *)
(* number of the chunk it was computed from.                               *)
(***************************************************************************)
EXTENDS Chunking

CONSTANTS
    Documents,      \* documents: sequences of pages of lines
    MaxPages,       \* MAX_PAGES
    EmbedBatchSize, \* EMBED_BATCH_SIZE (64)
    SmallDocTokens, \* a document up to here is summarised in one call
    SectionTokens,  \* budget of a group of chunks
    NoError

ASSUME IngestAssumption ==
    /\ Documents \subseteq Seq(Page)
    /\ MaxPages \in Nat /\ EmbedBatchSize \in Nat \ {0}
    /\ SmallDocTokens \in Nat /\ SectionTokens \in Nat
    /\ NoError # [code |-> "SUMMARY_FAILED", retryable |-> FALSE]

VARIABLES
    stage,   \* where the run is
    pages,   \* ParsedDocument
    blocks,  \* CleanedDocument
    chunks,  \* chunks of the document
    vectors, \* vectors so far
    asked,   \* groups of chunks the model has summarised
    error    \* the code the run ends with, and whether it may be retried

ingestVars == <<stage, pages, blocks, chunks, vectors, asked, error>>

RunStages == {"parse", "clean", "chunk", "embed", "summarize", "save", "failed"}

IngestInit ==
    /\ stage = "parse"
    /\ pages = <<>> /\ blocks = <<>> /\ chunks = <<>>
    /\ vectors = <<>> /\ asked = <<>>
    /\ error = NoError

EndRun(code, retryable) ==
    /\ stage' = "failed"
    /\ error' = [code |-> code, retryable |-> retryable]

(* parseDocument, PdfParser.parse *)
Parse ==
    /\ stage = "parse"
    /\ \/ \E d \in Documents :
            /\ pages' = d
            /\ IF Len(d) > MaxPages
               THEN EndRun("PAGE_LIMIT_EXCEEDED", FALSE)
               ELSE stage' = "clean" /\ UNCHANGED error
       \/ /\ \E code \in {"UNSUPPORTED_FILE", "FILE_SIZE_LIMIT_EXCEEDED", "ENCRYPTED_PDF", "INVALID_PDF"} :
               EndRun(code, FALSE)
          /\ UNCHANGED pages
    /\ UNCHANGED <<blocks, chunks, vectors, asked>>

Clean ==
    /\ stage = "clean"
    /\ blocks' = CleanDocument(pages)
    /\ IF blocks' = <<>> THEN EndRun("EMPTY_DOCUMENT", FALSE) ELSE stage' = "chunk" /\ UNCHANGED error
    /\ UNCHANGED <<pages, chunks, vectors, asked>>

Chunk ==
    /\ stage = "chunk"
    /\ chunks' = ChunkDocument(blocks)
    /\ IF Len(chunks') > MaxChunks
       THEN EndRun("CHUNK_LIMIT_EXCEEDED", FALSE)
       ELSE stage' = "embed" /\ UNCHANGED error
    /\ UNCHANGED <<pages, blocks, vectors, asked>>

(* The chunks of the batch that begins behind the vectors there are.        *)
Batch == (Len(vectors) + 1)..Smaller(Len(vectors) + EmbedBatchSize, Len(chunks))

\* Mutant: the vectors are taken in the order the service returns them.
PlacedAsReturned(data, n) == [k \in 1..n |-> data[k].chunk]

(* embeddings[item.index] = item.embedding; 0 where no item went.           *)
Placed(data, n) ==
    [k \in 1..n |->
        LET from == {j \in 1..n : data[j].index = k}
        IN  IF from = {} THEN 0 ELSE data[CHOOSE j \in from : \A i \in from : i <= j].chunk]

(* One batch: the service returns the vectors in any order, each with its   *)
(* index. A vector that is missing throws where its length is read.         *)
EmbedBatch ==
    /\ stage = "embed" /\ Batch # {}
    /\ LET n == Cardinality(Batch)
       IN  \E order \in [1..n -> 1..n] :
             LET data == [j \in 1..n |-> [index |-> order[j], chunk |-> Len(vectors) + order[j]]]
                 placed == Placed(data, n)
             IN  IF \E k \in 1..n : placed[k] = 0
                 THEN EndRun("INTERNAL", TRUE) /\ UNCHANGED vectors
                 ELSE vectors' = vectors \o placed /\ UNCHANGED <<stage, error>>
    /\ UNCHANGED <<pages, blocks, chunks, asked>>

(* The gateway's errors: transient ones are retried. A vector of another    *)
(* length than the column's is an error of the configuration.               *)
EmbedFails ==
    /\ stage = "embed" /\ Batch # {}
    /\ \/ \E retryable \in BOOLEAN : EndRun("EMBEDDING_FAILED", retryable)
       \/ EndRun("INVALID_CONFIGURATION", FALSE)
    /\ UNCHANGED <<pages, blocks, chunks, vectors, asked>>

Embedded ==
    /\ stage = "embed" /\ Batch = {}
    /\ stage' = "summarize"
    /\ UNCHANGED <<pages, blocks, chunks, vectors, asked, error>>

Tokens(cs) == SumOver([i \in DOMAIN cs |-> chunks[cs[i]].tokenCount])

(* The first heading above a chunk; none is the body of the text.           *)
Section(i) == IF chunks[i].path = <<>> THEN <<>> ELSE chunks[i].path[1]

Fits(group, i) ==
    /\ Section(group[Len(group)]) = Section(i)
    /\ Tokens(group) + chunks[i].tokenCount <= SectionTokens

(* groupBySections: groups of chunk numbers.                                *)
Groups ==
    LET upTo[i \in 0..Len(chunks)] ==
          IF i = 0 THEN <<>>
          ELSE LET gs == upTo[i - 1]
                   n == Len(gs)
               IN  IF n > 0 /\ Fits(gs[n], i)
                   THEN [gs EXCEPT ![n] = Append(@, i)]
                   ELSE Append(gs, <<i>>)
    IN  upTo[Len(chunks)]

All == [i \in DOMAIN chunks |-> i]
Small == Tokens(All) <= SmallDocTokens

(* The calls of summarizeDocument, one at a time; the last one is of the    *)
(* whole document or of the summaries so far. One that fails ends the       *)
(* summary, not the run: the document is then partially ready.              *)
SummarizeGroup ==
    /\ stage = "summarize" /\ ~Small /\ Len(asked) < Len(Groups)
    /\ \/ asked' = Append(asked, Groups[Len(asked) + 1]) /\ UNCHANGED <<stage, error>>
       \/ stage' = "save" /\ error' = [code |-> "SUMMARY_FAILED", retryable |-> FALSE] /\ UNCHANGED asked
    /\ UNCHANGED <<pages, blocks, chunks, vectors>>

SummarizeDocument ==
    /\ stage = "summarize" /\ (Small \/ Len(asked) = Len(Groups))
    /\ stage' = "save"
    /\ \/ asked' = (IF Small THEN <<All>> ELSE asked) /\ UNCHANGED error
       \/ error' = [code |-> "SUMMARY_FAILED", retryable |-> FALSE] /\ UNCHANGED asked
    /\ UNCHANGED <<pages, blocks, chunks, vectors>>

IngestNext ==
    \/ Parse \/ Clean \/ Chunk
    \/ EmbedBatch \/ EmbedFails \/ Embedded
    \/ SummarizeGroup \/ SummarizeDocument

IngestSpec == IngestInit /\ [][IngestNext]_ingestVars

-----------------------------------------------------------------------------
\* What the properties compare with

\* The chunks are there, and stay as they are from here on.
Chunked == stage = "embed" /\ vectors = <<>>

(* Every character of a text: its line and place in it.                     *)
Characters(text) ==
    Flatten([i \in DOMAIN text |->
        [k \in 1..text[i].chars |-> <<text[i].line, text[i].from + k - 1>>]])

(* The section of block i: the headings before it that no later heading of  *)
(* the same or a smaller depth replaced.                                    *)
DepthOf(j) == Depth[blocks[j].text[1]]
Above(i) ==
    Selected([j \in 1..(i - 1) |-> j],
             {j \in 1..(i - 1) : /\ blocks[j].heading
                                 /\ \A k \in (j + 1)..(i - 1) : blocks[k].heading => DepthOf(k) > DepthOf(j)})
SectionOf(i) == [j \in DOMAIN Above(i) |-> blocks[Above(i)[j]].text]

BodyBlocks == Selected([i \in DOMAIN blocks |-> i], {i \in DOMAIN blocks : ~blocks[i].heading})

(* The block each character of the text comes from.                         *)
Origins ==
    Flatten([k \in DOMAIN BodyBlocks |->
        [c \in 1..Len(Characters(Whole(blocks[BodyBlocks[k]].text))) |-> BodyBlocks[k]]])

Origin(i) == Len(Characters(Flatten([k \in 1..(i - 1) |-> chunks[k].body])))
OriginsOf(i) == {Origins[Origin(i) + c] : c \in 1..Len(Characters(chunks[i].body))}

-----------------------------------------------------------------------------
\* Properties

(* Of the lines of a document only page numbers, lines on the edges of three *)
(* or more pages and repeated paragraphs are left out of its blocks.         *)
LinesKept ==
    stage = "chunk" =>
        \A i \in DOMAIN pages : \A k \in DOMAIN pages[i] :
            LET l == pages[i][k]
            IN  \/ l = BlankLine \/ l \in PageNumbers
                \/ \E b \in DOMAIN blocks : \E n \in DOMAIN blocks[b].text : blocks[b].text[n] = l
                \/ Cardinality({p \in DOMAIN pages : l \in Edges(pages[p])}) >= RunningPages

(* Cut into units, packed, hard split and merged, the text is all there in   *)
(* the chunks, once and in order.                                            *)
NothingLost ==
    Chunked =>
        Characters(Flatten([i \in DOMAIN chunks |-> chunks[i].body]))
          = Characters(Flatten([k \in DOMAIN BodyBlocks |-> Whole(blocks[BodyBlocks[k]].text)]))

(* A chunk lies within one section and says which, and on which pages: what  *)
(* a citation shows its reader.                                              *)
ChunksAreLocated ==
    Chunked =>
        \A i \in DOMAIN chunks :
            /\ \A b \in OriginsOf(i) :
                 /\ SectionOf(b) = chunks[i].path
                 /\ blocks[b].page \in chunks[i].pageStart..chunks[i].pageEnd
            /\ \E b \in OriginsOf(i) : blocks[b].page = chunks[i].pageStart
            /\ \E b \in OriginsOf(i) : blocks[b].page = chunks[i].pageEnd

(* A chunk is no longer than MAX_TOKENS and the white space that joins it,   *)
(* unless a sentence over the limit is in a script of one token a character: *)
(* it is cut by characters.                                                  *)
ChunksFit ==
    Chunked =>
        \A i \in DOMAIN chunks :
            LET body == chunks[i].body
            IN  \/ EstimateTokens(body) <= MaxTokens + Ceiling(Len(body) - 1, CharsPerToken)
                \/ \E k \in DOMAIN body : Wide(body[k])

(* The overlap is the end of the chunk before and of the same section, and   *)
(* of its sentences no more and no fewer than it takes to have enough.       *)
OverlapIsTail ==
    Chunked =>
        \A i \in DOMAIN chunks :
            LET o == chunks[i].overlap
                p == chunks[i - 1].body
                ss == Sentences(o)
            IN  \/ o = <<>> /\ (i = 1 \/ chunks[i - 1].path # chunks[i].path)
                \/ /\ i > 1 /\ chunks[i - 1].path = chunks[i].path
                   /\ Len(o) \in 1..Len(p)
                   /\ o = SubSeq(p, Len(p) - Len(o) + 1, Len(p))
                   /\ o = p \/ EstimatesOf(ss) >= OverlapTokens
                   /\ EstimatesOf(Tail(ss)) < OverlapTokens

(* Each chunk is saved with the vector of its own text, in whatever order    *)
(* and batches the vectors came.                                             *)
VectorsAlign ==
    /\ \A i \in DOMAIN vectors : vectors[i] = i
    /\ stage \in {"summarize", "save"} => Len(vectors) = Len(chunks)

(* The summary is made of every chunk once, in order, and a group is of one  *)
(* section and within its budget unless a chunk alone exceeds it.            *)
SummaryCoversText ==
    /\ stage = "save" /\ error = NoError => Flatten(asked) = All
    /\ \A g \in DOMAIN asked :
         \/ Small
         \/ /\ \A i, j \in DOMAIN asked[g] : Section(asked[g][i]) = Section(asked[g][j])
            /\ Len(asked[g]) = 1 \/ Tokens(asked[g]) <= SectionTokens

(* Cleaning and chunking lose, repeat and move nothing but what they mean to *)
(* leave out, and a chunk knows its place (clean.ts, chunk.ts).              *)
ChunksSound == LinesKept /\ NothingLost /\ ChunksAreLocated /\ ChunksFit /\ OverlapIsTail

(* What is saved with the chunks is theirs: vectors and summary.             *)
StagesAlign == VectorsAlign /\ SummaryCoversText

(* The chunks of a document are its text in order, and their vectors and     *)
(* summaries are of them.                                                    *)
IngestSound == ChunksSound /\ StagesAlign
=============================================================================
