------------------------------- MODULE PdfView -------------------------------
(***************************************************************************)
(* The PDF reader of the browser: a document loaded from a link that is    *)
(* fetched anew when it grows old, one of its pages, drawn when it comes   *)
(* near and again at every zoom.                                           *)
(*   apps/web/features/pdf, features/documents/use-file-url.ts             *)
(***************************************************************************)
EXTENDS Naturals, FiniteSets

CONSTANTS
    MaxViews  \* bounds on links and on drawings of the page

ASSUME PdfAssumption == MaxViews \in [{"links", "draws"} -> Nat] /\ MaxViews["links"] > 0

VARIABLES
    link,     \* how many links there have been; the reader has the last
    loads,    \* loads under way, by their link
    reader,   \* the document shown, its outline, and whether a load failed
    slot,     \* whether the page is near, the number of its last drawing and its document
    draws,    \* drawings under way
    layers,   \* the drawing on the canvas, those whose text is in the text layer
    late      \* history: a text that came after its drawing was cancelled, a drawing that failed

pdfVars == <<link, loads, reader, slot, draws, layers, late>>

NoDraw == 0

PdfInit ==
    /\ link = 1 /\ loads = {[link |-> 1, at |-> "open", cancelled |-> FALSE]}
    /\ reader = [pdf |-> 0, outline |-> 0, error |-> FALSE]
    /\ slot = [near |-> FALSE, draw |-> 0, of |-> 0]
    /\ draws = {}
    /\ layers = [canvas |-> NoDraw, text |-> {}]
    /\ late = {}

-----------------------------------------------------------------------------
\* The document

(* The effect's clean-up: what is under way is cancelled.                   *)
Abandoned(s) == {[x EXCEPT !.cancelled = TRUE] : x \in s}

(* The document of an older link is destroyed with the effect that made it. *)
Alive(n) == n = link

(* The link is fetched again: after a reconnection or when it is old.       *)
NewLink ==
    /\ link < MaxViews["links"]
    /\ link' = link + 1
    /\ loads' = Abandoned(loads) \union {[link |-> link + 1, at |-> "open", cancelled |-> FALSE]}
    /\ UNCHANGED <<reader, slot, draws, layers, late>>

(* getDocument: a load that was cancelled destroys what it got.             *)
Opened(l) ==
    /\ l.at = "open"
    /\ loads' = (loads \ {l}) \union (IF l.cancelled THEN {} ELSE {[l EXCEPT !.at = "first"]})
    /\ UNCHANGED <<reader, slot, draws, layers>>

(* A drawing starts whenever the page is near and the document, the width   *)
(* or the nearness is new; a page that is not near is emptied.              *)
Effect(near, pdf) ==
    LET n == slot.draw + 1
        begins == near /\ pdf # 0
    IN  /\ slot' = [near |-> near, draw |-> IF begins THEN n ELSE slot.draw, of |-> pdf]
        /\ draws' = Abandoned(draws) \union
                    (IF begins THEN {[n |-> n, of |-> pdf, at |-> "page", cancelled |-> FALSE]} ELSE {})
        /\ layers' = IF near THEN layers ELSE [canvas |-> NoDraw, text |-> {}]

(* The first page is there: the document is shown, unless a failure is. A   *)
(* document that was destroyed has none.                                    *)
FirstPage(l) ==
    /\ l.at = "first"
    /\ IF l.cancelled THEN loads' = loads \ {l} /\ UNCHANGED <<reader, slot, draws, layers>>
       ELSE /\ loads' = (loads \ {l}) \union {[l EXCEPT !.at = "outline"]}
            /\ reader' = [reader EXCEPT !.pdf = l.link]
            /\ IF reader.error THEN UNCHANGED <<slot, draws, layers>>
               ELSE Effect(slot.near, l.link)

(* A document without an outline, or whose outline cannot be read, has none.*)
OutlineRead(l) ==
    /\ l.at = "outline"
    /\ loads' = loads \ {l}
    /\ \E o \in {0, l.link} : reader' = IF l.cancelled THEN reader ELSE [reader EXCEPT !.outline = o]
    /\ UNCHANGED <<slot, draws, layers>>

(* A failure that is not of an abandoned load replaces the reader; nothing  *)
(* takes it back.                                                           *)
LoadFails(l) ==
    /\ l.at \in {"open", "first"}
    /\ loads' = loads \ {l}
    /\ IF l.cancelled THEN UNCHANGED <<reader, slot, draws, layers>>
       ELSE /\ reader' = [reader EXCEPT !.error = TRUE]
            /\ Effect(FALSE, 0)

Load ==
    /\ \E l \in loads : Opened(l) \/ FirstPage(l) \/ OutlineRead(l) \/ LoadFails(l)
    /\ UNCHANGED <<link, late>>

-----------------------------------------------------------------------------
\* The page

Redraws == slot.draw < MaxViews["draws"] /\ ~reader.error /\ reader.pdf # 0

Scroll ==
    /\ Redraws
    /\ Effect(~slot.near, reader.pdf)
    /\ UNCHANGED <<link, loads, reader, late>>

(* zoomOut, zoomIn, resetWidth, fitPage, a window of another size: a new    *)
(* width, whichever.                                                        *)
Zoom ==
    /\ Redraws /\ slot.near
    /\ Effect(slot.near, reader.pdf)
    /\ UNCHANGED <<link, loads, reader, late>>

(* getPage: only a drawing that was not cancelled puts up its canvas.       *)
PutCanvas(d) == IF d.cancelled THEN layers ELSE [layers EXCEPT !.canvas = d.n]

GotPage(d) ==
    /\ d.at = "page" /\ (d.cancelled \/ Alive(d.of))
    /\ layers' = PutCanvas(d)
    /\ draws' = (draws \ {d}) \union (IF d.cancelled THEN {} ELSE {[d EXCEPT !.at = "paint"]})
    /\ UNCHANGED late

(* tld.replaceChildren                                                      *)
Emptied == {}

(* render: done, or broken off by a newer drawing.                          *)
Painted(d) ==
    /\ d.at = "paint"
    /\ layers' = IF d.cancelled THEN layers ELSE [layers EXCEPT !.text = Emptied]
    /\ draws' = (draws \ {d}) \union (IF d.cancelled THEN {} ELSE {[d EXCEPT !.at = "text"]})
    /\ UNCHANGED late

(* textLayer.render puts its text in even when the drawing was cancelled.   *)
TextComes(d) ==
    /\ d.at = "text"
    /\ layers' = [layers EXCEPT !.text = @ \union {d.n}]
    /\ late' = IF d.cancelled THEN late \union {"text"} ELSE late
    /\ draws' = draws \ {d}

(* A page or its text cannot be read, of a destroyed document never; a      *)
(* render that fails is taken for done.                                     *)
DrawFails(d) ==
    /\ d.at # "paint"
    /\ draws' = draws \ {d}
    /\ late' = IF d.cancelled \/ ~Alive(d.of) THEN late ELSE late \union {"failed"}
    /\ UNCHANGED layers

Draw ==
    /\ \E d \in draws : GotPage(d) \/ Painted(d) \/ TextComes(d) \/ DrawFails(d)
    /\ UNCHANGED <<link, loads, reader, slot>>

PdfNext == NewLink \/ Load \/ Scroll \/ Zoom \/ Draw

-----------------------------------------------------------------------------
\* Properties

PdfTypeOK ==
    /\ link \in 1..MaxViews["links"]
    /\ reader.pdf \in 0..link /\ reader.outline \in 0..link /\ reader.error \in BOOLEAN
    /\ slot.near \in BOOLEAN
    /\ layers.canvas \in 0..slot.draw /\ layers.text \subseteq 1..slot.draw
    /\ late \subseteq {"text", "failed"}

(* When nothing is loaded any more the reader shows the document of its     *)
(* newest link, however its loads crossed (use-pdf-document.ts 29-64).      *)
DocumentOfLink ==
    (\A l \in loads : l.cancelled \/ l.at = "outline") => reader.error \/ reader.pdf = link

(* A page that is not near holds no canvas, though drawings of it may still *)
(* be under way: what keeps long documents small (pdf-page.tsx 8, 61-86).   *)
FarIsEmpty == ~slot.near => layers.canvas = NoDraw

(* When nothing is drawn any more, a page that is near shows the drawing of *)
(* the present width and document, and its text once, but for drawings that *)
(* failed and for a text that came late (pdf-page.tsx 51-119).              *)
PageAgrees ==
    (slot.near /\ draws = {} /\ "failed" \notin late /\ Alive(slot.of))
        => /\ layers.canvas = slot.draw
           /\ "text" \notin late => layers.text = {slot.draw}

(* The reader shows the document of its link, the pages near as they were    *)
(* drawn last and those far not at all.                                      *)
PdfSound == PdfTypeOK /\ DocumentOfLink /\ FarIsEmpty /\ PageAgrees
=============================================================================
