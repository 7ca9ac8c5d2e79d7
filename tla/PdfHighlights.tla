--------------------------- MODULE PdfHighlights ---------------------------
(***************************************************************************)
(* The highlights of a document in the browser: each tab shows what it has *)
(* read from the storage all tabs share, and writes all it shows back.     *)
(*   apps/web/features/pdf/use-pdf-highlights.ts, use-pdf-selection.ts     *)
(***************************************************************************)
EXTENDS Naturals, FiniteSets

CONSTANTS
    Tabs,     \* tabs that may show the document
    MaxMarks  \* bound on the highlights made

ASSUME HighlightAssumption == MaxMarks \in Nat

VARIABLES
    tabs,   \* the highlights each open tab shows; a closed tab shows none
    marks,  \* highlights: in the storage, made, removed
    parted  \* history: tabs side by side, a storage that was full

highlightVars == <<tabs, marks, parted>>

HighlightInit ==
    /\ tabs = [t \in Tabs |-> [open |-> FALSE, shown |-> {}]]
    /\ marks = [stored |-> {}, made |-> {}, removed |-> {}]
    /\ parted = {}

(* The storage is read when the reader opens, and not again.                *)
OpenTab(t) ==
    /\ ~tabs[t].open
    /\ tabs' = [tabs EXCEPT ![t] = [open |-> TRUE, shown |-> marks.stored]]
    /\ parted' = IF \E u \in Tabs : tabs[u].open THEN parted \union {"tabs"} ELSE parted
    /\ UNCHANGED marks

CloseTab(t) ==
    /\ tabs[t].open
    /\ tabs' = [tabs EXCEPT ![t] = [open |-> FALSE, shown |-> {}]]
    /\ UNCHANGED <<marks, parted>>

(* save: what the tab shows replaces what is stored.                        *)
Saved(shown) == shown

Marked(t, shown, stored) ==
    [stored |-> stored, made |-> marks.made \union shown, removed |-> marks.removed \union (tabs[t].shown \ shown)]

(* A storage that is full keeps what it has.                                *)
Keep(t, shown) ==
    /\ tabs' = [tabs EXCEPT ![t] = [open |-> TRUE, shown |-> shown]]
    /\ \/ marks' = Marked(t, shown, Saved(shown)) /\ UNCHANGED parted
       \/ marks' = Marked(t, shown, marks.stored) /\ parted' = parted \union {"full"}

AddMark(t) ==
    /\ tabs[t].open /\ Cardinality(marks.made) < MaxMarks
    /\ Keep(t, tabs[t].shown \union {Cardinality(marks.made) + 1})

RemoveMark(t) == tabs[t].open /\ \E m \in tabs[t].shown : Keep(t, tabs[t].shown \ {m})

HighlightNext ==
    \E t \in Tabs : OpenTab(t) \/ CloseTab(t) \/ AddMark(t) \/ RemoveMark(t)

-----------------------------------------------------------------------------
\* Properties

HighlightTypeOK ==
    /\ \A t \in Tabs : tabs[t].open \in BOOLEAN /\ tabs[t].shown \subseteq marks.made
    /\ marks.stored \subseteq marks.made /\ parted \subseteq {"tabs", "full"}

(* A highlight that was made and not removed is stored, unless two tabs     *)
(* were open side by side or the storage was full (use-pdf-highlights.ts).  *)
MarksAreStored ==
    HighlightTypeOK /\ (parted = {} => marks.stored = marks.made \ marks.removed)
=============================================================================
