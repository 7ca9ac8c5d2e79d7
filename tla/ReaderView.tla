----------------------------- MODULE ReaderView -----------------------------
(***************************************************************************)
(* The reader of the Android client: one view model whose coroutines all   *)
(* run on the main thread, but let others run while they wait for the      *)
(* network, the disk or the database. Opening a document, asking about it  *)
(* and marking a page each start one; nothing ends one when the next       *)
(* begins.                                                                 *)
(*   apps/android/.../AppViewModel.kt, data/DocPilotRepository.kt          *)
(***************************************************************************)
EXTENDS Naturals, Sequences, FiniteSets

CONSTANTS
    Papers,    \* documents that are ready
    Nothing,   \* no document
    MaxTrips   \* bounds on opens, on questions, and on marks, kills and failures

ASSUME ReaderAssumption == Nothing \notin Papers /\ MaxTrips \in [{"open", "ask", "more"} -> Nat]

VARIABLES
    model,    \* the view model's state
    cache,    \* the file of each document and its ".download" file
    disk,     \* what the files hold, a file known by the download that made it
    jobs,     \* coroutines of open and ask under way
    watchers, \* documents whose highlights are collected, and those to be told
    last,     \* the last question answered about each document
    trips,    \* what MaxTrips bounds
    met       \* history: what ran side by side or failed since the reader was last at
              \* rest, and whether two downloads ever shared a file

readerVars == <<model, cache, disk, jobs, watchers, last, trips, met>>

Downloads == 1..MaxTrips["open"]
NoModel == [selected |-> Nothing, pages |-> Nothing, chat |-> <<>>, marks |-> Nothing, busy |-> FALSE]

ReaderInit ==
    /\ model = NoModel
    /\ cache = [p \in Papers |-> [file |-> 0, temp |-> 0]]
    /\ disk = [d \in Downloads |-> "none"]
    /\ jobs = {}
    /\ watchers = [on |-> {}, due |-> {}]
    /\ last = [p \in Papers |-> 0]
    /\ trips = [k \in {"open", "ask", "more"} |-> 0]
    /\ met = {}

Spend(what) == trips[what] < MaxTrips[what] /\ trips' = [trips EXCEPT ![what] = @ + 1]

Job(id, kind, paper, at) == [id |-> id, kind |-> kind, paper |-> paper, at |-> at, file |-> 0]
Moved(j, at) == (jobs \ {j}) \union {[j EXCEPT !.at = at]}
Running(kind) == \E j \in jobs : j.kind = kind

-----------------------------------------------------------------------------
\* open

(* The title changes and the chat is emptied at once, the pages come later. *)
OpenPaper(p) ==
    /\ Spend("open")
    /\ model' = [selected |-> p, pages |-> model.pages, chat |-> <<>>, marks |-> model.marks, busy |-> TRUE]
    /\ jobs' = jobs \union {Job(trips["open"] + 1, "open", p, "check")}
    /\ met' = IF jobs = {} /\ watchers.due = {} THEN met \intersect {"shared"}
              ELSE met \union {what \in {"open", "ask"} : Running(what)}
                       \union (IF watchers.due # {} THEN {"mark"} ELSE {})
    /\ UNCHANGED <<cache, disk, watchers, last>>

(* target.exists() && target.length() > 4                                   *)
Cached(p) == cache[p].file # 0

LookInCache(j) ==
    /\ j.at = "check"
    /\ jobs' = Moved(j, IF Cached(j.paper) THEN "render" ELSE "fetch")
    /\ UNCHANGED <<model, cache, disk, watchers, last, met>>

(* downloadPdf writes a ".download" file, which another download of the     *)
(* document may be writing, too: it is emptied and begun again.             *)
BeginWriting(j) ==
    LET f == IF cache[j.paper].temp # 0 THEN cache[j.paper].temp ELSE j.id
    IN  /\ j.at = "fetch"
        /\ cache' = [cache EXCEPT ![j.paper].temp = f]
        /\ disk' = [disk EXCEPT ![f] = "part"]
        /\ jobs' = (jobs \ {j}) \union {[[j EXCEPT !.at = "write"] EXCEPT !.file = f]}
        /\ met' = IF \E k \in jobs : k.paper = j.paper /\ k.at \in {"write", "rename"}
                  THEN met \union {"shared"} ELSE met
        /\ UNCHANGED <<model, watchers, last>>

EndWriting(j) ==
    /\ j.at = "write"
    /\ disk' = [disk EXCEPT ![j.file] = "whole"]
    /\ jobs' = Moved(j, "rename")
    /\ UNCHANGED <<model, cache, watchers, last, met>>

(* renameTo, its result unread: a file that is gone stays gone.             *)
Rename(j) ==
    /\ j.at = "rename"
    /\ cache' = [cache EXCEPT ![j.paper] = IF @.temp = 0 THEN @ ELSE [file |-> @.temp, temp |-> 0]]
    /\ jobs' = Moved(j, "render")
    /\ UNCHANGED <<model, disk, watchers, last, met>>

Readable(p) == cache[p].file # 0 /\ disk[cache[p].file] = "whole"

(* observe(...).collect in a coroutine of its own, which never ends.        *)
Watched(p) == {p}

\* Mutant: a renderer that is open is used again.
RendererKept(j) == IF model.pages = Nothing THEN j.paper ELSE model.pages

(* The renderer of the file that was opened.                                *)
Renderer(j) == j.paper

(* The old renderer is closed; a file that is no PDF leaves its pages up.   *)
Render(j) ==
    /\ j.at = "render"
    /\ IF Readable(j.paper)
       THEN /\ model' = [[model EXCEPT !.pages = Renderer(j)] EXCEPT !.busy = FALSE]
            /\ watchers' = [on |-> watchers.on \union Watched(j.paper), due |-> watchers.due \union Watched(j.paper)]
            /\ UNCHANGED met
       ELSE /\ model' = [model EXCEPT !.busy = FALSE]
            /\ met' = met \union {"failed"}
            /\ UNCHANGED watchers
    /\ jobs' = jobs \ {j}
    /\ UNCHANGED <<cache, disk, last>>

-----------------------------------------------------------------------------
\* Highlights

(* highlightCurrentPage: every collector is told that the table changed.    *)
HighlightPage ==
    /\ Spend("more")
    /\ model.selected # Nothing /\ model.pages # Nothing
    /\ watchers' = [watchers EXCEPT !.due = watchers.on]
    /\ met' = IF watchers.on \subseteq {model.selected} THEN met ELSE met \union {"mark"}
    /\ UNCHANGED <<model, cache, disk, jobs, last>>

(* Whichever collector comes last says which pages are highlighted.         *)
TellWatcher ==
    /\ \E p \in watchers.due :
         /\ model' = [model EXCEPT !.marks = p]
         /\ watchers' = [watchers EXCEPT !.due = @ \ {p}]
    /\ UNCHANGED <<cache, disk, jobs, last, trips, met>>

-----------------------------------------------------------------------------
\* ask

(* The button needs busy to be false, which any coroutine's end makes it.   *)
AskReader ==
    /\ model.selected # Nothing /\ ~model.busy
    /\ Spend("ask")
    /\ model' = [[model EXCEPT !.chat = <<>>] EXCEPT !.busy = TRUE]
    /\ jobs' = jobs \union {Job(trips["ask"] + 1, "ask", model.selected, "messages")}
    /\ met' = IF Running("ask") THEN met \union {"ask"} ELSE met
    /\ UNCHANGED <<cache, disk, watchers, last>>

(* The last answer of the conversation is shown while the new one comes.    *)
ShownBefore(j) == IF last[j.paper] = 0 THEN model.chat ELSE <<<<last[j.paper], "all">>>>

ReadMessages(j) ==
    /\ j.at = "messages"
    /\ model' = [model EXCEPT !.chat = ShownBefore(j)]
    /\ jobs' = Moved(j, "first")
    /\ UNCHANGED <<cache, disk, watchers, last, met>>

(* chatText += it.text                                                      *)
WithDelta(q, part) == Append(model.chat, <<q, part>>)

ReadDelta(j) ==
    /\ j.at \in {"first", "second"}
    /\ model' = [model EXCEPT !.chat = WithDelta(j.id, j.at)]
    /\ jobs' = Moved(j, IF j.at = "first" THEN "second" ELSE "end")
    /\ UNCHANGED <<cache, disk, watchers, last, met>>

EndAsk(j) ==
    /\ j.at = "end"
    /\ model' = [model EXCEPT !.busy = FALSE]
    /\ last' = [last EXCEPT ![j.paper] = j.id]
    /\ jobs' = jobs \ {j}
    /\ UNCHANGED <<cache, disk, watchers, met>>

(* run: whatever happens, busy is false in the end.                         *)
AfterFailure == [model EXCEPT !.busy = FALSE]

FailJob(j) ==
    /\ Spend("more")
    /\ model' = AfterFailure
    /\ jobs' = jobs \ {j}
    /\ met' = met \union {"failed"}
    /\ UNCHANGED <<cache, disk, watchers, last>>

(* The process is killed; what is on the disk stays.                        *)
KillReader ==
    /\ model # NoModel
    /\ Spend("more")
    /\ model' = NoModel /\ jobs' = {} /\ watchers' = [on |-> {}, due |-> {}]
    /\ met' = met \intersect {"shared"}
    /\ UNCHANGED <<cache, disk, last>>

StepJob(j) ==
    /\ LookInCache(j) \/ BeginWriting(j) \/ EndWriting(j) \/ Rename(j) \/ Render(j)
         \/ ReadMessages(j) \/ ReadDelta(j) \/ EndAsk(j)
    /\ UNCHANGED trips

ReaderNext ==
    \/ \E p \in Papers : OpenPaper(p)
    \/ \E j \in jobs : StepJob(j) \/ FailJob(j)
    \/ HighlightPage \/ TellWatcher \/ AskReader \/ KillReader

ReaderSpec == ReaderInit /\ [][ReaderNext]_readerVars

(* Coroutines go on until the process is killed.                            *)
ReaderFairness == WF_readerVars(\E j \in jobs : StepJob(j))

-----------------------------------------------------------------------------
\* Properties

ReaderTypeOK ==
    /\ model.selected \in Papers \union {Nothing} /\ model.pages \in Papers \union {Nothing}
    /\ model.busy \in BOOLEAN
    /\ \A p \in Papers : cache[p].file \in {0} \union Downloads /\ cache[p].temp \in {0} \union Downloads
    /\ watchers.on \subseteq Papers /\ watchers.due \subseteq watchers.on
    /\ met \subseteq {"open", "ask", "mark", "shared", "failed"}

AtRest == jobs = {} /\ watchers.due = {} /\ model.selected # Nothing

(* At rest the pages are those of the document in the title, unless two      *)
(* opens ran side by side or one failed: then the later to finish stays.     *)
PagesOfTitle == (AtRest /\ met \intersect {"open", "failed"} = {}) => model.pages = model.selected

(* So are the highlights, unless a page was marked after another document    *)
(* had been opened: its collector still runs and answers, too.               *)
MarksOfTitle == (AtRest /\ met \intersect {"open", "failed", "mark"} = {}) => model.marks = model.selected

(* The chat ends with the whole answer to the last question, and begins with *)
(* nothing but the answer before it, unless answers ran side by side or into *)
(* the next document.                                                        *)
ChatEndsWithAnswer ==
    (AtRest /\ met \intersect {"ask", "failed"} = {} /\ model.chat # <<>>) =>
        LET q == last[model.selected]
            n == Len(model.chat)
        IN  /\ n \in {2, 3} /\ SubSeq(model.chat, n - 1, n) = <<<<q, "first">>, <<q, "second">>>>
            /\ n = 3 => model.chat[1][2] = "all" /\ model.chat[1][1] < q

(* A file under its final name is whole, unless two downloads of the same    *)
(* document ran side by side.                                                *)
FilesWhole == "shared" \notin met => \A p \in Papers : cache[p].file # 0 => disk[cache[p].file] = "whole"

(* The progress bar does not stay.                                           *)
BusyEnds == []<>(~model.busy)

(* At rest pages, highlights and chat are of the document in the title, and  *)
(* a cached file is whole.                                                   *)
ReaderSound == ReaderTypeOK /\ PagesOfTitle /\ MarksOfTitle /\ ChatEndsWithAnswer /\ FilesWhole
=============================================================================
