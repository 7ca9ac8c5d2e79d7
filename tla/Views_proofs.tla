----------------------------- MODULE Views_proofs -----------------------------
(***************************************************************************)
(* Proofs about the views of the clients.                                  *)
(*                                                                         *)
(* ReaderView, for any documents and any number of opens, questions and    *)
(* mishaps. What the reader shows at rest is right because of what is      *)
(* under way before. As long as nothing ran side by side that the          *)
(* properties excuse, one coroutine at most is to bring the pages of the   *)
(* title (PagesComing), its collector alone is to be told (MarksComing),   *)
(* and the chat is what the stage of the one answer makes it               *)
(* (AnswerComing). Files are kept apart by the numbers of the downloads:   *)
(* one that has not begun to write has a number that is on no file, and    *)
(* one coroutine writes a document's file (FilesApart).                    *)
(*                                                                         *)
(* ChatViews, for windows of any even size, any old conversation and any   *)
(* number of questions, losses and pages visited in between. A window is   *)
(* right at rest because until then it is fresh, known not to be, or being *)
(* fetched (WebComing, IosComing); for that a view does one thing at a     *)
(* time (Sending, WebFinds), nobody else follows its question              *)
(* (OwnFollowed), and messages come in pairs. Conversations are counted    *)
(* with those under way to be made (CountedMakers).                        *)
(*                                                                         *)
(* WebPages, for any tabs, people and pages, whatever the bounds. PdfView: *)
(* one load at most goes on, of the newest link, and one drawing, the last *)
(* (OneLoad, OneDraw, PageComes). PdfHighlights: the one tab that is open  *)
(* shows what is stored (OneTab). Profiles: a username passes from nobody  *)
(* to somebody or back, so that what a request has read of a profile is    *)
(* true as long as the profile is (PartsStay); a request that is not old   *)
(* has read the truth so far (Asked), and a page that tells something else *)
(* has a request under way or is about to ask (Answered).                  *)
(***************************************************************************)
EXTENDS ReaderView, ChatViews, WebPages, FiniteSetTheorems, SequenceTheorems, TLAPS

-----------------------------------------------------------------------------
\* ReaderView: the invariant

OpenStages == {"check", "fetch", "write", "rename", "render"}
AskStages  == {"messages", "first", "second", "end"}
Pieces     == Nat \X {"all", "first", "second"}
Screen     == [selected : Papers \union {Nothing}, pages : Papers \union {Nothing}, chat : Seq(Pieces),
               marks : Papers \union {Nothing}, busy : BOOLEAN]
Jobs       == [id : Nat, kind : {"open", "ask"}, paper : Papers, at : OpenStages \union AskStages, file : Nat]
Files      == [file : {0} \union Downloads, temp : {0} \union Downloads]
Collectors == [on : SUBSET Papers, due : SUBSET Papers]

(* A coroutine has a number of its own, of those that were given out, and    *)
(* is at a stage of its kind.                                                *)
SoundJob(j) ==
    /\ j.id \in 1..trips[j.kind]
    /\ j.at \in IF j.kind = "open" THEN OpenStages ELSE AskStages

JobsTyped ==
    /\ jobs \subseteq Jobs /\ trips \in [{"open", "ask", "more"} -> Nat]
    /\ \A j \in jobs : SoundJob(j)
    /\ \A j, k \in jobs : j.kind = k.kind /\ j.id = k.id => j = k

ReaderTyped ==
    /\ ReaderTypeOK /\ JobsTyped
    /\ model \in Screen /\ watchers \in Collectors
    /\ cache \in [Papers -> Files] /\ disk \in [Downloads -> {"none", "part", "whole"}]
    /\ last \in [Papers -> Nat] /\ \A p \in Papers : last[p] <= trips["ask"]
    /\ trips["open"] <= MaxTrips["open"]

(* As long as no two downloads met: one coroutine writes a paper's file, and *)
(* the number of one that has not begun to write is on no file.              *)
Writing(j) == j.at \in {"write", "rename"}
FilesInOrder ==
    /\ \A j, k \in jobs : Writing(j) /\ Writing(k) /\ j.paper = k.paper => j = k
    /\ \A j \in jobs : Writing(j) => j.file = cache[j.paper].temp /\ j.file # 0
    /\ \A j \in jobs : j.at = "rename" => disk[j.file] = "whole"
    /\ \A p \in Papers : cache[p].file # 0 => disk[cache[p].file] = "whole"
    /\ \A p, q \in Papers : cache[p].temp # 0 =>
         cache[p].temp # cache[q].file /\ (cache[p].temp = cache[q].temp => p = q)
    /\ \A p \in Papers : cache[p].file <= trips["open"] /\ cache[p].temp <= trips["open"]
    /\ \A j \in jobs : j.at \in {"check", "fetch"} =>
         \A p \in Papers : cache[p].file # j.id /\ cache[p].temp # j.id
FilesApart == "shared" \notin met => FilesInOrder

(* As long as no two opens met and none failed: the pages are those of the   *)
(* title, or the coroutine that will show them is under way.                 *)
Opens(j) == j.kind = "open"
PagesComing ==
    met \intersect {"open", "failed"} = {} =>
      /\ \A j, k \in jobs : Opens(j) /\ Opens(k) => j = k
      /\ \A j \in jobs : Opens(j) => j.paper = model.selected
      /\ model.selected # Nothing /\ ~Running("open") => model.pages = model.selected

(* And only the collector of the title's highlights is to be told, unless a  *)
(* page was marked in between.                                               *)
MarksComing ==
    met \intersect {"open", "failed", "mark"} = {} =>
      /\ watchers.due \subseteq {model.selected}
      /\ model.selected # Nothing /\ ~Running("open") =>
           model.marks = model.selected \/ model.selected \in watchers.due

(* What a chat is at each stage of the answer under way: the answer before   *)
(* it, and what has come of it.                                              *)
Before(chat, q) == chat = <<>> \/ \E o \in Nat : o < q /\ chat = <<<<o, "all">>>>
ChatAt(stage, chat, q) ==
    CASE stage = "messages" -> chat = <<>>
      [] stage = "first"    -> Before(chat, q)
      [] stage = "second"   -> \E b \in Seq(Pieces) : Before(b, q) /\ chat = Append(b, <<q, "first">>)
      [] OTHER -> \E b \in Seq(Pieces) : Before(b, q) /\ chat = Append(Append(b, <<q, "first">>), <<q, "second">>)

Asks(j) == j.kind = "ask"
AnswerComing ==
    met \intersect {"ask", "failed"} = {} =>
      /\ \A j, k \in jobs : Asks(j) /\ Asks(k) => j = k
      /\ \A j \in jobs : Asks(j) =>
           /\ j.paper = model.selected /\ ChatAt(j.at, model.chat, j.id)
           /\ \A p \in Papers : last[p] < j.id
      /\ model.selected # Nothing /\ ~Running("ask") =>
           model.chat = <<>> \/ ChatAt("end", model.chat, last[model.selected])

ReaderInv == ReaderTyped /\ FilesApart /\ PagesComing /\ MarksComing /\ AnswerComing

-----------------------------------------------------------------------------
\* Coroutines and counters

LEMMA SpendTyped ==
    ASSUME trips \in [{"open", "ask", "more"} -> Nat], NEW what \in {"open", "ask", "more"}, Spend(what)
    PROVE  /\ trips' \in [{"open", "ask", "more"} -> Nat]
           /\ trips'[what] = trips[what] + 1 /\ trips'[what] <= MaxTrips[what]
           /\ \A k \in {"open", "ask", "more"} \ {what} : trips'[k] = trips[k]
BY ReaderAssumption DEF Spend

(* A coroutine that goes on to another stage of its kind.                   *)
OnItsWay(j, n) == n \in Jobs /\ n.id = j.id /\ n.kind = j.kind /\ n.paper = j.paper

LEMMA MovedOn ==
    ASSUME NEW j \in Jobs, NEW at \in OpenStages \union AskStages
    PROVE  OnItsWay(j, [j EXCEPT !.at = at]) /\ [j EXCEPT !.at = at].at = at /\ [j EXCEPT !.at = at].file = j.file
BY DEF Jobs, OnItsWay

LEMMA MovedTyped ==
    ASSUME JobsTyped, NEW j \in jobs, NEW n, OnItsWay(j, n), UNCHANGED trips,
           n.at \in IF j.kind = "open" THEN OpenStages ELSE AskStages,
           jobs' = (jobs \ {j}) \union {n}
    PROVE  JobsTyped'
<1>1. \A k \in jobs' : (k \in jobs /\ k # j) \/ k = n
  OBVIOUS
<1>2. j \in Jobs /\ SoundJob(j)
  BY DEF JobsTyped
<1>3. SoundJob(n)' /\ \A k \in jobs : SoundJob(k)'
  BY <1>2 DEF JobsTyped, SoundJob, OnItsWay
<1>4. \A k \in jobs' : SoundJob(k)'
  BY <1>1, <1>3
<1>5. \A i, k \in jobs' : i.kind = k.kind /\ i.id = k.id => i = k
  BY <1>1 DEF JobsTyped, OnItsWay
<1>6. jobs' \subseteq Jobs
  BY <1>1 DEF JobsTyped, OnItsWay
<1> QED
  BY <1>4, <1>5, <1>6 DEF JobsTyped

LEMMA FewerTyped ==
    ASSUME JobsTyped, jobs' \subseteq jobs, trips' \in [{"open", "ask", "more"} -> Nat],
           trips'["open"] >= trips["open"], trips'["ask"] >= trips["ask"]
    PROVE  JobsTyped'
<1>1. \A k \in jobs : SoundJob(k)'
  BY DEF JobsTyped, SoundJob, Jobs
<1> QED
  BY <1>1 DEF JobsTyped

LEMMA BegunTyped ==
    ASSUME JobsTyped, NEW kind \in {"open", "ask"}, Spend(kind), NEW p \in Papers,
           NEW at \in IF kind = "open" THEN OpenStages ELSE AskStages,
           jobs' = jobs \union {Job(trips[kind] + 1, kind, p, at)}
    PROVE  /\ JobsTyped'
           /\ Job(trips[kind] + 1, kind, p, at) \in Jobs
<1>0. PICK n : n = Job(trips[kind] + 1, kind, p, at)
  OBVIOUS
<1>1. /\ trips' \in [{"open", "ask", "more"} -> Nat] /\ trips \in [{"open", "ask", "more"} -> Nat]
      /\ trips'[kind] = trips[kind] + 1
      /\ \A k \in {"open", "ask"} : trips'[k] >= trips[k]
  BY SpendTyped DEF JobsTyped
<1>2. n \in Jobs /\ n.id = trips[kind] + 1 /\ n.kind = kind /\ n.at = at
  BY <1>0, <1>1 DEF Job, Jobs
<1>3. \A k \in jobs : k.kind = kind => k.id \in 1..trips[kind]
  BY DEF JobsTyped, SoundJob
<1>4. \A k \in jobs : SoundJob(k)'
  BY <1>1 DEF JobsTyped, SoundJob, Jobs
<1>5. SoundJob(n)'
  BY <1>1, <1>2 DEF SoundJob
<1>6. jobs' = jobs \union {n}
  BY <1>0
<1>7. \A k \in jobs : ~(k.kind = n.kind /\ k.id = n.id)
  BY <1>1, <1>2, <1>3
<1>8. jobs' \subseteq Jobs
  BY <1>2, <1>6 DEF JobsTyped
<1>9. \A i, k \in jobs' : i.kind = k.kind /\ i.id = k.id => i = k
  BY <1>6, <1>7 DEF JobsTyped
<1> QED
  BY <1>0, <1>1, <1>2, <1>4, <1>5, <1>6, <1>8, <1>9 DEF JobsTyped

LEMMA StageTyped ==
    ASSUME JobsTyped, NEW j \in jobs, UNCHANGED trips,
           NEW at \in IF j.kind = "open" THEN OpenStages ELSE AskStages,
           jobs' = Moved(j, at)
    PROVE  JobsTyped'
<1>1. PICK n : n = [j EXCEPT !.at = at]
  OBVIOUS
<1>2. j \in Jobs /\ at \in OpenStages \union AskStages
  BY DEF JobsTyped
<1>3. OnItsWay(j, n) /\ n.at = at
  BY <1>1, <1>2, MovedOn
<1>4. jobs' = (jobs \ {j}) \union {n}
  BY <1>1 DEF Moved
<1> QED
  BY <1>3, <1>4, MovedTyped

-----------------------------------------------------------------------------
\* Types

LEMMA OpenTyped ==
    ASSUME ReaderTyped, NEW p \in Papers, OpenPaper(p)
    PROVE  ReaderTyped'
<1>1. JobsTyped'
  BY BegunTyped DEF OpenPaper, ReaderTyped, OpenStages
<1>2. trips'["open"] <= MaxTrips["open"] /\ trips'["ask"] = trips["ask"]
  BY SpendTyped DEF OpenPaper, ReaderTyped, JobsTyped
<1>3. model' \in Screen
  BY DEF OpenPaper, ReaderTyped, Screen
<1>4. met' \subseteq {"open", "ask", "mark", "shared", "failed"}
  BY DEF OpenPaper, ReaderTyped, ReaderTypeOK
<1>5. ReaderTypeOK'
  BY <1>3, <1>4 DEF OpenPaper, ReaderTyped, ReaderTypeOK, Screen
<1> QED
  BY <1>1, <1>2, <1>3, <1>5 DEF OpenPaper, ReaderTyped

LEMMA DownloadTyped ==
    ASSUME ReaderTyped, NEW j \in jobs, LookInCache(j) \/ BeginWriting(j) \/ EndWriting(j) \/ Rename(j), UNCHANGED trips
    PROVE  ReaderTyped'
<1>0. j \in Jobs /\ SoundJob(j) /\ trips["open"] <= MaxTrips["open"] /\ MaxTrips["open"] \in Nat
  BY ReaderAssumption DEF ReaderTyped, JobsTyped
<1>1. j.at \in {"check", "fetch", "write", "rename"} => j.kind = "open" /\ j.id \in Downloads /\ j.paper \in Papers
  BY <1>0 DEF SoundJob, AskStages, Downloads, ReaderTyped, JobsTyped, Jobs
<1>2. CASE LookInCache(j)
  <2>1. PICK at \in {"render", "fetch"} : jobs' = Moved(j, at)
    BY <1>2 DEF LookInCache
  <2>2. JobsTyped'
    BY <1>0, <1>1, <1>2, <2>1, StageTyped DEF LookInCache, OpenStages, ReaderTyped
  <2> QED
    BY <1>2, <2>2 DEF LookInCache, ReaderTyped, ReaderTypeOK
<1>3. CASE BeginWriting(j)
  <2>1. PICK f : f = (IF cache[j.paper].temp # 0 THEN cache[j.paper].temp ELSE j.id)
    OBVIOUS
  <2>2. f \in Downloads /\ f \in Nat
    BY <1>0, <1>1, <1>3, <2>1 DEF BeginWriting, ReaderTyped, ReaderTypeOK, Downloads
  <2>3. PICK n : n = [[j EXCEPT !.at = "write"] EXCEPT !.file = f]
    OBVIOUS
  <2>4. jobs' = (jobs \ {j}) \union {n}
    BY <1>3, <2>1, <2>3 DEF BeginWriting
  <2>10. OnItsWay(j, n) /\ n.at = "write"
    <3>1. j \in Jobs /\ f \in Nat
      BY <1>0, <2>2
    <3> QED
      BY ONLY <2>3, <3>1 DEF Jobs, OnItsWay, OpenStages
  <2>5. JobsTyped'
    BY <1>1, <1>3, <2>4, <2>10, MovedTyped DEF BeginWriting, OpenStages, ReaderTyped
  <2>6. cache' = [cache EXCEPT ![j.paper].temp = f] /\ disk' = [disk EXCEPT ![f] = "part"]
    BY <1>3, <2>1 DEF BeginWriting
  <2>7. cache' \in [Papers -> Files] /\ disk' \in [Downloads -> {"none", "part", "whole"}]
    BY <2>2, <2>6 DEF ReaderTyped, Files
  <2>8. met' \subseteq {"open", "ask", "mark", "shared", "failed"}
    BY <1>3 DEF BeginWriting, ReaderTyped, ReaderTypeOK
  <2>9. ReaderTypeOK'
    BY <1>3, <2>7, <2>8 DEF BeginWriting, ReaderTyped, ReaderTypeOK, Files
  <2> QED
    BY <1>3, <2>5, <2>7, <2>9 DEF BeginWriting, ReaderTyped
<1>4. CASE EndWriting(j)
  <2>2. JobsTyped'
    BY <1>0, <1>1, <1>4, StageTyped DEF EndWriting, OpenStages, ReaderTyped
  <2> QED
    BY <1>4, <2>2 DEF EndWriting, ReaderTyped, ReaderTypeOK
<1>5. CASE Rename(j)
  <2>2. JobsTyped'
    BY <1>0, <1>1, <1>5, StageTyped DEF Rename, OpenStages, ReaderTyped
  <2>3. cache' \in [Papers -> Files]
    BY <1>5 DEF Rename, ReaderTyped, Files
  <2>4. ReaderTypeOK'
    BY <1>5, <2>3 DEF Rename, ReaderTyped, ReaderTypeOK, Files
  <2> QED
    BY <1>5, <2>2, <2>3, <2>4 DEF Rename, ReaderTyped
<1> QED
  BY <1>2, <1>3, <1>4, <1>5

LEMMA RenderTyped ==
    ASSUME ReaderTyped, NEW j \in jobs, Render(j), UNCHANGED trips
    PROVE  ReaderTyped'
<1>1. JobsTyped'
  BY FewerTyped DEF Render, ReaderTyped, JobsTyped
<1>2. j.paper \in Papers
  BY DEF ReaderTyped, JobsTyped, Jobs
<1>3. model' \in Screen
  BY <1>2, ZenonT(60) DEF Render, Renderer, ReaderTyped, Screen
<1>4. watchers' \in Collectors /\ watchers'.due \subseteq watchers'.on
  BY <1>2 DEF Render, Watched, ReaderTyped, ReaderTypeOK, Collectors
<1>5. met' \subseteq {"open", "ask", "mark", "shared", "failed"}
  BY DEF Render, ReaderTyped, ReaderTypeOK
<1>6. ReaderTypeOK'
  BY <1>3, <1>4, <1>5 DEF Render, ReaderTyped, ReaderTypeOK, Screen, Collectors
<1> QED
  BY <1>1, <1>3, <1>4, <1>6 DEF Render, ReaderTyped

LEMMA MarkTyped ==
    ASSUME ReaderTyped, HighlightPage \/ TellWatcher
    PROVE  ReaderTyped'
<1>1. trips' \in [{"open", "ask", "more"} -> Nat] /\ trips'["open"] = trips["open"] /\ trips'["ask"] = trips["ask"]
  BY SpendTyped DEF HighlightPage, TellWatcher, ReaderTyped, JobsTyped
<1>2. JobsTyped'
  BY <1>1, FewerTyped DEF HighlightPage, TellWatcher, ReaderTyped, JobsTyped
<1>3. model' \in Screen /\ watchers' \in Collectors /\ watchers'.due \subseteq watchers'.on
  <2>1. CASE HighlightPage
    BY <2>1 DEF HighlightPage, ReaderTyped, ReaderTypeOK, Collectors
  <2>2. CASE TellWatcher
    <3>1. PICK p \in watchers.due : model' = [model EXCEPT !.marks = p] /\ watchers' = [watchers EXCEPT !.due = @ \ {p}]
      BY <2>2 DEF TellWatcher
    <3>2. p \in Papers
      BY DEF ReaderTyped, ReaderTypeOK
    <3>3. model' \in Screen
      BY <3>1, <3>2 DEF ReaderTyped, Screen
    <3> QED
      BY <3>1, <3>3 DEF ReaderTyped, ReaderTypeOK, Collectors
  <2> QED
    BY <2>1, <2>2
<1>4. met' \subseteq {"open", "ask", "mark", "shared", "failed"}
  BY DEF HighlightPage, TellWatcher, ReaderTyped, ReaderTypeOK
<1>5. ReaderTypeOK'
  BY <1>3, <1>4 DEF HighlightPage, TellWatcher, ReaderTyped, ReaderTypeOK, Screen, Collectors
<1> QED
  BY <1>1, <1>2, <1>3, <1>5 DEF HighlightPage, TellWatcher, ReaderTyped

LEMMA AskTyped ==
    ASSUME ReaderTyped, AskReader
    PROVE  ReaderTyped'
<1>1. model.selected \in Papers
  BY DEF AskReader, ReaderTyped, ReaderTypeOK
<1>2. JobsTyped'
  BY <1>1, BegunTyped DEF AskReader, ReaderTyped, AskStages
<1>3. trips'["open"] = trips["open"] /\ trips'["ask"] = trips["ask"] + 1 /\ trips["ask"] \in Nat
  BY SpendTyped DEF AskReader, ReaderTyped, JobsTyped
<1>4. model' \in Screen
  <2>1. PICK m : m = [model EXCEPT !.chat = <<>>]
    OBVIOUS
  <2>0. <<>> \in Seq(Pieces) /\ model \in Screen
    BY DEF ReaderTyped
  <2>2. m \in Screen
    BY ONLY <2>0, <2>1 DEF Screen
  <2>3. model' = [m EXCEPT !.busy = TRUE]
    BY <2>1 DEF AskReader
  <2> QED
    BY <2>2, <2>3 DEF Screen
<1>5. met' \subseteq {"open", "ask", "mark", "shared", "failed"}
  BY DEF AskReader, ReaderTyped, ReaderTypeOK
<1>6. ReaderTypeOK'
  BY <1>4, <1>5 DEF AskReader, ReaderTyped, ReaderTypeOK, Screen
<1>7. \A p \in Papers : last'[p] <= trips'["ask"]
  BY <1>3 DEF AskReader, ReaderTyped
<1> QED
  BY <1>2, <1>3, <1>4, <1>6, <1>7 DEF AskReader, ReaderTyped

LEMMA AnswerTyped ==
    ASSUME ReaderTyped, NEW j \in jobs, ReadMessages(j) \/ ReadDelta(j) \/ EndAsk(j), UNCHANGED trips
    PROVE  ReaderTyped'
<1>1. j \in Jobs /\ j.kind = "ask" /\ j.paper \in Papers /\ j.id \in Nat /\ j.id <= trips["ask"] /\ trips["ask"] \in Nat
  BY DEF ReaderTyped, JobsTyped, SoundJob, ReadMessages, ReadDelta, EndAsk, OpenStages, Jobs
<1>2. JobsTyped'
  <2>1. CASE ReadMessages(j)
    BY <1>1, <2>1, StageTyped DEF ReadMessages, AskStages, ReaderTyped
  <2>2. CASE ReadDelta(j)
    <3>1. PICK at \in {"second", "end"} : jobs' = Moved(j, at)
      BY <2>2 DEF ReadDelta
    <3> QED
      BY <1>1, <3>1, StageTyped DEF AskStages, ReaderTyped
  <2>3. CASE EndAsk(j)
    BY <2>3, FewerTyped DEF EndAsk, ReaderTyped, JobsTyped
  <2> QED
    BY <2>1, <2>2, <2>3
<1>3. model' \in Screen
  <2>1. last[j.paper] \in Nat
    BY <1>1 DEF ReaderTyped
  <2>6. model.chat \in Seq(Pieces)
    BY DEF ReaderTyped, Screen
  <2>7. <<last[j.paper], "all">> \in Pieces
    BY <2>1 DEF Pieces
  <2>2. ShownBefore(j) \in Seq(Pieces)
    BY <2>6, <2>7 DEF ShownBefore
  <2>3. CASE ReadMessages(j)
    BY <2>2, <2>3 DEF ReadMessages, ReaderTyped, Screen
  <2>4. CASE ReadDelta(j)
    <3>1. <<j.id, j.at>> \in Pieces /\ model.chat \in Seq(Pieces)
      BY <1>1, <2>4 DEF ReadDelta, Pieces, ReaderTyped, Screen
    <3>2. WithDelta(j.id, j.at) \in Seq(Pieces)
      BY <3>1 DEF WithDelta
    <3> QED
      BY <2>4, <3>2 DEF ReadDelta, ReaderTyped, Screen
  <2>5. CASE EndAsk(j)
    BY <2>5 DEF EndAsk, ReaderTyped, Screen
  <2> QED
    BY <2>3, <2>4, <2>5
<1>4. last' \in [Papers -> Nat] /\ \A p \in Papers : last'[p] <= trips["ask"]
  BY <1>1 DEF ReadMessages, ReadDelta, EndAsk, ReaderTyped
<1>5. ReaderTypeOK'
  BY <1>3 DEF ReadMessages, ReadDelta, EndAsk, ReaderTyped, ReaderTypeOK, Screen
<1> QED
  BY <1>2, <1>3, <1>4, <1>5 DEF ReadMessages, ReadDelta, EndAsk, ReaderTyped

LEMMA EndTyped ==
    ASSUME ReaderTyped, (\E j \in jobs : FailJob(j)) \/ KillReader
    PROVE  ReaderTyped'
<1>1. trips' \in [{"open", "ask", "more"} -> Nat] /\ trips'["open"] = trips["open"] /\ trips'["ask"] = trips["ask"]
  BY SpendTyped DEF FailJob, KillReader, ReaderTyped, JobsTyped
<1>2. JobsTyped'
  BY <1>1, FewerTyped DEF FailJob, KillReader, ReaderTyped, JobsTyped
<1>3. model' \in Screen
  <2>1. CASE KillReader
    BY <2>1 DEF KillReader, NoModel, Screen
  <2>2. CASE \E j \in jobs : FailJob(j)
    BY <2>2 DEF FailJob, AfterFailure, ReaderTyped, Screen
  <2> QED
    BY <2>1, <2>2
<1>4. watchers' \in Collectors /\ watchers'.due \subseteq watchers'.on
  BY DEF FailJob, KillReader, ReaderTyped, ReaderTypeOK, Collectors
<1>5. met' \subseteq {"open", "ask", "mark", "shared", "failed"}
  BY DEF FailJob, KillReader, ReaderTyped, ReaderTypeOK
<1>6. ReaderTypeOK'
  BY <1>3, <1>4, <1>5 DEF FailJob, KillReader, ReaderTyped, ReaderTypeOK, Screen, Collectors
<1> QED
  BY <1>1, <1>2, <1>3, <1>4, <1>6 DEF FailJob, KillReader, ReaderTyped

LEMMA TypesStay == ASSUME ReaderTyped, ReaderNext PROVE ReaderTyped'
BY OpenTyped, DownloadTyped, RenderTyped, MarkTyped, AskTyped, AnswerTyped, EndTyped DEF ReaderNext, StepJob

-----------------------------------------------------------------------------
\* Files

(* Nobody comes to a file by what leaves the files alone.                   *)
LEMMA FilesAlone ==
    ASSUME ReaderTyped, FilesApart, UNCHANGED <<cache, disk>>, "shared" \notin met' => "shared" \notin met,
           trips' \in [{"open", "ask", "more"} -> Nat], trips'["open"] >= trips["open"],
           \A k \in jobs' : k \in jobs \/ k.at \notin {"check", "fetch", "write", "rename"}
    PROVE  FilesApart'
<1> SUFFICES ASSUME FilesInOrder PROVE FilesInOrder'
  BY DEF FilesApart
<1>1. \A p \in Papers : cache[p].file \in Nat /\ cache[p].temp \in Nat /\ trips["open"] \in Nat /\ trips'["open"] \in Nat
  BY ReaderAssumption DEF ReaderTyped, Files, Downloads, JobsTyped
<1>2. \A k \in jobs' : Writing(k) => k \in jobs
  BY DEF Writing
<1>3. \A k \in jobs' : k.at \in {"check", "fetch", "rename"} => k \in jobs
  OBVIOUS
<1>4. \A p \in Papers : cache'[p].file <= trips'["open"] /\ cache'[p].temp <= trips'["open"]
  BY <1>1 DEF FilesInOrder
<1> QED
  BY <1>2, <1>3, <1>4 DEF FilesInOrder

LEMMA OpenApart ==
    ASSUME ReaderTyped, FilesApart, NEW p \in Papers, OpenPaper(p)
    PROVE  FilesApart'
<1> SUFFICES ASSUME FilesInOrder PROVE FilesInOrder'
  BY DEF FilesApart, OpenPaper
<1>1. PICK n : n = Job(trips["open"] + 1, "open", p, "check")
  OBVIOUS
<1>2. n.id = trips["open"] + 1 /\ n.at = "check" /\ jobs' = jobs \union {n}
  BY <1>1 DEF Job, OpenPaper
<1>3. \A q \in Papers : cache[q].file \in Nat /\ cache[q].temp \in Nat /\ trips["open"] \in Nat
  BY ReaderAssumption DEF ReaderTyped, Files, Downloads, JobsTyped
<1>4. trips'["open"] = trips["open"] + 1
  BY SpendTyped DEF OpenPaper, ReaderTyped, JobsTyped
<1>5. \A q \in Papers : cache[q].file # n.id /\ cache[q].temp # n.id
  BY <1>2, <1>3 DEF FilesInOrder
<1>6. \A q \in Papers : cache'[q].file <= trips'["open"] /\ cache'[q].temp <= trips'["open"]
  BY <1>3, <1>4 DEF FilesInOrder, OpenPaper
<1> QED
  BY <1>2, <1>5, <1>6 DEF FilesInOrder, OpenPaper, Writing

LEMMA LookApart ==
    ASSUME ReaderTyped, FilesApart, NEW j \in jobs, LookInCache(j), UNCHANGED trips
    PROVE  FilesApart'
<1> SUFFICES ASSUME FilesInOrder PROVE FilesInOrder'
  BY DEF FilesApart, LookInCache
<1>1. j \in Jobs
  BY DEF ReaderTyped, JobsTyped
<1>2. PICK at \in {"render", "fetch"} : jobs' = Moved(j, at)
  BY DEF LookInCache
<1>3. PICK n : n = [j EXCEPT !.at = at]
  OBVIOUS
<1>4. n.id = j.id /\ n.at = at /\ jobs' = (jobs \ {j}) \union {n}
  BY <1>1, <1>2, <1>3 DEF Jobs, Moved
<1>5. \A p \in Papers : cache[p].file # n.id /\ cache[p].temp # n.id
  BY <1>4 DEF FilesInOrder, LookInCache
<1>6. ~Writing(n) /\ n.at # "rename"
  BY <1>4 DEF Writing
<1> QED
  BY <1>4, <1>5, <1>6 DEF FilesInOrder, LookInCache, Writing

LEMMA BeginApart ==
    ASSUME ReaderTyped, FilesApart, NEW j \in jobs, BeginWriting(j), UNCHANGED trips
    PROVE  FilesApart'
<1> SUFFICES ASSUME FilesInOrder, "shared" \notin met' PROVE FilesInOrder'
  BY DEF FilesApart, BeginWriting
<1>1. \A k \in jobs : Writing(k) => k.paper # j.paper
  BY DEF BeginWriting, Writing
<1>2. j \in Jobs /\ j.paper \in Papers /\ j.kind = "open" /\ j.id \in 1..trips["open"] /\ j.id \in Downloads
  BY ReaderAssumption DEF BeginWriting, ReaderTyped, JobsTyped, SoundJob, AskStages, Jobs, Downloads
<1>3. PICK f : f = (IF cache[j.paper].temp # 0 THEN cache[j.paper].temp ELSE j.id)
  OBVIOUS
<1>4. f \in Downloads /\ f # 0 /\ f <= trips["open"] /\ f \in Nat
  BY <1>2, <1>3, ReaderAssumption DEF ReaderTyped, ReaderTypeOK, Downloads, FilesInOrder
<1>5. PICK n : n = [[j EXCEPT !.at = "write"] EXCEPT !.file = f]
  OBVIOUS
<1>6. n.at = "write" /\ n.file = f /\ n.paper = j.paper /\ n.id = j.id
  BY ONLY <1>2, <1>4, <1>5 DEF Jobs
<1>7. jobs' = (jobs \ {j}) \union {n}
  BY <1>3, <1>5 DEF BeginWriting
<1>8. cache' = [cache EXCEPT ![j.paper].temp = f] /\ disk' = [disk EXCEPT ![f] = "part"]
  BY <1>3 DEF BeginWriting
<1>9. /\ \A p \in Papers : cache'[p].file = cache[p].file
      /\ \A p \in Papers : cache'[p].temp = IF p = j.paper THEN f ELSE cache[p].temp
  BY <1>2, <1>8 DEF ReaderTyped, Files
<1>10. \A p \in Papers : cache[p].file # f /\ (p # j.paper => cache[p].temp # f)
  BY <1>2, <1>3, <1>4 DEF FilesInOrder, BeginWriting
<1>11. \A k \in jobs : k.at = "rename" => k.file # f /\ disk'[k.file] = "whole"
  <2> SUFFICES ASSUME NEW k \in jobs, k.at = "rename" PROVE k.file # f /\ disk'[k.file] = "whole"
    OBVIOUS
  <2>1. Writing(k) /\ k.paper \in Papers
    BY DEF Writing, ReaderTyped, JobsTyped, Jobs
  <2>2. k.file = cache[k.paper].temp /\ k.file # 0 /\ disk[k.file] = "whole" /\ k.file # f
    BY <1>1, <1>10, <2>1 DEF FilesInOrder
  <2>3. k.file \in Downloads
    BY <2>1, <2>2 DEF ReaderTyped, ReaderTypeOK
  <2> QED
    BY <1>8, <2>2, <2>3 DEF ReaderTyped
<1>12. \A p \in Papers : cache'[p].file # 0 => disk'[cache'[p].file] = "whole"
  BY <1>8, <1>9, <1>10 DEF FilesInOrder, ReaderTyped, ReaderTypeOK
<1>13. \A k \in jobs \ {j} : k.at \in {"check", "fetch"} => k.id # j.id
  BY <1>2 DEF ReaderTyped, JobsTyped, SoundJob, AskStages
<1>14. \A k \in jobs' : k.at \in {"check", "fetch"} => \A p \in Papers : cache'[p].file # k.id /\ cache'[p].temp # k.id
  BY <1>3, <1>6, <1>7, <1>9, <1>13, <1>2 DEF FilesInOrder
<1>15. \A p, q \in Papers : cache'[p].temp # 0 =>
         cache'[p].temp # cache'[q].file /\ (cache'[p].temp = cache'[q].temp => p = q)
  BY <1>9, <1>10 DEF FilesInOrder
<1>16. \A p \in Papers : cache'[p].file <= trips'["open"] /\ cache'[p].temp <= trips'["open"]
  BY <1>4, <1>9 DEF FilesInOrder
<1>17. \A k \in jobs' : Writing(k) => k.file = cache'[k.paper].temp /\ k.file # 0
  BY <1>1, <1>2, <1>4, <1>6, <1>7, <1>9 DEF FilesInOrder, ReaderTyped, JobsTyped, Jobs
<1>18. \A i, k \in jobs' : Writing(i) /\ Writing(k) /\ i.paper = k.paper => i = k
  BY <1>1, <1>6, <1>7 DEF FilesInOrder
<1>19. \A k \in jobs' : k.at = "rename" => disk'[k.file] = "whole"
  BY <1>6, <1>7, <1>11
<1> QED
  BY <1>12, <1>14, <1>15, <1>16, <1>17, <1>18, <1>19 DEF FilesInOrder, Writing

LEMMA EndApart ==
    ASSUME ReaderTyped, FilesApart, NEW j \in jobs, EndWriting(j), UNCHANGED trips
    PROVE  FilesApart'
<1> SUFFICES ASSUME FilesInOrder PROVE FilesInOrder'
  BY DEF FilesApart, EndWriting
<1>1. j \in Jobs /\ Writing(j) /\ j.paper \in Papers
  BY DEF ReaderTyped, JobsTyped, Jobs, EndWriting, Writing
<1>2. PICK n : n = [j EXCEPT !.at = "rename"]
  OBVIOUS
<1>3. n.at = "rename" /\ n.file = j.file /\ n.paper = j.paper /\ Writing(n) /\ jobs' = (jobs \ {j}) \union {n}
  BY <1>1, <1>2 DEF Jobs, EndWriting, Moved, Writing
<1>4. disk'[j.file] = "whole" /\ \A f : disk[f] = "whole" => disk'[f] = "whole"
  <2>1. j.file \in Downloads
    BY <1>1 DEF FilesInOrder, ReaderTyped, ReaderTypeOK
  <2> QED
    BY <2>1 DEF EndWriting, ReaderTyped
<1>5. \A k \in jobs' : Writing(k) => k.file = cache'[k.paper].temp /\ k.file # 0
  BY <1>1, <1>3 DEF FilesInOrder, EndWriting
<1>6. \A i, k \in jobs' : Writing(i) /\ Writing(k) /\ i.paper = k.paper => i = k
  BY <1>1, <1>3 DEF FilesInOrder
<1>7. \A k \in jobs' : k.at = "rename" => disk'[k.file] = "whole"
  BY <1>3, <1>4 DEF FilesInOrder
<1>8. \A k \in jobs' : k.at \in {"check", "fetch"} => k \in jobs
  BY <1>3
<1> QED
  BY <1>4, <1>5, <1>6, <1>7, <1>8 DEF FilesInOrder, EndWriting, Writing

LEMMA RenameApart ==
    ASSUME ReaderTyped, FilesApart, NEW j \in jobs, Rename(j), UNCHANGED trips
    PROVE  FilesApart'
<1> SUFFICES ASSUME FilesInOrder PROVE FilesInOrder'
  BY DEF FilesApart, Rename
<1>1. j \in Jobs /\ Writing(j) /\ j.paper \in Papers
  BY DEF ReaderTyped, JobsTyped, Jobs, Rename, Writing
<1>2. PICK n : n = [j EXCEPT !.at = "render"]
  OBVIOUS
<1>3. n.at = "render" /\ jobs' = (jobs \ {j}) \union {n}
  BY <1>1, <1>2 DEF Jobs, Rename, Moved
<1>4. j.file = cache[j.paper].temp /\ j.file # 0 /\ disk[j.file] = "whole"
  BY <1>1 DEF FilesInOrder, Rename
<1>5. /\ \A p \in Papers : cache'[p].file = IF p = j.paper THEN j.file ELSE cache[p].file
      /\ \A p \in Papers : cache'[p].temp = IF p = j.paper THEN 0 ELSE cache[p].temp
  BY <1>1, <1>4 DEF Rename, ReaderTyped
<1>6. \A k \in jobs' : Writing(k) => k \in jobs /\ k.paper # j.paper
  BY <1>1, <1>3 DEF FilesInOrder, Writing
<1>7. \A k \in jobs' : k.at \in {"check", "fetch", "rename"} => k \in jobs
  BY <1>3
<1>8. \A k \in jobs' : Writing(k) => k.file = cache'[k.paper].temp /\ k.file # 0
  BY <1>5, <1>6 DEF FilesInOrder, ReaderTyped, JobsTyped, Jobs
<1>9. \A k \in jobs' : k.at \in {"check", "fetch"} => \A p \in Papers : cache'[p].file # k.id /\ cache'[p].temp # k.id
  <2> SUFFICES ASSUME NEW k \in jobs', k.at \in {"check", "fetch"}, NEW p \in Papers
               PROVE  cache'[p].file # k.id /\ cache'[p].temp # k.id
    OBVIOUS
  <2>1. k \in jobs /\ k.id # 0
    BY <1>7 DEF ReaderTyped, JobsTyped, SoundJob
  <2> QED
    BY <1>1, <1>4, <1>5, <2>1 DEF FilesInOrder
<1>10. \A p \in Papers : cache'[p].file # 0 => disk'[cache'[p].file] = "whole"
  BY <1>4, <1>5 DEF FilesInOrder, Rename
<1>11. \A p, q \in Papers : cache'[p].temp # 0 =>
         cache'[p].temp # cache'[q].file /\ (cache'[p].temp = cache'[q].temp => p = q)
  BY <1>1, <1>4, <1>5 DEF FilesInOrder
<1>12. \A p \in Papers : cache'[p].file <= trips'["open"] /\ cache'[p].temp <= trips'["open"]
  BY <1>1, <1>4, <1>5 DEF FilesInOrder, ReaderTyped, JobsTyped
<1>13. \A i, k \in jobs' : Writing(i) /\ Writing(k) /\ i.paper = k.paper => i = k
  BY <1>6 DEF FilesInOrder
<1>14. \A k \in jobs' : k.at = "rename" => disk'[k.file] = "whole"
  BY <1>7 DEF FilesInOrder, Rename
<1> QED
  BY <1>8, <1>9, <1>10, <1>11, <1>12, <1>13, <1>14 DEF FilesInOrder, Writing

LEMMA FilesStay == ASSUME ReaderTyped, FilesApart, ReaderNext PROVE FilesApart'
<1>0. trips \in [{"open", "ask", "more"} -> Nat] /\ trips["open"] \in Nat
  BY DEF ReaderTyped, JobsTyped
<1>1. ASSUME NEW p \in Papers, OpenPaper(p) PROVE FilesApart'
  BY <1>1, OpenApart
<1>2. ASSUME NEW j \in jobs, StepJob(j) PROVE FilesApart'
  <2>0. UNCHANGED trips /\ j \in Jobs
    BY <1>2 DEF StepJob, ReaderTyped, JobsTyped
  <2>1. CASE LookInCache(j) \/ BeginWriting(j) \/ EndWriting(j) \/ Rename(j)
    BY <2>0, <2>1, LookApart, BeginApart, EndApart, RenameApart
  <2>2. CASE Render(j) \/ EndAsk(j)
    <3>1. /\ UNCHANGED <<cache, disk>> /\ jobs' \subseteq jobs
          /\ "shared" \notin met' => "shared" \notin met
      BY <2>2 DEF Render, EndAsk
    <3> QED
      BY <1>0, <2>0, <3>1, FilesAlone
  <2>3. CASE ReadMessages(j) \/ ReadDelta(j)
    <3>1. PICK at \in {"first", "second", "end"} : jobs' = Moved(j, at)
      BY <2>3 DEF ReadMessages, ReadDelta
    <3>2. [j EXCEPT !.at = at].at = at
      BY <2>0 DEF Jobs
    <3>3. \A k \in jobs' : k \in jobs \/ k.at \notin {"check", "fetch", "write", "rename"}
      BY <3>1, <3>2 DEF Moved
    <3>4. UNCHANGED <<cache, disk, met>>
      BY <2>3 DEF ReadMessages, ReadDelta
    <3> QED
      BY <1>0, <2>0, <3>3, <3>4, FilesAlone
  <2> QED
    BY <1>2, <2>1, <2>2, <2>3 DEF StepJob
<1>3. CASE HighlightPage \/ TellWatcher \/ KillReader \/ \E j \in jobs : FailJob(j)
  <2>1. trips' \in [{"open", "ask", "more"} -> Nat] /\ trips'["open"] = trips["open"]
    BY <1>0, <1>3, SpendTyped DEF HighlightPage, TellWatcher, KillReader, FailJob
  <2>2. /\ UNCHANGED <<cache, disk>> /\ jobs' \subseteq jobs
        /\ "shared" \notin met' => "shared" \notin met
    BY <1>3 DEF HighlightPage, TellWatcher, KillReader, FailJob
  <2> QED
    BY <1>0, <2>1, <2>2, FilesAlone
<1>4. CASE AskReader
  <2>1. trips' \in [{"open", "ask", "more"} -> Nat] /\ trips'["open"] >= trips["open"]
    BY <1>0, <1>4, SpendTyped DEF AskReader
  <2>2. Job(trips["ask"] + 1, "ask", model.selected, "messages").at = "messages"
    BY DEF Job
  <2>3. /\ UNCHANGED <<cache, disk>>
        /\ "shared" \notin met' => "shared" \notin met
        /\ \A k \in jobs' : k \in jobs \/ k.at \notin {"check", "fetch", "write", "rename"}
    BY <1>4, <2>2 DEF AskReader
  <2> QED
    BY <2>1, <2>3, FilesAlone
<1> QED
  BY <1>1, <1>2, <1>3, <1>4 DEF ReaderNext

-----------------------------------------------------------------------------
\* Pages and highlights

(* What the title shows: of the model, all but chat and busy.               *)
Title == <<model.selected, model.pages, model.marks>>
TitleComing == PagesComing /\ MarksComing

(* Opens may go on, and others may come and go.                             *)
LEMMA OpensSame ==
    ASSUME TitleComing, UNCHANGED <<Title, watchers>>, met \subseteq met',
           \A k : k \in jobs' /\ Opens(k) <=> k \in jobs /\ Opens(k)
    PROVE  TitleComing'
<1>1. Running("open")' <=> Running("open")
  BY DEF Running, Opens
<1>2. PagesComing'
  BY <1>1 DEF TitleComing, PagesComing, Title
<1>3. MarksComing'
  BY <1>1 DEF TitleComing, MarksComing, Title
<1> QED
  BY <1>2, <1>3 DEF TitleComing

LEMMA OpensMoved ==
    ASSUME TitleComing, UNCHANGED <<Title, watchers>>, met \subseteq met',
           NEW j \in jobs, NEW n, n.kind = j.kind, n.paper = j.paper, jobs' = (jobs \ {j}) \union {n}
    PROVE  TitleComing'
<1>1. Running("open") => Running("open")'
  BY DEF Running
<1>2. PagesComing'
  <2> SUFFICES ASSUME met' \intersect {"open", "failed"} = {}
               PROVE  /\ \A i, k \in jobs' : Opens(i) /\ Opens(k) => i = k
                      /\ \A i \in jobs' : Opens(i) => i.paper = model'.selected
                      /\ model'.selected # Nothing /\ ~Running("open")' => model'.pages = model'.selected
    BY DEF PagesComing, Opens
  <2>1. /\ \A i, k \in jobs : Opens(i) /\ Opens(k) => i = k
        /\ \A i \in jobs : Opens(i) => i.paper = model.selected
        /\ model.selected # Nothing /\ ~Running("open") => model.pages = model.selected
    BY DEF TitleComing, PagesComing
  <2> QED
    BY <1>1, <2>1 DEF Opens, Title
<1>3. MarksComing'
  BY <1>1 DEF TitleComing, MarksComing, Title
<1> QED
  BY <1>2, <1>3 DEF TitleComing

LEMMA OpenTitle ==
    ASSUME ReaderTyped, TitleComing, NEW p \in Papers, OpenPaper(p)
    PROVE  TitleComing'
<1>1. PICK n : n = Job(trips["open"] + 1, "open", p, "check")
  OBVIOUS
<1>2. n.kind = "open" /\ n.paper = p /\ jobs' = jobs \union {n} /\ Running("open")'
  BY <1>1 DEF Job, OpenPaper, Running
<1>3. model'.selected = p
  BY DEF OpenPaper
<1>4. CASE jobs = {} /\ watchers.due = {}
  <2>1. PagesComing'
    BY <1>2, <1>3, <1>4 DEF PagesComing, Opens
  <2>2. MarksComing'
    BY <1>2, <1>4 DEF MarksComing, OpenPaper
  <2> QED
    BY <2>1, <2>2 DEF TitleComing
<1>5. CASE ~(jobs = {} /\ watchers.due = {})
  <2>1. met' = met \union {what \in {"open", "ask"} : Running(what)} \union (IF watchers.due # {} THEN {"mark"} ELSE {})
    BY <1>5 DEF OpenPaper
  <2>2. Running("open") => "open" \in met'
    BY <2>1
  <2>3. PagesComing'
    <3> SUFFICES ASSUME ~Running("open") PROVE PagesComing'
      BY <2>2 DEF PagesComing
    <3>1. \A k \in jobs : ~Opens(k)
      BY DEF Running, Opens
    <3> QED
      BY <1>2, <1>3, <3>1 DEF PagesComing, Opens
  <2>4. watchers.due # {} => "mark" \in met'
    BY <2>1
  <2>5. MarksComing'
    BY <1>2, <2>4 DEF MarksComing, OpenPaper
  <2> QED
    BY <2>3, <2>5 DEF TitleComing
<1> QED
  BY <1>4, <1>5

LEMMA RenderTitle ==
    ASSUME ReaderTyped, TitleComing, NEW j \in jobs, Render(j)
    PROVE  TitleComing'
<1>1. j.kind = "open" /\ Opens(j) /\ j.paper \in Papers
  BY DEF Render, ReaderTyped, JobsTyped, SoundJob, AskStages, Opens, Jobs
<1> SUFFICES ASSUME met' \intersect {"open", "failed"} = {} PROVE TitleComing'
  BY DEF TitleComing, PagesComing, MarksComing
<1>2. met \intersect {"open", "failed"} = {} /\ Readable(j.paper) /\ met' = met
  BY DEF Render
<1>3. model'.selected = model.selected /\ model'.pages = j.paper /\ model'.marks = model.marks
  BY <1>2 DEF Render, Renderer, ReaderTyped, Screen
<1>4. watchers'.due = watchers.due \union {j.paper}
  BY <1>2 DEF Render, Watched
<1>5. j.paper = model.selected /\ jobs' = jobs \ {j} /\ \A k \in jobs' : ~Opens(k)
  BY <1>1, <1>2 DEF Render, TitleComing, PagesComing
<1>6. PagesComing'
  BY <1>3, <1>5 DEF PagesComing
<1>7. MarksComing'
  BY <1>2, <1>3, <1>4, <1>5 DEF TitleComing, MarksComing
<1> QED
  BY <1>6, <1>7 DEF TitleComing

LEMMA HighlightTitle ==
    ASSUME ReaderTyped, TitleComing, HighlightPage
    PROVE  TitleComing'
<1>1. PagesComing'
  BY DEF HighlightPage, TitleComing, PagesComing, Running
<1>2. MarksComing'
  <2> SUFFICES ASSUME met' \intersect {"open", "failed", "mark"} = {} PROVE MarksComing'
    BY DEF MarksComing
  <2>1. watchers.on \subseteq {model.selected} /\ met' = met
    BY DEF HighlightPage
  <2>2. watchers'.due = watchers.on /\ watchers.due \subseteq watchers.on
    BY DEF HighlightPage, ReaderTyped, ReaderTypeOK, Collectors
  <2> QED
    BY <2>1, <2>2 DEF HighlightPage, TitleComing, MarksComing, Running
<1> QED
  BY <1>1, <1>2 DEF TitleComing

LEMMA TellTitle ==
    ASSUME ReaderTyped, TitleComing, TellWatcher
    PROVE  TitleComing'
<1>1. PICK p \in watchers.due : model' = [model EXCEPT !.marks = p] /\ watchers' = [watchers EXCEPT !.due = @ \ {p}]
  BY DEF TellWatcher
<1>2. model'.selected = model.selected /\ model'.pages = model.pages /\ model'.marks = p /\ watchers'.due = watchers.due \ {p}
  BY <1>1 DEF ReaderTyped, Screen, Collectors
<1>3. PagesComing'
  BY <1>2 DEF TellWatcher, TitleComing, PagesComing, Running
<1>4. MarksComing'
  BY <1>2 DEF TellWatcher, TitleComing, MarksComing, Running
<1> QED
  BY <1>3, <1>4 DEF TitleComing

LEMMA TitleStays == ASSUME ReaderTyped, TitleComing, ReaderNext PROVE TitleComing'
<1>1. ASSUME NEW p \in Papers, OpenPaper(p) PROVE TitleComing'
  BY <1>1, OpenTitle
<1>2. ASSUME NEW j \in jobs, StepJob(j) PROVE TitleComing'
  <2>0. j \in Jobs /\ SoundJob(j) /\ model \in Screen
    BY DEF ReaderTyped, JobsTyped
  <2>1. CASE LookInCache(j) \/ BeginWriting(j) \/ EndWriting(j) \/ Rename(j) \/ ReadMessages(j) \/ ReadDelta(j)
    <3>1. UNCHANGED <<Title, watchers>> /\ met \subseteq met'
      BY <2>0, <2>1 DEF LookInCache, BeginWriting, EndWriting, Rename, ReadMessages, ReadDelta, Title, Screen
    <3>2. \E n : n.kind = j.kind /\ n.paper = j.paper /\ jobs' = (jobs \ {j}) \union {n}
      <4>1. CASE BeginWriting(j)
        <5>1. PICK f \in Nat : jobs' = (jobs \ {j}) \union {[[j EXCEPT !.at = "write"] EXCEPT !.file = f]}
          <6>1. cache[j.paper].temp \in Nat /\ j.id \in Nat
            BY <2>0, ReaderAssumption DEF ReaderTyped, Jobs, Files, Downloads
          <6> QED
            BY <4>1, <6>1 DEF BeginWriting
        <5>2. PICK n : n = [[j EXCEPT !.at = "write"] EXCEPT !.file = f]
          OBVIOUS
        <5>3. n.kind = j.kind /\ n.paper = j.paper
          BY ONLY <2>0, <5>2 DEF Jobs
        <5> QED
          BY <5>1, <5>2, <5>3
      <4>2. CASE LookInCache(j) \/ EndWriting(j) \/ Rename(j) \/ ReadMessages(j) \/ ReadDelta(j)
        <5>1. PICK at \in OpenStages \union AskStages : jobs' = Moved(j, at)
          BY <4>2 DEF LookInCache, EndWriting, Rename, ReadMessages, ReadDelta, OpenStages, AskStages
        <5>2. PICK n : n = [j EXCEPT !.at = at]
          OBVIOUS
        <5>3. n.kind = j.kind /\ n.paper = j.paper
          BY <2>0, <5>2 DEF Jobs
        <5> QED
          BY <5>1, <5>2, <5>3 DEF Moved
      <4> QED
        BY <2>1, <4>1, <4>2
    <3> QED
      BY <3>1, <3>2, OpensMoved
  <2>2. CASE Render(j)
    BY <2>2, RenderTitle
  <2>3. CASE EndAsk(j)
    <3>1. UNCHANGED <<Title, watchers>> /\ met \subseteq met'
      BY <2>0, <2>3 DEF EndAsk, Title, Screen
    <3>2. ~Opens(j) /\ jobs' = jobs \ {j}
      BY <2>0, <2>3 DEF EndAsk, SoundJob, OpenStages, Opens
    <3> QED
      BY <3>1, <3>2, OpensSame
  <2> QED
    BY <1>2, <2>1, <2>2, <2>3 DEF StepJob
<1>3. ASSUME NEW j \in jobs, FailJob(j) PROVE TitleComing'
  BY <1>3 DEF FailJob, TitleComing, PagesComing, MarksComing
<1>4. CASE HighlightPage \/ TellWatcher
  BY <1>4, HighlightTitle, TellTitle
<1>5. CASE AskReader
  <2>1. UNCHANGED <<Title, watchers>> /\ met \subseteq met'
    <3>1. PICK m : m = [model EXCEPT !.chat = <<>>]
      OBVIOUS
    <3>2. model' = [m EXCEPT !.busy = TRUE]
      BY <1>5, <3>1 DEF AskReader
    <3> QED
      BY <1>5, <3>1, <3>2 DEF AskReader, Title, ReaderTyped, Screen
  <2>2. PICK n : n = Job(trips["ask"] + 1, "ask", model.selected, "messages")
    OBVIOUS
  <2>3. ~Opens(n) /\ jobs' = jobs \union {n}
    BY <1>5, <2>2 DEF AskReader, Job, Opens
  <2> QED
    BY <2>1, <2>3, OpensSame
<1>6. CASE KillReader
  BY <1>6 DEF KillReader, NoModel, TitleComing, PagesComing, MarksComing
<1> QED
  BY <1>1, <1>2, <1>3, <1>4, <1>5, <1>6 DEF ReaderNext

-----------------------------------------------------------------------------
\* The chat

LEMMA AsksAlone ==
    ASSUME AnswerComing, model'.selected = model.selected, model'.chat = model.chat, UNCHANGED last, met \subseteq met',
           \A k : k \in jobs' /\ Asks(k) <=> k \in jobs /\ Asks(k)
    PROVE  AnswerComing'
<1>1. Running("ask")' <=> Running("ask")
  BY DEF Running, Asks
<1> SUFFICES ASSUME met' \intersect {"ask", "failed"} = {} PROVE AnswerComing'
  BY DEF AnswerComing
<1>2. met \intersect {"ask", "failed"} = {}
  OBVIOUS
<1>3. \A k \in jobs' : Asks(k) => k.paper = model'.selected /\ ChatAt(k.at, model'.chat, k.id) /\ \A p \in Papers : last'[p] < k.id
  BY <1>2 DEF AnswerComing
<1>4. \A i, k \in jobs' : Asks(i) /\ Asks(k) => i = k
  BY <1>2 DEF AnswerComing
<1>5. model'.selected # Nothing /\ ~Running("ask")' => model'.chat = <<>> \/ ChatAt("end", model'.chat, last'[model'.selected])
  BY <1>1, <1>2 DEF AnswerComing
<1> QED
  BY <1>3, <1>4, <1>5 DEF AnswerComing, ChatAt, Before, Asks

LEMMA OpenAnswer ==
    ASSUME AnswerComing, NEW p \in Papers, OpenPaper(p)
    PROVE  AnswerComing'
<1>1. PICK n : n = Job(trips["open"] + 1, "open", p, "check")
  OBVIOUS
<1>2. ~Asks(n) /\ jobs' = jobs \union {n} /\ model'.chat = <<>>
  BY <1>1 DEF Job, OpenPaper, Asks
<1> SUFFICES ASSUME met' \intersect {"ask", "failed"} = {} PROVE AnswerComing'
  BY DEF AnswerComing
<1>3. ~Running("ask")
  BY DEF OpenPaper, Running
<1>4. \A k \in jobs' : ~Asks(k)
  BY <1>2, <1>3 DEF Running, Asks
<1> QED
  BY <1>2, <1>4 DEF AnswerComing, Asks

LEMMA AskAnswer ==
    ASSUME ReaderTyped, AnswerComing, AskReader
    PROVE  AnswerComing'
<1>1. PICK n : n = Job(trips["ask"] + 1, "ask", model.selected, "messages")
  OBVIOUS
<1>2. /\ n.id = trips["ask"] + 1 /\ n.kind = "ask" /\ n.paper = model.selected /\ n.at = "messages"
      /\ jobs' = jobs \union {n}
  BY <1>1 DEF Job, AskReader
<1>3. model'.selected = model.selected /\ model'.chat = <<>>
  <2>1. PICK m : m = [model EXCEPT !.chat = <<>>]
    OBVIOUS
  <2>2. model' = [m EXCEPT !.busy = TRUE]
    BY <2>1 DEF AskReader
  <2> QED
    BY <2>1, <2>2 DEF ReaderTyped, Screen
<1> SUFFICES ASSUME met' \intersect {"ask", "failed"} = {} PROVE AnswerComing'
  BY DEF AnswerComing
<1>4. \A k \in jobs : ~Asks(k)
  BY DEF AskReader, Running, Asks
<1>5. \A p \in Papers : last'[p] < n.id
  BY <1>2 DEF AskReader, ReaderTyped, JobsTyped
<1>6. ChatAt("messages", model'.chat, n.id)
  BY <1>3 DEF ChatAt
<1>7. Running("ask")'
  BY <1>2 DEF Running
<1>8. \A k \in jobs' : Asks(k) => k = n
  BY <1>2, <1>4
<1> QED
  BY <1>2, <1>3, <1>5, <1>6, <1>7, <1>8 DEF AnswerComing, ChatAt, Before, Asks

(* An answer goes on: what is shown becomes what its next stage asks for.   *)
LEMMA AnswerOn ==
    ASSUME ReaderTyped, AnswerComing, NEW j \in jobs, NEW at \in AskStages, Asks(j), jobs' = Moved(j, at),
           model'.selected = model.selected, UNCHANGED <<last, met>>,
           ChatAt(j.at, model.chat, j.id) => ChatAt(at, model'.chat, j.id)
    PROVE  AnswerComing'
<1>1. PICK n : n = [j EXCEPT !.at = at]
  OBVIOUS
<1>2. n.id = j.id /\ n.kind = j.kind /\ n.paper = j.paper /\ n.at = at /\ jobs' = (jobs \ {j}) \union {n}
  BY <1>1 DEF ReaderTyped, JobsTyped, Jobs, Moved
<1> SUFFICES ASSUME met' \intersect {"ask", "failed"} = {} PROVE AnswerComing'
  BY DEF AnswerComing
<1>3. /\ \A k \in jobs : Asks(k) => k = j
      /\ j.paper = model.selected /\ ChatAt(j.at, model.chat, j.id) /\ \A p \in Papers : last[p] < j.id
  BY DEF AnswerComing
<1>4. \A k \in jobs' : Asks(k) => k = n
  BY <1>2, <1>3
<1>5. Running("ask")'
  BY <1>2 DEF Running, Asks
<1>6. n.paper = model'.selected /\ ChatAt(n.at, model'.chat, n.id) /\ \A p \in Papers : last'[p] < n.id
  BY <1>2, <1>3
<1> QED
  BY <1>4, <1>5, <1>6, ZenonT(60) DEF AnswerComing, ChatAt, Before, Asks

LEMMA MessagesAnswer ==
    ASSUME ReaderTyped, AnswerComing, NEW j \in jobs, ReadMessages(j)
    PROVE  AnswerComing'
<1>1. j \in Jobs /\ SoundJob(j) /\ j.at = "messages" /\ Asks(j)
  BY DEF ReaderTyped, JobsTyped, SoundJob, ReadMessages, OpenStages, Asks, Jobs
<1>2. model'.selected = model.selected /\ model'.chat = ShownBefore(j)
  BY DEF ReadMessages, ReaderTyped, Screen
<1>3. last[j.paper] \in Nat
  BY <1>1 DEF ReaderTyped, Jobs
<1> SUFFICES ASSUME met \intersect {"ask", "failed"} = {} PROVE AnswerComing'
  BY DEF AnswerComing, ReadMessages
<1>4. last[j.paper] < j.id
  BY <1>1 DEF AnswerComing, Jobs
<1>5. ChatAt("messages", model.chat, j.id) => ChatAt("first", model'.chat, j.id)
  BY <1>2, <1>3, <1>4 DEF ChatAt, Before, ShownBefore
<1> QED
  BY <1>1, <1>2, <1>5, AnswerOn DEF ReadMessages, AskStages

LEMMA DeltaAnswer ==
    ASSUME ReaderTyped, AnswerComing, NEW j \in jobs, ReadDelta(j)
    PROVE  AnswerComing'
<1>1. j \in Jobs /\ SoundJob(j) /\ Asks(j)
  BY DEF ReaderTyped, JobsTyped, SoundJob, ReadDelta, OpenStages, Asks, Jobs
<1>2. model'.selected = model.selected /\ model'.chat = Append(model.chat, <<j.id, j.at>>) /\ model.chat \in Seq(Pieces)
  BY DEF ReadDelta, WithDelta, ReaderTyped, Screen
<1>3. CASE j.at = "first"
  <2>1. ChatAt("first", model.chat, j.id) => ChatAt("second", model'.chat, j.id)
    BY <1>2, <1>3 DEF ChatAt
  <2>2. jobs' = Moved(j, "second")
    BY <1>3 DEF ReadDelta
  <2> QED
    BY <1>1, <1>2, <1>3, <2>1, <2>2, AnswerOn DEF ReadDelta, AskStages
<1>4. CASE j.at = "second"
  <2>1. ASSUME ChatAt("second", model.chat, j.id) PROVE ChatAt("end", model'.chat, j.id)
    <3>1. PICK b \in Seq(Pieces) : Before(b, j.id) /\ model.chat = Append(b, <<j.id, "first">>)
      BY <2>1 DEF ChatAt
    <3>2. model'.chat = Append(Append(b, <<j.id, "first">>), <<j.id, "second">>)
      BY <1>2, <1>4, <3>1
    <3> QED
      BY <3>1, <3>2 DEF ChatAt
  <2>2. jobs' = Moved(j, "end")
    BY <1>4 DEF ReadDelta
  <2> QED
    BY <1>1, <1>2, <1>4, <2>1, <2>2, AnswerOn DEF ReadDelta, AskStages
<1> QED
  BY <1>3, <1>4 DEF ReadDelta

LEMMA EndAnswer ==
    ASSUME ReaderTyped, AnswerComing, NEW j \in jobs, EndAsk(j)
    PROVE  AnswerComing'
<1>1. j \in Jobs /\ SoundJob(j) /\ j.at = "end" /\ Asks(j) /\ j.paper \in Papers
  BY DEF ReaderTyped, JobsTyped, SoundJob, EndAsk, OpenStages, Asks, Jobs
<1>2. model'.selected = model.selected /\ model'.chat = model.chat /\ jobs' = jobs \ {j}
  BY DEF EndAsk, ReaderTyped, Screen
<1> SUFFICES ASSUME met' \intersect {"ask", "failed"} = {} PROVE AnswerComing'
  BY DEF AnswerComing
<1>3. /\ \A k \in jobs : Asks(k) => k = j
      /\ j.paper = model.selected /\ ChatAt("end", model.chat, j.id)
  BY <1>1 DEF AnswerComing, EndAsk
<1>4. \A k \in jobs' : ~Asks(k)
  BY <1>2, <1>3
<1>5. last'[model'.selected] = j.id
  BY <1>1, <1>2, <1>3 DEF EndAsk, ReaderTyped
<1>6. ChatAt("end", model'.chat, last'[model'.selected])
  BY <1>2, <1>3, <1>5
<1> QED
  BY <1>4, <1>6 DEF AnswerComing, ChatAt, Before, Asks

LEMMA AnswerStays == ASSUME ReaderTyped, AnswerComing, ReaderNext PROVE AnswerComing'
<1>1. ASSUME NEW p \in Papers, OpenPaper(p) PROVE AnswerComing'
  BY <1>1, OpenAnswer
<1>2. ASSUME NEW j \in jobs, StepJob(j) PROVE AnswerComing'
  <2>0. j \in Jobs /\ SoundJob(j) /\ model \in Screen
    BY DEF ReaderTyped, JobsTyped
  <2>1. CASE LookInCache(j) \/ BeginWriting(j) \/ EndWriting(j) \/ Rename(j) \/ Render(j)
    <3>1. model'.selected = model.selected /\ model'.chat = model.chat
      <4>1. CASE Render(j) /\ Readable(j.paper)
        <5>1. PICK m : m = [model EXCEPT !.pages = Renderer(j)]
          OBVIOUS
        <5>2. model' = [m EXCEPT !.busy = FALSE]
          BY <4>1, <5>1 DEF Render
        <5> QED
          BY <2>0, <5>1, <5>2 DEF Screen
      <4>2. CASE ~(Render(j) /\ Readable(j.paper))
        BY <2>0, <2>1, <4>2 DEF LookInCache, BeginWriting, EndWriting, Rename, Render, Screen
      <4> QED
        BY <4>1, <4>2
    <3>2. UNCHANGED last /\ met \subseteq met'
      BY <2>1 DEF LookInCache, BeginWriting, EndWriting, Rename, Render
    <3>3. \A k : k \in jobs' /\ Asks(k) <=> k \in jobs /\ Asks(k)
      <4>1. ~Asks(j)
        BY <2>0, <2>1 DEF SoundJob, LookInCache, BeginWriting, EndWriting, Rename, Render, Asks, AskStages
      <4>2. CASE BeginWriting(j)
        <5>1. PICK f \in Nat : jobs' = (jobs \ {j}) \union {[[j EXCEPT !.at = "write"] EXCEPT !.file = f]}
          <6>1. cache[j.paper].temp \in Nat /\ j.id \in Nat
            BY <2>0, ReaderAssumption DEF ReaderTyped, Jobs, Files, Downloads
          <6> QED
            BY <4>2, <6>1 DEF BeginWriting
        <5>2. PICK n : n = [[j EXCEPT !.at = "write"] EXCEPT !.file = f]
          OBVIOUS
        <5>3. n.kind = j.kind
          BY ONLY <2>0, <5>2 DEF Jobs
        <5> QED
          BY <4>1, <5>1, <5>2, <5>3 DEF Asks
      <4>3. CASE LookInCache(j) \/ EndWriting(j) \/ Rename(j)
        <5>1. PICK at \in OpenStages : jobs' = Moved(j, at)
          BY <4>3 DEF LookInCache, EndWriting, Rename, OpenStages
        <5>2. PICK n : n = [j EXCEPT !.at = at]
          OBVIOUS
        <5>3. n.kind = j.kind
          BY <2>0, <5>2 DEF Jobs
        <5> QED
          BY <4>1, <5>1, <5>2, <5>3 DEF Moved, Asks
      <4>4. CASE Render(j)
        BY <4>1, <4>4 DEF Render
      <4> QED
        BY <2>1, <4>2, <4>3, <4>4
    <3> QED
      BY <3>1, <3>2, <3>3, AsksAlone
  <2>2. CASE ReadMessages(j) \/ ReadDelta(j) \/ EndAsk(j)
    BY <2>2, MessagesAnswer, DeltaAnswer, EndAnswer
  <2> QED
    BY <1>2, <2>1, <2>2 DEF StepJob
<1>3. ASSUME NEW j \in jobs, FailJob(j) PROVE AnswerComing'
  BY <1>3 DEF FailJob, AnswerComing
<1>4. CASE HighlightPage
  BY <1>4, AsksAlone DEF HighlightPage
<1>5. CASE TellWatcher
  <2>1. model'.selected = model.selected /\ model'.chat = model.chat
    BY <1>5 DEF TellWatcher, ReaderTyped, Screen
  <2> QED
    BY <1>5, <2>1, AsksAlone DEF TellWatcher
<1>6. CASE AskReader
  BY <1>6, AskAnswer
<1>7. CASE KillReader
  BY <1>7 DEF KillReader, NoModel, AnswerComing
<1> QED
  BY <1>1, <1>2, <1>3, <1>4, <1>5, <1>6, <1>7 DEF ReaderNext

-----------------------------------------------------------------------------
\* The theorem

LEMMA InvInit == ReaderInit => ReaderInv
<1> SUFFICES ASSUME ReaderInit PROVE ReaderInv
  OBVIOUS
<1>1. JobsTyped
  BY DEF ReaderInit, JobsTyped
<1>2. model \in Screen /\ watchers \in Collectors /\ cache \in [Papers -> Files]
  BY DEF ReaderInit, NoModel, Screen, Collectors, Files
<1>3. ReaderTypeOK
  BY <1>2 DEF ReaderInit, NoModel, ReaderTypeOK
<1>4. ReaderTyped
  BY <1>1, <1>2, <1>3, ReaderAssumption DEF ReaderInit, ReaderTyped
<1>5. FilesApart
  BY DEF ReaderInit, FilesApart, FilesInOrder
<1>6. PagesComing /\ MarksComing /\ AnswerComing
  BY DEF ReaderInit, NoModel, PagesComing, MarksComing, AnswerComing
<1> QED
  BY <1>4, <1>5, <1>6 DEF ReaderInv

LEMMA InvStays == ReaderInv /\ [ReaderNext]_readerVars => ReaderInv'
<1> SUFFICES ASSUME ReaderInv, [ReaderNext]_readerVars PROVE ReaderInv'
  OBVIOUS
<1>1. CASE ReaderNext
  BY <1>1, TypesStay, FilesStay, TitleStays, AnswerStays DEF ReaderInv, TitleComing
<1>2. CASE UNCHANGED readerVars
  <2>1. ReaderTyped'
    BY <1>2 DEF readerVars, ReaderInv, ReaderTyped, ReaderTypeOK, JobsTyped, SoundJob
  <2>2. FilesApart'
    BY <1>2 DEF readerVars, ReaderInv, FilesApart, FilesInOrder
  <2>3. TitleComing'
    BY <1>2, OpensSame DEF readerVars, ReaderInv, TitleComing, Title
  <2>4. AnswerComing'
    BY <1>2, AsksAlone DEF readerVars, ReaderInv
  <2> QED
    BY <2>1, <2>2, <2>3, <2>4 DEF ReaderInv, TitleComing
<1> QED
  BY <1>1, <1>2

LEMMA WholeAnswer ==
    ASSUME NEW chat, NEW q \in Nat, ChatAt("end", chat, q)
    PROVE  LET n == Len(chat)
           IN  /\ n \in {2, 3} /\ SubSeq(chat, n - 1, n) = <<<<q, "first">>, <<q, "second">>>>
               /\ n = 3 => chat[1][2] = "all" /\ chat[1][1] < q
<1>1. PICK b \in Seq(Pieces) : Before(b, q) /\ chat = Append(Append(b, <<q, "first">>), <<q, "second">>)
  BY DEF ChatAt
<1>2. PICK x, y : x = <<q, "first">> /\ y = <<q, "second">>
  OBVIOUS
<1>3. x \in Pieces /\ y \in Pieces /\ chat = Append(Append(b, x), y)
  BY <1>1, <1>2 DEF Pieces
<1> HIDE DEF Pieces
<1>4. chat \in Seq(Pieces) /\ Len(chat) = Len(b) + 2 /\ chat[Len(b) + 1] = x /\ chat[Len(b) + 2] = y
  BY ONLY <1>3
<1>5. \A i \in 1..Len(b) : chat[i] = b[i]
  BY ONLY <1>3
<1>6. Len(b) \in {0, 1} /\ (Len(b) = 1 => b[1][2] = "all" /\ b[1][1] < q)
  BY <1>1 DEF Before
<1>7. SubSeq(chat, Len(b) + 1, Len(b) + 2) = <<x, y>>
  <2>1. PICK m : m = Len(b) + 1 /\ m \in Int /\ chat[m] = x /\ chat[m + 1] = y
    BY <1>4, <1>6
  <2>2. \A i \in m..(m + 1) : chat[i] \in Pieces
    BY <1>3, <2>1
  <2>3. PICK s : s = SubSeq(chat, m, m + 1)
    OBVIOUS
  <2>4. s \in Seq(Pieces) /\ Len(s) = 2 /\ \A i \in 1..2 : s[i] = chat[m + i - 1]
    BY <2>1, <2>2, <2>3, SubSeqProperties
  <2>5. s[1] = x /\ s[2] = y
    BY ONLY <2>1, <2>4
  <2>6. s = <<x, y>>
    BY ONLY <1>3, <2>4, <2>5, SeqEqual
  <2>7. m + 1 = Len(b) + 2
    BY <1>6, <2>1
  <2> QED
    BY ONLY <2>1, <2>3, <2>6, <2>7, Zenon
<1> QED
  BY <1>2, <1>4, <1>5, <1>6, <1>7

LEMMA InvSound == ReaderInv => ReaderSound
<1> SUFFICES ASSUME ReaderInv PROVE ReaderSound
  OBVIOUS
<1>1. AtRest => ~Running("open") /\ ~Running("ask") /\ model.selected # Nothing /\ watchers.due = {}
  BY DEF AtRest, Running
<1>2. PagesOfTitle
  BY <1>1 DEF PagesOfTitle, ReaderInv, PagesComing
<1>3. MarksOfTitle
  BY <1>1 DEF MarksOfTitle, ReaderInv, MarksComing
<1>4. ChatEndsWithAnswer
  <2> SUFFICES ASSUME AtRest, met \intersect {"ask", "failed"} = {}, model.chat # <<>>
               PROVE  LET q == last[model.selected]
                          n == Len(model.chat)
                      IN  /\ n \in {2, 3} /\ SubSeq(model.chat, n - 1, n) = <<<<q, "first">>, <<q, "second">>>>
                          /\ n = 3 => model.chat[1][2] = "all" /\ model.chat[1][1] < q
    BY DEF ChatEndsWithAnswer
  <2>1. ChatAt("end", model.chat, last[model.selected])
    BY <1>1 DEF ReaderInv, AnswerComing
  <2>2. model.selected \in Papers /\ last[model.selected] \in Nat
    BY <1>1 DEF ReaderInv, ReaderTyped, ReaderTypeOK
  <2> QED
    BY <2>1, <2>2, WholeAnswer
<1>5. FilesWhole
  BY DEF FilesWhole, ReaderInv, FilesApart, FilesInOrder
<1> QED
  BY <1>2, <1>3, <1>4, <1>5 DEF ReaderSound, ReaderInv, ReaderTyped

(* For any documents and any bound on what the user and the network do: at   *)
(* rest the reader's pages, highlights and chat are those of the document in *)
(* the title, and a cached file is whole, but for what ran side by side.     *)
THEOREM ReaderAlwaysSound == ReaderSpec => []ReaderSound
<1>1. ReaderSpec => []ReaderInv
  BY InvInit, InvStays, PTL DEF ReaderSpec
<1> QED
  BY <1>1, InvSound, PTL

-----------------------------------------------------------------------------
\* ChatViews: the invariant

Items == [role : {"user", "assistant"}, q : Questions, state : {"none", "asked", "pending", "completed", "failed"}]
Loads == {"list", "create", "rows"}
Streams == {"ask", "stream"}
Links == [c : Clients \union {"nobody"}, kind : Loads \union Streams, thread : {0} \union Threads,
          q : {0} \union Questions, for : {"view", "send", "left"}, limit : Nat, answer : {"none", "ok"},
          found : Seq(Items), more : BOOLEAN, late : BOOLEAN]
PageRecords == [open : BOOLEAN, thread : {0} \union Threads, limit : PageSize..PageCap, sending : {0} \union Questions]
CachedWindows == [had : BOOLEAN, old : BOOLEAN, late : BOOLEAN, rows : Seq(Items), more : BOOLEAN]
Posts == {"user", "assistant"} \X Questions

(* Messages come in pairs, a question before its answer.                     *)
Even(n) == \E h \in Nat : n = 2 * h
PairedPosts(s) ==
    \E m \in Nat : Len(s) = 2 * m /\ \A k \in 1..m :
        s[2 * k - 1][1] = "user" /\ s[2 * k][1] = "assistant" /\ s[2 * k - 1][2] = s[2 * k][2]
PairedRows(s) ==
    \E m \in Nat : Len(s) = 2 * m /\ \A k \in 1..m :
        s[2 * k - 1].role = "user" /\ s[2 * k].role = "assistant" /\ s[2 * k - 1].q = s[2 * k].q

SoundLink(r) ==
    /\ r.kind \in Streams => r.thread \in Threads /\ r.q \in Questions /\ r.for \in {"send", "left"}
    /\ r.kind \in Loads => r.q = 0 /\ r.for \in {"view", "send"}
    /\ r.kind = "rows" => r.thread \in Threads /\ r.limit \in PageSize..PageCap /\ Even(r.limit) /\ PairedRows(r.found)
    /\ r.kind = "create" /\ r.answer = "ok" => r.thread \in Threads
    /\ r.late => r.c # "ios"
TypedLink(r) == r \in Links /\ SoundLink(r)

LinksTyped == \A r \in links : TypedLink(r)
PostsTyped == posts \in [Threads -> Seq(Posts)] /\ \A t \in Threads : PairedPosts(posts[t])
PageTyped == page \in [Clients -> PageRecords] /\ \A c \in Clients : Even(page[c].limit)
WindowsTyped ==
    /\ windows \in [Clients -> [PageSize..PageCap -> CachedWindows]]
    /\ \A c \in Clients : \A l \in PageSize..PageCap :
         /\ PairedRows(windows[c][l].rows)
         /\ windows[c][l].had => page[c].thread # 0
         /\ windows[c][l].more => windows[c][l].had
PlainTyped ==
    /\ threads \in Seq(Threads) /\ sender \in [Questions -> Clients \union {"nobody"}]
    /\ state \in [Questions -> {"none", "asked", "pending", "completed", "failed"}]
    /\ strained \subseteq Clients /\ overlaps \in Nat

(* A client that loads messages or asks is in a conversation.               *)
InThread == \A r \in links : r.c \in Clients /\ r.kind \in {"rows"} \union Streams => page[r.c].thread # 0

ChatTyped == LinksTyped /\ PostsTyped /\ PageTyped /\ WindowsTyped /\ PlainTyped /\ InThread

(* A conversation there is, and a call that will make one, are the first or  *)
(* came of two that looked before there was one.                             *)
Makers == {r \in links : (r.kind = "create" /\ r.answer = "none") \/ (r.kind = "list" /\ r.answer = "ok" /\ r.thread = 0)}
CountedMakers == IsFiniteSet(Makers) /\ Len(threads) + Cardinality(Makers) <= 1 + overlaps

(* A view that asks is sending, until it has loaded what the end asks it to  *)
(* load; and it asks one thing at a time.                                    *)
Busy(c) == {r \in Of(c, Streams \union Loads) : r.for = "send"}
OneBusy(c) == (\A r, s \in Busy(c) : r = s) /\ (Busy(c) # {} => page[c].sending # 0)
Sending == \A c \in Clients : OneBusy(c)

(* The browser looks for its conversation once, and for no send.             *)
WebFinds ==
    /\ \A r \in Of("web", Loads) : r.for = "view"
    /\ \A r \in Of("web", {"list", "create"}) : page["web"].thread = 0
    /\ \A r, s \in Of("web", {"list", "create"}) : r = s

(* The iPhone takes nothing with it when its view is left.                   *)
IosOpen ==
    /\ \A r \in Of("ios", Loads \union Streams) : page["ios"].open /\ r.for # "left"
    /\ ~page["ios"].open => page["ios"].thread = 0

(* The question a client sent is followed by nobody else, unless the client  *)
(* lost a call.                                                              *)
OwnFollowed == \A c \in Clients \ strained : \A r \in links : r.q # 0 /\ sender[r.q] = c => r.c = c

(* Rows are the newest of a conversation up to some moment, with nothing of  *)
(* the client's own since, and its own as they are now.                      *)
Fresh(c, t, rows, limit) ==
    \E n \in 0..Len(posts[t]) :
      /\ [i \in DOMAIN rows |-> <<rows[i].role, rows[i].q>>] = NewestOf(SubSeq(posts[t], 1, n), limit)
      /\ \A i \in (n + 1)..Len(posts[t]) : sender[posts[t][i][2]] # c
      /\ \A i \in DOMAIN rows : sender[rows[i].q] = c => rows[i].state = state[rows[i].q]

(* An answer under way is of the conversation and, but for late ones, fresh. *)
RowsComing(c) ==
    \A r \in Of(c, {"rows"}) :
      /\ r.thread = page[c].thread
      /\ c = "ios" /\ r.limit # page["ios"].limit => Of("ios", {"list", "create"}) # {}
      /\ r.answer = "ok" /\ ~r.late => Of(c, Streams) # {} \/ Fresh(c, r.thread, r.found, r.limit)

(* A window of the browser is fresh, or known not to be; the one on the      *)
(* screen is there and valid, or being fetched.                              *)
WebComing ==
    /\ page["web"].open /\ page["web"].thread # 0 /\ FetchesOf(page["web"].limit) = {} =>
         windows["web"][page["web"].limit].had /\ ~windows["web"][page["web"].limit].old
    /\ \A l \in PageSize..PageCap :
         windows["web"][l].had =>
           \/ windows["web"][l].old \/ windows["web"][l].late
           \/ Of("web", Streams) # {}
           \/ Fresh("web", page["web"].thread, windows["web"][l].rows, l)

(* What the iPhone shows is fresh, or something under way will make it so.   *)
IosComing ==
    page["ios"].open /\ page["ios"].thread # 0 =>
        \/ Loading("ios") # {} \/ Of("ios", Streams) # {}
        \/ /\ windows["ios"][PageSize].had /\ ~windows["ios"][PageSize].late
           /\ Fresh("ios", page["ios"].thread, windows["ios"][PageSize].rows, page["ios"].limit)

WindowComing(c) == RowsComing(c) /\ (c = "web" => WebComing) /\ (c = "ios" => IosComing)
WindowsComing == \A c \in Clients \ strained : WindowComing(c)

(* Every action keeps each part: the lemmas Typed..., Makers..., Views...,   *)
(* Followed... and Windows... say so of one action or one kind of action.    *)
ChatInv == ChatTyped /\ CountedMakers /\ Sending /\ WebFinds /\ IosOpen /\ OwnFollowed /\ WindowsComing

-----------------------------------------------------------------------------
\* Messages in pairs

(* Windows hold a question with its answer.                                 *)
LEMMA EvenPages == Even(PageSize) /\ Even(PageCap)
<1>1. PageSize = 2 * (PageSize \div 2) /\ PageSize \div 2 \in Nat
  BY ChatViewsAssumption
<1>2. PageCap = 2 * (PageCap \div 2) /\ PageCap \div 2 \in Nat
  BY ChatViewsAssumption
<1> QED
  BY <1>1, <1>2 DEF Even

(* The newest n of a sequence are its last elements, in their order.         *)
LEMMA Newest ==
    ASSUME NEW S, NEW s \in Seq(S), NEW n \in Nat,
           NEW k \in Nat, k = IF Len(s) <= n THEN 0 ELSE Len(s) - n
    PROVE  /\ NewestOf(s, n) \in Seq(S) /\ Len(NewestOf(s, n)) = Len(s) - k
           /\ \A i \in 1..(Len(s) - k) : NewestOf(s, n)[i] = s[k + i]
<1>1. CASE Len(s) <= n
  BY <1>1 DEF NewestOf
<1>2. CASE ~(Len(s) <= n)
  <2>1. PICK m \in Nat : m = Len(s) - n /\ m + n = Len(s) /\ m # 0
    BY <1>2
  <2>2. \A i \in (m + 1)..Len(s) : s[i] \in S
    BY <2>1
  <2>3. PICK w : w = SubSeq(s, m + 1, Len(s))
    OBVIOUS
  <2>4. w \in Seq(S) /\ Len(w) = n /\ \A i \in 1..n : w[i] = s[m + i]
    <3>1. /\ w \in Seq(S) /\ Len(w) = (IF m + 1 <= Len(s) THEN Len(s) - (m + 1) + 1 ELSE 0)
          /\ \A i \in 1..(Len(s) - (m + 1) + 1) : w[i] = s[m + 1 + i - 1]
      BY <2>1, <2>2, <2>3, SubSeqProperties
    <3>2. PICK l \in Nat : l = Len(s) /\ l = m + n
      <4>1. Len(s) \in Nat /\ Len(s) = m + n
        BY <2>1
      <4> QED
        BY ONLY <4>1
    <3>3. (IF m + 1 <= l THEN l - (m + 1) + 1 ELSE 0) = n /\ l - (m + 1) + 1 = n /\ \A i \in 1..n : m + 1 + i - 1 = m + i
      BY ONLY <3>2, m \in Nat, n \in Nat
    <3> QED
      BY ONLY <3>1, <3>2, <3>3
  <2>5. NewestOf(s, n) = w
    BY <1>2, <2>1, <2>3 DEF NewestOf
  <2> QED
    BY <1>2, <2>1, <2>4, <2>5
<1> QED
  BY <1>1, <1>2

(* An even number of the newest of pairs are pairs.                          *)
LEMMA NewestPaired ==
    ASSUME NEW s \in Seq(Posts), PairedPosts(s), NEW n \in Nat, Even(n)
    PROVE  NewestOf(s, n) \in Seq(Posts) /\ PairedPosts(NewestOf(s, n))
<1>1. PICK m \in Nat : Len(s) = 2 * m /\ \A k \in 1..m :
        s[2 * k - 1][1] = "user" /\ s[2 * k][1] = "assistant" /\ s[2 * k - 1][2] = s[2 * k][2]
  BY DEF PairedPosts
<1>2. PICK h \in Nat : n = 2 * h
  BY DEF Even
<1>3. PICK g \in Nat : g = (IF m <= h THEN 0 ELSE m - h) /\ g <= m
  <2>1. (IF m <= h THEN 0 ELSE m - h) \in Nat /\ (IF m <= h THEN 0 ELSE m - h) <= m
    OBVIOUS
  <2> QED
    BY <2>1
<1>4. PICK w : w = NewestOf(s, n)
  OBVIOUS
<1>5. w \in Seq(Posts) /\ Len(w) = 2 * (m - g) /\ \A i \in 1..(2 * (m - g)) : w[i] = s[2 * g + i]
  <2>1. Len(s) <= n <=> m <= h
    BY <1>1, <1>2
  <2>2. (IF Len(s) <= n THEN 0 ELSE Len(s) - n) = 2 * g /\ Len(s) - 2 * g = 2 * (m - g)
    BY <1>1, <1>2, <1>3, <2>1
  <2>3. PICK k : k = (IF Len(s) <= n THEN 0 ELSE Len(s) - n) /\ k = 2 * g /\ Len(s) - k = 2 * (m - g)
    BY <2>2
  <2>4. w \in Seq(Posts) /\ Len(w) = Len(s) - k /\ \A i \in 1..(Len(s) - k) : w[i] = s[k + i]
    <3> HIDE DEF Posts
    <3> QED
      <4>1. k \in Nat
        BY <1>3, <2>3
      <4> QED
        BY <1>4, <2>3, <4>1, Newest, ZenonT(60)
  <2> QED
    BY <2>3, <2>4
<1>6. ASSUME NEW k \in 1..(m - g)
      PROVE  w[2 * k - 1][1] = "user" /\ w[2 * k][1] = "assistant" /\ w[2 * k - 1][2] = w[2 * k][2]
  <2>1. g + k \in 1..m /\ 2 * k - 1 \in 1..(2 * (m - g)) /\ 2 * k \in 1..(2 * (m - g))
    BY <1>3
  <2>2. w[2 * k - 1] = s[2 * g + (2 * k - 1)] /\ w[2 * k] = s[2 * g + 2 * k]
    BY <1>5, <2>1
  <2>3. 2 * g + (2 * k - 1) = 2 * (g + k) - 1 /\ 2 * g + 2 * k = 2 * (g + k)
    BY <1>3
  <2> QED
    BY <1>1, <2>1, <2>2, <2>3
<1>7. m - g \in Nat
  BY <1>3
<1> QED
  BY <1>4, <1>5, <1>6, <1>7 DEF PairedPosts

(* What the API tells of messages are those messages, with what is theirs   *)
(* by now.                                                                  *)
Ids(rows) == [i \in DOMAIN rows |-> <<rows[i].role, rows[i].q>>]

LEMMA ToldRows ==
    ASSUME PlainTyped, NEW s \in Seq(Posts)
    PROVE  /\ Told(s) \in Seq(Items) /\ Ids(Told(s)) = s /\ (PairedPosts(s) => PairedRows(Told(s)))
           /\ \A i \in DOMAIN Told(s) : Told(s)[i].state = state[Told(s)[i].q]
<1>1. PICK w : w = Told(s)
  OBVIOUS
<1>2. DOMAIN s = 1..Len(s) /\ Len(s) \in Nat /\ \A i \in 1..Len(s) : s[i] \in Posts
  OBVIOUS
<1>3. DOMAIN w = 1..Len(s) /\ \A i \in 1..Len(s) : w[i] = [role |-> s[i][1], q |-> s[i][2], state |-> state[s[i][2]]]
  BY <1>1, <1>2 DEF Told
<1>4. \A i \in 1..Len(s) : w[i] \in Items /\ w[i].role = s[i][1] /\ w[i].q = s[i][2] /\ w[i].state = state[s[i][2]]
  BY <1>2, <1>3 DEF Items, Posts, PlainTyped
<1>5. w \in Seq(Items) /\ Len(w) = Len(s)
  <2>1. w = [i \in 1..Len(s) |-> w[i]]
    BY <1>1, <1>2, <1>3 DEF Told
  <2> QED
    BY <1>2, <1>4, <2>1
<1>6. Ids(w) = s
  <2>1. \A i \in 1..Len(s) : <<w[i].role, w[i].q>> = s[i]
    BY <1>2, <1>4 DEF Posts
  <2>2. s = [i \in 1..Len(s) |-> s[i]]
    BY <1>2
  <2> QED
    BY <1>3, <2>1, <2>2 DEF Ids
<1>7. ASSUME PairedPosts(s) PROVE PairedRows(w)
  <2>1. PICK m \in Nat : Len(s) = 2 * m /\ \A k \in 1..m :
        s[2 * k - 1][1] = "user" /\ s[2 * k][1] = "assistant" /\ s[2 * k - 1][2] = s[2 * k][2]
    BY <1>7 DEF PairedPosts
  <2>2. \A k \in 1..m : 2 * k - 1 \in 1..Len(s) /\ 2 * k \in 1..Len(s)
    BY <2>1
  <2> QED
    BY <1>4, <1>5, <2>1, <2>2 DEF PairedRows
<1> QED
  BY <1>1, <1>3, <1>4, <1>5, <1>6, <1>7

(* A question stored with its answer is one pair more.                       *)
LEMMA PairAdded ==
    ASSUME NEW s \in Seq(Posts), PairedPosts(s), NEW q \in Questions,
           NEW w, w = s \o <<<<"user", q>>, <<"assistant", q>>>>
    PROVE  w \in Seq(Posts) /\ PairedPosts(w)
<1>1. PICK m \in Nat : Len(s) = 2 * m /\ \A k \in 1..m :
        s[2 * k - 1][1] = "user" /\ s[2 * k][1] = "assistant" /\ s[2 * k - 1][2] = s[2 * k][2]
  BY DEF PairedPosts
<1>2. PICK x, y : x = <<"user", q>> /\ y = <<"assistant", q>>
  OBVIOUS
<1>3. x \in Posts /\ y \in Posts /\ x[1] = "user" /\ y[1] = "assistant" /\ x[2] = y[2] /\ w = s \o <<x, y>>
  BY <1>2 DEF Posts
<1>4. w \in Seq(Posts) /\ Len(w) = 2 * (m + 1) /\ w[2 * m + 1] = x /\ w[2 * m + 2] = y /\ \A i \in 1..(2 * m) : w[i] = s[i]
  <2> HIDE DEF Posts
  <2>1. <<x, y>> \in Seq(Posts) /\ Len(<<x, y>>) = 2 /\ <<x, y>>[1] = x /\ <<x, y>>[2] = y
    BY ONLY <1>3
  <2>2. PICK z \in Seq(Posts) : z = <<x, y>> /\ Len(z) = 2 /\ z[1] = x /\ z[2] = y
    BY <2>1
  <2>3. w = s \o z
    BY <1>3, <2>2
  <2>4. /\ w \in Seq(Posts) /\ Len(w) = Len(s) + 2
        /\ \A i \in 1..(Len(s) + 2) : w[i] = IF i <= Len(s) THEN s[i] ELSE z[i - Len(s)]
    BY ONLY <2>2, <2>3, ConcatProperties
  <2>5. Len(s) = 2 * m /\ 2 * m + 1 \in 1..(2 * m + 2) /\ 2 * m + 2 \in 1..(2 * m + 2)
        /\ ~(2 * m + 1 <= 2 * m) /\ ~(2 * m + 2 <= 2 * m) /\ 2 * m + 1 - 2 * m = 1 /\ 2 * m + 2 - 2 * m = 2
        /\ 2 * (m + 1) = 2 * m + 2
    BY <1>1
  <2>6. PICK u \in Nat : u = 2 * m /\ Len(s) = u /\ u + 1 - u = 1 /\ u + 2 - u = 2 /\ 2 * (m + 1) = u + 2
    BY <1>1
  <2>7. Len(w) = u + 2 /\ (\A i \in 1..u : w[i] = s[i]) /\ w[u + 1] = z[1] /\ w[u + 2] = z[2]
    <3>1. /\ \A i \in 1..u : i \in 1..(u + 2) /\ i <= u
          /\ u + 1 \in 1..(u + 2) /\ ~(u + 1 <= u) /\ u + 2 \in 1..(u + 2) /\ ~(u + 2 <= u)
      OBVIOUS
    <3>2. Len(w) = u + 2 /\ \A i \in 1..(u + 2) : w[i] = IF i <= u THEN s[i] ELSE z[i - u]
      BY <2>4, <2>6
    <3> QED
      BY ONLY <2>6, <3>1, <3>2
  <2> QED
    BY <2>2, <2>4, <2>6, <2>7
<1>5. ASSUME NEW k \in 1..(m + 1)
      PROVE  w[2 * k - 1][1] = "user" /\ w[2 * k][1] = "assistant" /\ w[2 * k - 1][2] = w[2 * k][2]
  <2>1. CASE k = m + 1
    <3>1. 2 * k - 1 = 2 * m + 1 /\ 2 * k = 2 * m + 2
      BY <2>1
    <3> QED
      BY <1>3, <1>4, <3>1
  <2>2. CASE k # m + 1
    <3>1. k \in 1..m /\ 2 * k - 1 \in 1..(2 * m) /\ 2 * k \in 1..(2 * m)
      BY <2>2
    <3> QED
      BY <1>1, <1>4, <3>1
  <2> QED
    BY <2>1, <2>2
<1>6. m + 1 \in Nat
  OBVIOUS
<1> QED
  <2> HIDE DEF Posts
  <2> QED
    BY <1>4, <1>5, <1>6 DEF PairedPosts

-----------------------------------------------------------------------------
\* Calls and windows

LEMMA NoRows == PairedRows(<<>>) /\ PairedPosts(<<>>)
  <1>1. 0 \in Nat /\ Len(<<>>) = 2 * 0 /\ 1..0 = {}
    OBVIOUS
  <1> QED
    BY <1>1 DEF PairedRows, PairedPosts

LinkIs(x, c, kind, thread, q, for, limit) ==
    /\ TypedLink(x) /\ x.c = c /\ x.kind = kind /\ x.thread = thread /\ x.q = q /\ x.for = for /\ x.limit = limit
    /\ x.answer = "none" /\ x.late = FALSE

(* A call that begins is a sound one, unanswered.                            *)
LEMMA FindMade ==
    ASSUME NEW c \in Clients, NEW for \in {"view", "send"}
    PROVE  LinkIs(Find(c, for), c, "list", 0, 0, for, 0)
<1>1. PICK x : x = [c |-> c, kind |-> "list", thread |-> 0, q |-> 0, for |-> for, limit |-> 0,
           answer |-> "none", found |-> <<>>, more |-> FALSE, late |-> FALSE] /\ x = Find(c, for)
  BY DEF Find, Link
<1>2. <<>> \in Seq(Items)
  OBVIOUS
<1>3. x \in Links
  BY <1>1, <1>2 DEF Links, Loads
<1>4. SoundLink(x)
  BY <1>1 DEF SoundLink, Loads, Streams
<1>5. LinkIs(x, c, "list", 0, 0, for, 0)
  <2>1. x.c = c /\ x.kind = "list" /\ x.thread = 0 /\ x.q = 0 /\ x.for = for /\ x.limit = 0 /\ x.answer = "none" /\ x.late = FALSE
    BY <1>1
  <2> QED
    BY <1>3, <1>4, <2>1 DEF LinkIs, TypedLink
<1> QED
  BY <1>1, <1>5

LEMMA RowsMade ==
    ASSUME NEW c \in Clients, NEW t \in Threads, NEW for \in {"view", "send"}, NEW l \in PageSize..PageCap, Even(l)
    PROVE  LinkIs(LoadRows(c, t, for, l), c, "rows", t, 0, for, l)
<1>1. PICK x : x = [c |-> c, kind |-> "rows", thread |-> t, q |-> 0, for |-> for, limit |-> l,
           answer |-> "none", found |-> <<>>, more |-> FALSE, late |-> FALSE] /\ x = LoadRows(c, t, for, l)
  BY DEF LoadRows, Link
<1>2. <<>> \in Seq(Items) /\ l \in Nat
  BY ChatViewsAssumption
<1>3. x \in Links
  BY <1>1, <1>2 DEF Links, Loads
<1>4. SoundLink(x)
  BY <1>1, NoRows DEF SoundLink, Loads, Streams
<1>5. LinkIs(x, c, "rows", t, 0, for, l)
  <2>1. x.c = c /\ x.kind = "rows" /\ x.thread = t /\ x.q = 0 /\ x.for = for /\ x.limit = l /\ x.answer = "none" /\ x.late = FALSE
    BY <1>1
  <2> QED
    BY <1>3, <1>4, <2>1 DEF LinkIs, TypedLink
<1> QED
  BY <1>1, <1>5

LEMMA AskMade ==
    ASSUME NEW c \in Clients, NEW t \in Threads, NEW q \in Questions
    PROVE  LinkIs(Link(c, "ask", t, q, "send", 0), c, "ask", t, q, "send", 0)
<1>1. PICK x : x = [c |-> c, kind |-> "ask", thread |-> t, q |-> q, for |-> "send", limit |-> 0,
           answer |-> "none", found |-> <<>>, more |-> FALSE, late |-> FALSE] /\ x = Link(c, "ask", t, q, "send", 0)
  BY DEF Link
<1>2. <<>> \in Seq(Items)
  OBVIOUS
<1>3. x \in Links
  BY <1>1, <1>2 DEF Links, Streams
<1>4. SoundLink(x)
  BY <1>1 DEF SoundLink, Loads, Streams
<1>5. LinkIs(x, c, "ask", t, q, "send", 0)
  <2>1. x.c = c /\ x.kind = "ask" /\ x.thread = t /\ x.q = q /\ x.for = "send" /\ x.limit = 0 /\ x.answer = "none" /\ x.late = FALSE
    BY <1>1
  <2> QED
    BY <1>3, <1>4, <2>1 DEF LinkIs, TypedLink
<1> QED
  BY <1>1, <1>5

(* A call that is otherwise what another was.                                *)
Alike(x, z) ==
    /\ TypedLink(x) /\ x.kind = z.kind /\ x.thread = z.thread /\ x.q = z.q /\ x.limit = z.limit
    /\ x.answer = z.answer /\ x.found = z.found /\ x.more = z.more

(* A call that nobody hears any more, that belongs to no view, or that is   *)
(* late.                                                                    *)
LEMMA Orphan ==
    ASSUME NEW r, TypedLink(r)
    PROVE  Alike([r EXCEPT !.c = "nobody"], r) /\ [r EXCEPT !.c = "nobody"].c = "nobody"
<1>1. PICK x : x = [r EXCEPT !.c = "nobody"]
  OBVIOUS
<1>2. /\ x \in Links /\ x.c = "nobody" /\ x.kind = r.kind /\ x.q = r.q /\ x.thread = r.thread /\ x.limit = r.limit
      /\ x.found = r.found /\ x.answer = r.answer /\ x.more = r.more /\ x.for = r.for /\ x.late = r.late
  BY <1>1 DEF TypedLink, Links
<1>3. SoundLink(x)
  BY <1>2 DEF TypedLink, SoundLink
<1> QED
  BY <1>1, <1>2, <1>3 DEF Alike, TypedLink

LEMMA LeftBehind ==
    ASSUME NEW r, TypedLink(r), r.kind \in Streams
    PROVE  Alike([r EXCEPT !.for = "left"], r) /\ [r EXCEPT !.for = "left"].for = "left" /\ [r EXCEPT !.for = "left"].c = r.c
<1>1. PICK x : x = [r EXCEPT !.for = "left"]
  OBVIOUS
<1>2. /\ x \in Links /\ x.c = r.c /\ x.kind = r.kind /\ x.q = r.q /\ x.thread = r.thread /\ x.limit = r.limit
      /\ x.found = r.found /\ x.answer = r.answer /\ x.more = r.more /\ x.for = "left" /\ x.late = r.late
  BY <1>1 DEF TypedLink, Links
<1>3. SoundLink(x)
  BY <1>2 DEF TypedLink, SoundLink, Streams, Loads
<1> QED
  BY <1>1, <1>2, <1>3 DEF Alike, TypedLink

LEMMA MadeLate ==
    ASSUME NEW r, TypedLink(r), r.c = "web"
    PROVE  LET x == [r EXCEPT !.late = TRUE] IN Alike(x, r) /\ x.c = "web" /\ x.for = r.for /\ x.late
<1>1. PICK x : x = [r EXCEPT !.late = TRUE]
  OBVIOUS
<1>2. /\ x \in Links /\ x.c = r.c /\ x.kind = r.kind /\ x.q = r.q /\ x.thread = r.thread /\ x.limit = r.limit
      /\ x.found = r.found /\ x.answer = r.answer /\ x.more = r.more /\ x.for = r.for /\ x.late = TRUE
  BY <1>1 DEF TypedLink, Links
<1>3. SoundLink(x)
  BY <1>2 DEF TypedLink, SoundLink
<1> QED
  BY <1>1, <1>2, <1>3 DEF Alike, TypedLink

(* The window before one that is not there is one of the windows.            *)
LEMMA Greatest ==
    ASSUME NEW T \in SUBSET (PageSize..PageCap), T # {}
    PROVE  \E k \in T : \A j \in T : j <= k
<1>0. PageSize \in Int /\ PageCap \in Int
  BY ChatViewsAssumption
<1>1. PICK A : A = PageSize..PageCap /\ IsFiniteSet(A)
  BY <1>0, FS_Interval
<1>2. PICK W : W = {k..PageCap : k \in T} /\ W # {}
  <2>1. PICK k \in T : k..PageCap \in {i..PageCap : i \in T}
    OBVIOUS
  <2> QED
    BY <2>1
<1>3. W \subseteq FiniteSubsetsOf(A)
  <2>1. ASSUME NEW k \in T PROVE k..PageCap \in SUBSET A
    BY <1>0, <1>1
  <2>2. \A w \in SUBSET A : IsFiniteSet(w)
    BY <1>1, FS_Subset
  <2> QED
    BY <1>2, <2>1, <2>2 DEF FiniteSubsetsOf
<1>4. PICK w \in W : \A v \in W : ~(<<v, w>> \in StrictSubsetOrdering(A))
  BY <1>2, <1>3, FS_StrictSubsetOrderingWellFounded, WFMin
<1>5. PICK k \in T : w = k..PageCap
  BY <1>2
<1>6. ASSUME NEW j \in T, ~(j <= k) PROVE FALSE
  <2>1. j \in Int /\ k \in Int /\ k < j /\ j <= PageCap /\ k <= PageCap
    BY <1>0, <1>6
  <2>2. j..PageCap \subseteq k..PageCap /\ k \in k..PageCap /\ k \notin j..PageCap
    BY <1>0, <2>1
  <2>3. j..PageCap \in W /\ j..PageCap \in SUBSET A /\ w \in SUBSET A
    BY <1>2, <1>3 DEF FiniteSubsetsOf
  <2>4. <<j..PageCap, w>> \in StrictSubsetOrdering(A)
    BY <1>5, <2>2, <2>3 DEF StrictSubsetOrdering
  <2> QED
    BY <1>4, <2>3, <2>4
<1> QED
  BY <1>6

LEMMA SlotIs ==
    ASSUME NEW c \in Clients, NEW l \in PageSize..PageCap
    PROVE  Slot(c, l) \in PageSize..PageCap
  BY ChatViewsAssumption DEF Slot

LEMMA OnScreenIs ==
    ASSUME PageTyped, NEW c \in Clients
    PROVE  \E l \in PageSize..PageCap : OnScreen(c) = windows[c][l]
<1>1. PICK l \in PageSize..PageCap : l = Slot(c, page[c].limit)
  BY SlotIs DEF PageTyped, PageRecords
<1>2. PICK B : B = {k \in PageSize..(l - 1) : windows[c][k].had}
  OBVIOUS
<1>3. B \in SUBSET (PageSize..PageCap)
  BY <1>2, ChatViewsAssumption
<1>4. B # {} => (CHOOSE k \in B : \A j \in B : j <= k) \in B
  BY <1>3, Greatest
<1> QED
  BY <1>1, <1>2, <1>3, <1>4 DEF OnScreen

LEMMA WidenedLimit ==
    ASSUME PageTyped, NEW c \in Clients
    PROVE  Widened(c) \in PageSize..PageCap /\ Even(Widened(c))
<1>1. PICK l \in PageSize..PageCap : l = page[c].limit /\ Even(l)
  BY DEF PageTyped, PageRecords
<1>2. PICK a \in Nat, b \in Nat : l = 2 * a /\ PageSize = 2 * b
  BY <1>1, EvenPages DEF Even
<1>3. l + PageSize = 2 * (a + b) /\ a + b \in Nat
  BY <1>2
<1>4. Even(l + PageSize)
  BY <1>3 DEF Even
<1> QED
  BY <1>1, <1>4, EvenPages, ChatViewsAssumption DEF Widened, AtMostCap

-----------------------------------------------------------------------------
\* What the steps do to the calls

LEMMA CallKinds ==
    /\ "list" \in Loads /\ "create" \in Loads /\ "rows" \in Loads /\ "ask" \in Streams /\ "stream" \in Streams
    /\ Loads \intersect Streams = {} /\ "rows" \notin {"list", "create"} /\ Loads = {"list", "create", "rows"}
    /\ Streams = {"ask", "stream"} /\ "web" \in Clients /\ "ios" \in Clients /\ "nobody" \notin Clients /\ Clients = {"web", "ios"}
    /\ \A t \in Threads : t # 0
    /\ \A q \in Questions : q # 0
    /\ \A t \in {0} \union Threads : t # 0 => t \in Threads
  BY DEF Loads, Streams, Clients, Threads, Questions

Served(x, r) ==
    /\ links \ {r} \subseteq links' /\ links' \subseteq (links \ {r}) \union {x} /\ (r.c \in Clients => x \in links')
    /\ TypedLink(x) /\ x.c = r.c /\ x.for = r.for /\ x.q = r.q /\ x.limit = r.limit /\ x.late = r.late
    /\ r.kind \in Loads => x.kind = r.kind
    /\ r.kind \in Streams => x.kind \in Streams
    /\ r.kind \in {"rows"} \union Streams => x.thread = r.thread
    /\ r.kind = "rows" => x.found = Told(NewestOf(posts[r.thread], r.limit)) /\ UNCHANGED <<posts, state>>

(* The API turns a call into its answer, or drops it if nobody listens.      *)
LEMMA Serves ==
    ASSUME ChatTyped, NEW r \in links, ServeChat(r)
    PROVE  \E x : Served(x, r)
<1>1. r \in Links /\ SoundLink(r) /\ r.answer = "none"
  BY DEF ChatTyped, LinksTyped, TypedLink, ServeChat
<1>2. CASE ServeList(r)
  <2>1. PICK x : x = [[r EXCEPT !.answer = "ok"] EXCEPT !.thread = IF threads = <<>> THEN 0 ELSE threads[1]]
    OBVIOUS
  <2>2. threads # <<>> => threads[1] \in Threads
    BY DEF ChatTyped, PlainTyped
  <2>3. x \in Links /\ x.c = r.c /\ x.for = r.for /\ x.q = r.q /\ x.limit = r.limit /\ x.late = r.late /\ x.kind = r.kind /\ r.kind = "list"
    BY <1>1, <1>2, <2>1, <2>2 DEF Links, ServeList
  <2>4. TypedLink(x)
    BY <1>1, <2>3 DEF TypedLink, SoundLink, Loads, Streams
  <2>5. links' = (links \ {r}) \union (IF r.c \in Clients THEN {x} ELSE {})
    BY <1>2, <2>1 DEF ServeList, Reply
  <2> QED
    BY <2>3, <2>4, <2>5, CallKinds DEF Served, Streams
<1>3. CASE ServeCreate(r)
  <2>1. PICK t : t = Len(threads) + 1
    OBVIOUS
  <2>2. t \in Threads
    <3>1. Cardinality(Threads) = 4
      <4>1. PICK a \in Int, b \in Int : a = 1 /\ b = 4
        OBVIOUS
      <4>2. Cardinality(a..b) = IF a > b THEN 0 ELSE b - a + 1
        BY ONLY FS_Interval, a \in Int, b \in Int
      <4> QED
        BY <4>1, <4>2 DEF Threads
    <3>2. Len(threads) \in Nat /\ Len(threads) < 4
      BY <1>3, <3>1 DEF ServeCreate, ChatTyped, PlainTyped
    <3> QED
      BY <2>1, <3>2 DEF Threads
  <2>3. PICK x : x = [[r EXCEPT !.answer = "ok"] EXCEPT !.thread = t]
    OBVIOUS
  <2>4. /\ x \in Links /\ x.c = r.c /\ x.for = r.for /\ x.q = r.q /\ x.limit = r.limit /\ x.late = r.late /\ x.kind = r.kind
        /\ x.thread = t /\ r.kind = "create"
    BY <1>1, <1>3, <2>2, <2>3 DEF Links, ServeCreate
  <2>5. TypedLink(x)
    BY <1>1, <2>2, <2>4 DEF TypedLink, SoundLink, Loads, Streams
  <2>6. links' = (links \ {r}) \union (IF r.c \in Clients THEN {x} ELSE {})
    BY <1>3, <2>1, <2>3 DEF ServeCreate, Reply
  <2> QED
    BY <2>4, <2>5, <2>6, CallKinds DEF Served, Streams
<1>4. CASE ServeRows(r)
  <2>1. r.thread \in Threads /\ r.limit \in PageSize..PageCap /\ Even(r.limit) /\ r.limit \in Nat
    BY <1>1, <1>4, ChatViewsAssumption DEF SoundLink, ServeRows
  <2>2. PICK s \in Seq(Posts) : s = NewestOf(posts[r.thread], r.limit) /\ PairedPosts(s)
    BY <2>1, NewestPaired DEF ChatTyped, PostsTyped
  <2>3. PICK f \in Seq(Items) : f = Told(s) /\ PairedRows(f)
    BY <2>2, ToldRows DEF ChatTyped
  <2>4. PICK m \in BOOLEAN : m = (Len(posts[r.thread]) > r.limit)
    <3>1. (Len(posts[r.thread]) > r.limit) \in BOOLEAN
      OBVIOUS
    <3> QED
      BY <3>1
  <2>5. PICK x : x = [[[r EXCEPT !.answer = "ok"] EXCEPT !.found = f] EXCEPT !.more = m]
    OBVIOUS
  <2>6. /\ x \in Links /\ x.c = r.c /\ x.for = r.for /\ x.q = r.q /\ x.limit = r.limit /\ x.late = r.late /\ x.kind = r.kind
        /\ x.thread = r.thread /\ x.found = f /\ r.kind = "rows"
    BY <1>1, <1>4, <2>3, <2>4, <2>5 DEF Links, ServeRows
  <2>7. TypedLink(x)
    BY <1>1, <2>1, <2>3, <2>6 DEF TypedLink, SoundLink, Loads, Streams
  <2>8. links' = (links \ {r}) \union (IF r.c \in Clients THEN {x} ELSE {}) /\ UNCHANGED <<posts, state>>
    BY <1>4, <2>2, <2>3, <2>4, <2>5 DEF ServeRows, Reply
  <2> QED
    BY <2>2, <2>3, <2>6, <2>7, <2>8, CallKinds DEF Served
<1>5. CASE ServeAsk(r)
  <2>1. PICK x, y : x = [r EXCEPT !.kind = "stream"] /\ y = [[r EXCEPT !.kind = "stream"] EXCEPT !.answer = "ok"]
    OBVIOUS
  <2>2. /\ x \in Links /\ x.c = r.c /\ x.for = r.for /\ x.q = r.q /\ x.limit = r.limit /\ x.late = r.late /\ x.kind = "stream"
        /\ y \in Links /\ y.c = r.c /\ y.for = r.for /\ y.q = r.q /\ y.limit = r.limit /\ y.late = r.late /\ y.kind = "stream"
        /\ x.thread = r.thread /\ y.thread = r.thread /\ r.kind = "ask"
    BY <1>1, <1>5, <2>1, CallKinds DEF Links, ServeAsk
  <2>3. TypedLink(x) /\ TypedLink(y)
    BY <1>1, <2>2, CallKinds DEF TypedLink, SoundLink
  <2>4. links' = (links \ {r}) \union {x} \/ links' = (links \ {r}) \union (IF r.c \in Clients THEN {y} ELSE {})
    BY <1>5, <2>1 DEF ServeAsk, Reply
  <2>5. CASE links' = (links \ {r}) \union {x}
    BY <2>2, <2>3, <2>5, CallKinds DEF Served
  <2>6. CASE links' = (links \ {r}) \union (IF r.c \in Clients THEN {y} ELSE {})
    BY <2>2, <2>3, <2>6, CallKinds DEF Served
  <2> QED
    BY <2>4, <2>5, <2>6
<1>6. CASE ServeStream(r)
  <2>1. PICK x : x = [r EXCEPT !.answer = "ok"]
    OBVIOUS
  <2>2. /\ x \in Links /\ x.c = r.c /\ x.for = r.for /\ x.q = r.q /\ x.limit = r.limit /\ x.late = r.late /\ x.kind = "stream"
        /\ x.thread = r.thread /\ r.kind = "stream"
    BY <1>1, <1>6, <2>1 DEF Links, ServeStream
  <2>3. TypedLink(x)
    BY <1>1, <2>2, CallKinds DEF TypedLink, SoundLink
  <2>4. links' = (links \ {r}) \union (IF r.c \in Clients THEN {x} ELSE {})
    BY <1>6, <2>1 DEF ServeStream, Reply
  <2> QED
    BY <2>2, <2>3, <2>4, CallKinds DEF Served
<1> QED
  BY <1>2, <1>3, <1>4, <1>5, <1>6 DEF ServeChat

(* What a client hears of looking for a conversation takes it on.           *)
Began(x, r) ==
    /\ links' = (links \ {r}) \union {x} /\ page' = page
    /\ TypedLink(x) /\ x.c = r.c /\ x.kind = "create" /\ x.q = 0 /\ x.for = r.for /\ x.answer = "none"
Entered(x, r) ==
    /\ r.thread \in Threads /\ page' = [page EXCEPT ![r.c].thread = r.thread]
    /\ LinkIs(x, r.c, "rows", r.thread, 0, r.for, page[r.c].limit)
    /\ links' = (links \ {r}) \union (IF page[r.c].open THEN {x} ELSE {})

LEMMA HearsFind ==
    ASSUME ChatTyped, NEW r \in links, r.c \in Clients, r.answer = "ok", HearList(r) \/ HearCreate(r)
    PROVE  /\ r.kind \in {"list", "create"} /\ UNCHANGED windows
           /\ \E x : (r \in Makers /\ Began(x, r)) \/ Entered(x, r)
<1>1. r \in Links /\ SoundLink(r) /\ r.kind \in {"list", "create"} /\ UNCHANGED windows
  BY DEF ChatTyped, LinksTyped, TypedLink, HearList, HearCreate
<1>2. CASE HearList(r) /\ r.thread = 0
  <2>1. PICK x : x = [[r EXCEPT !.kind = "create"] EXCEPT !.answer = "none"]
    OBVIOUS
  <2>2. /\ x \in Links /\ x.c = r.c /\ x.for = r.for /\ x.q = r.q /\ x.answer = "none" /\ x.kind = "create" /\ x.late = r.late
        /\ x.thread = r.thread /\ r.kind = "list"
    BY <1>1, <1>2, <2>1, CallKinds DEF Links, HearList
  <2>3. TypedLink(x)
    BY <1>1, <2>2, CallKinds DEF TypedLink, SoundLink, Loads, Streams
  <2>4. x.q = 0 /\ r \in Makers
    BY <1>1, <1>2, <2>2, CallKinds DEF SoundLink, Makers
  <2>5. links' = (links \ {r}) \union {x} /\ page' = page
    BY <1>2, <2>1 DEF HearList, Chosen
  <2> QED
    BY <1>1, <2>2, <2>3, <2>4, <2>5 DEF Began
<1>3. CASE ~(HearList(r) /\ r.thread = 0)
  <2>1. r.thread \in Threads /\ r.for \in {"view", "send"} /\ HearThread(r)
    BY <1>1, <1>3, CallKinds DEF HearList, HearCreate, Chosen, SoundLink, Links
  <2>2. PICK l \in PageSize..PageCap : l = page[r.c].limit /\ Even(l)
    BY DEF ChatTyped, PageTyped, PageRecords
  <2>3. PICK x : x = LoadRows(r.c, r.thread, r.for, l) /\ LinkIs(x, r.c, "rows", r.thread, 0, r.for, l)
    BY <2>1, <2>2, RowsMade
  <2> QED
    BY <1>1, <2>1, <2>2, <2>3 DEF HearThread, Entered
<1> QED
  BY <1>2, <1>3

(* The web's view comes to a window.                                         *)
LEMMA Looks ==
    ASSUME NEW t \in Threads, NEW l \in PageSize..PageCap, Even(l), Look(t, l)
    PROVE  \/ links' = links /\ (FetchesOf(l) # {} \/ (windows["web"][l].had /\ ~windows["web"][l].old))
           \/ \E x : LinkIs(x, "web", "rows", t, 0, "view", l) /\ links' = links \union {x}
<1>1. LinkIs(LoadRows("web", t, "view", l), "web", "rows", t, 0, "view", l)
  BY RowsMade, CallKinds
<1> QED
  BY <1>1 DEF Look

(* The end of a stream on the web: what of the other calls (base) stays, is *)
(* late or is dropped, and the window on the screen is fetched.             *)
Renewing(base) ==
    /\ windows' = [windows EXCEPT !["web"] = [k \in PageSize..PageCap |-> [windows["web"][k] EXCEPT !.old = windows["web"][k].had]]]
    /\ \A y \in links' :
         \/ y \in base /\ ~(y.c = "web" /\ y.kind = "rows" /\ y.answer = "ok")
         \/ y.c = "web" /\ y.kind = "rows" /\ y.late /\ \E z \in base : z.c = "web" /\ Alike(y, z) /\ y.for = z.for
         \/ page["web"].open /\ LinkIs(y, "web", "rows", page["web"].thread, 0, "view", page["web"].limit)
    /\ \A z \in base : z.c # "web" \/ z.kind # "rows" => z \in links'
    /\ page["web"].open => \E y \in links' : y.c = "web" /\ y.kind = "rows" /\ y.limit = page["web"].limit

LEMMA Ends ==
    ASSUME ChatTyped, page["web"].thread \in Threads, NEW r, NEW base, EndWeb(r, base),
           \A z \in base : TypedLink(z), FetchesOf(page["web"].limit) \subseteq base
    PROVE  Renewing(base) /\ page' = IF r.for = "send" THEN NotSending("web") ELSE page
<1>1. PICK l \in PageSize..PageCap : l = page["web"].limit /\ Even(l)
  BY CallKinds DEF ChatTyped, PageTyped, PageRecords
<1>2. PICK x : x = LoadRows("web", page["web"].thread, "view", l) /\ LinkIs(x, "web", "rows", page["web"].thread, 0, "view", l)
  BY <1>1, RowsMade, CallKinds
<1>3. PICK again : again = (page["web"].open /\ FetchesOf(l) \ Dropped = {})
  OBVIOUS
<1>4. PICK stay : stay = LateRows(base \ Dropped)
  OBVIOUS
<1>5. links' = stay \union (IF again THEN {x} ELSE {})
  BY <1>1, <1>2, <1>3, <1>4 DEF EndWeb, Invalidate
<1>6. Dropped \subseteq FetchesOf(l) /\ \A z \in FetchesOf(l) : z.c = "web" /\ z.kind = "rows" /\ z.limit = l
  BY <1>1 DEF Dropped, FetchesOf, Of
<1>7. \A z \in base : z.c = "web" => Alike([z EXCEPT !.late = TRUE], z) /\ [z EXCEPT !.late = TRUE].c = "web"
                                     /\ [z EXCEPT !.late = TRUE].for = z.for /\ [z EXCEPT !.late = TRUE].late
  BY MadeLate
<1>8. \A y \in stay : \E z \in base \ Dropped :
        y = IF z.c = "web" /\ z.kind = "rows" /\ z.answer = "ok" THEN [z EXCEPT !.late = TRUE] ELSE z
  BY <1>4 DEF LateRows
<1>9. \A z \in base \ Dropped :
        (IF z.c = "web" /\ z.kind = "rows" /\ z.answer = "ok" THEN [z EXCEPT !.late = TRUE] ELSE z) \in stay
  BY <1>4 DEF LateRows
<1>10. \A y \in stay : \/ y \in base /\ ~(y.c = "web" /\ y.kind = "rows" /\ y.answer = "ok")
                       \/ y.c = "web" /\ y.kind = "rows" /\ y.late /\ \E z \in base : z.c = "web" /\ Alike(y, z) /\ y.for = z.for
  <2>1. ASSUME NEW y \in stay, NEW z \in base, z.c = "web" /\ z.kind = "rows" /\ z.answer = "ok", y = [z EXCEPT !.late = TRUE]
        PROVE  y.c = "web" /\ y.kind = "rows" /\ y.late /\ Alike(y, z) /\ y.for = z.for
    <3>1. Alike(y, z) /\ y.c = "web" /\ y.for = z.for /\ y.late
      BY <1>7, <2>1
    <3> QED
      BY <2>1, <3>1 DEF Alike
  <2> QED
    BY <1>8, <2>1
<1>11. \A z \in base : z.c # "web" \/ z.kind # "rows" => z \in links'
  BY <1>5, <1>6, <1>9
<1>12. ASSUME page["web"].open PROVE \E y \in links' : y.c = "web" /\ y.kind = "rows" /\ y.limit = page["web"].limit
  <2>1. CASE again
    BY <1>1, <1>2, <1>5, <2>1 DEF LinkIs
  <2>2. CASE ~again
    <3>1. PICK z \in FetchesOf(l) : z \notin Dropped
      BY <1>3, <1>12, <2>2
    <3>2. z \in base \ Dropped /\ z.c = "web" /\ z.kind = "rows" /\ z.limit = l
      BY <1>1, <1>6, <3>1
    <3>3. PICK y : y = (IF z.c = "web" /\ z.kind = "rows" /\ z.answer = "ok" THEN [z EXCEPT !.late = TRUE] ELSE z) /\ y \in stay
      BY <1>9, <3>2
    <3>4. y = z \/ (Alike(y, z) /\ y.c = "web")
      BY <1>7, <3>2, <3>3
    <3> QED
      BY <1>1, <1>5, <3>2, <3>3, <3>4 DEF Alike
  <2> QED
    BY <2>1, <2>2
<1>13. \A y \in links' : y \in stay \/ (y = x /\ page["web"].open)
  BY <1>3, <1>5
<1>14. windows' = [windows EXCEPT !["web"] = [k \in PageSize..PageCap |-> [windows["web"][k] EXCEPT !.old = windows["web"][k].had]]]
  BY DEF EndWeb, Invalidate
<1>15. page' = IF r.for = "send" THEN NotSending("web") ELSE page
  BY DEF EndWeb
<1> QED
  BY <1>1, <1>2, <1>10, <1>11, <1>12, <1>13, <1>14, <1>15 DEF Renewing

(* The end of a stream.                                                     *)
LEMMA HearsEnd ==
    ASSUME ChatTyped, NEW r \in links, r.c \in Clients, r.kind = "stream", HearEnd(r)
    PROVE  \/ /\ r.c = "web" /\ Renewing(links \ {r}) /\ page["web"].thread \in Threads
              /\ page' = IF r.for = "send" THEN NotSending("web") ELSE page
           \/ /\ r.c = "ios" /\ UNCHANGED <<page, windows>>
              /\ \E x : LinkIs(x, "ios", "list", 0, 0, "send", 0) /\ links' = (links \ {r}) \union {x}
<1>1. page[r.c].thread \in Threads
  BY CallKinds DEF ChatTyped, PageTyped, PageRecords, InThread
<1>2. CASE r.c = "web"
  <2>1. FetchesOf(page["web"].limit) \subseteq links \ {r} /\ \A z \in links \ {r} : TypedLink(z)
    BY DEF FetchesOf, Of, ChatTyped, LinksTyped
  <2>2. EndWeb(r, links \ {r}) /\ page["web"].thread \in Threads
    BY <1>1, <1>2 DEF HearEnd
  <2>3. Renewing(links \ {r}) /\ page' = IF r.for = "send" THEN NotSending("web") ELSE page
    BY ONLY <2>1, <2>2, Ends, ChatTyped
  <2> QED
    BY <1>1, <1>2, <2>3
<1>3. CASE r.c = "ios"
  <2>1. LinkIs(Find("ios", "send"), "ios", "list", 0, 0, "send", 0)
    BY FindMade, CallKinds
  <2> QED
    BY <1>3, <2>1 DEF HearEnd
<1> QED
  BY <1>2, <1>3, CallKinds

(* What goes on when its client is gone is heard by nobody.                  *)
LEMMA StillThere ==
    ASSUME NEW r, TypedLink(r)
    PROVE  \A y \in StillServed(r) : y.c = "nobody" /\ Alike(y, r) /\ r.answer = "none" /\ r.kind \in {"create"} \union Streams
                                     /\ y = [r EXCEPT !.c = "nobody"]
  BY Orphan, CallKinds DEF StillServed

(* A call lost: a handler goes on with nobody to hear it.                   *)
LEMMA Loses ==
    ASSUME ChatTyped, NEW r \in links, LoseLink(r)
    PROVE  /\ r.c \in Clients /\ strained' = strained \union {r.c}
           /\ \A y \in links' : \/ y \in links /\ y # r
                                \/ y.c = "nobody" /\ Alike(y, r) /\ r.answer = "none" /\ y = [r EXCEPT !.c = "nobody"]
                                \/ r.c = "web" /\ r.kind \in Streams /\ TypedLink(y) /\ y.c = "web" /\ y.kind = "rows" /\ y.q = 0
                                   /\ (y.for = "view" \/ \E z \in links : z.c = "web" /\ z.kind = "rows" /\ y.for = z.for)
           /\ \A z \in links : z.c # r.c => z \in links'
           /\ page' = IF r.for = "send" /\ (r.c = "ios" \/ r.kind \in Streams) THEN NotSending(r.c) ELSE page
           /\ \/ UNCHANGED windows
              \/ r.c = "web" /\ r.kind \in Streams /\ \E base : Renewing(base)
<1>1. TypedLink(r) /\ r.c \in Clients /\ strained' = strained \union {r.c}
  BY DEF ChatTyped, LinksTyped, LoseLink
<1>2. PICK base : base = (links \ {r}) \union StillServed(r)
  OBVIOUS
<1>3. \A y \in base : (y \in links /\ y # r) \/ (y.c = "nobody" /\ Alike(y, r) /\ r.answer = "none" /\ y = [r EXCEPT !.c = "nobody"])
  BY <1>1, <1>2, StillThere
<1>4. links \ {r} \subseteq base
  BY <1>2
<1>5. CASE r.c = "web" /\ r.kind \in {"ask", "stream"}
  <2>1. EndWeb(r, base)
    BY <1>2, <1>5 DEF LoseLink
  <2>2. page["web"].thread \in Threads
    BY <1>1, <1>5, CallKinds DEF ChatTyped, PageTyped, PageRecords, InThread
  <2>3. \A z \in base : TypedLink(z)
    BY <1>3 DEF ChatTyped, LinksTyped, Alike
  <2>4. FetchesOf(page["web"].limit) \subseteq base
    BY <1>4, <1>5 DEF FetchesOf, Of
  <2>5. Renewing(base) /\ page' = IF r.for = "send" THEN NotSending("web") ELSE page
    BY ONLY <2>1, <2>2, <2>3, <2>4, Ends, ChatTyped
  <2>6. r.kind \in Streams
    BY <1>5, CallKinds
  <2>7. ASSUME NEW y \in links'
        PROVE  \/ y \in links /\ y # r
               \/ y.c = "nobody" /\ Alike(y, r) /\ r.answer = "none" /\ y = [r EXCEPT !.c = "nobody"]
               \/ r.c = "web" /\ r.kind \in Streams /\ TypedLink(y) /\ y.c = "web" /\ y.kind = "rows" /\ y.q = 0
                  /\ (y.for = "view" \/ \E z \in links : z.c = "web" /\ z.kind = "rows" /\ y.for = z.for)
    <3>1. CASE y \in base
      BY <1>3, <3>1
    <3>2. CASE LinkIs(y, "web", "rows", page["web"].thread, 0, "view", page["web"].limit)
      BY <1>5, <2>6, <3>2 DEF LinkIs
    <3>3. CASE y.c = "web" /\ y.kind = "rows" /\ \E z \in base : z.c = "web" /\ Alike(y, z) /\ y.for = z.for
      <4>1. PICK z \in base : z.c = "web" /\ Alike(y, z) /\ y.for = z.for
        BY <3>3
      <4>2. z \in links /\ z.kind = "rows"
        BY <1>3, <3>3, <4>1 DEF Alike
      <4>3. TypedLink(y) /\ y.q = 0
        BY <3>3, <4>1, CallKinds DEF Alike, TypedLink, SoundLink
      <4> QED
        BY <1>5, <2>6, <3>3, <4>1, <4>2, <4>3
    <3> QED
      BY <2>5, <3>1, <3>2, <3>3 DEF Renewing
  <2>8. \A z \in links : z.c # r.c => z \in links'
    BY <1>4, <1>5, <2>5 DEF Renewing
  <2> QED
    BY <1>1, <1>5, <2>5, <2>6, <2>7, <2>8
<1>6. CASE ~(r.c = "web" /\ r.kind \in {"ask", "stream"})
  <2>1. links' = base /\ UNCHANGED windows /\ page' = IF r.c = "ios" /\ r.for = "send" THEN NotSending("ios") ELSE page
    BY <1>2, <1>6 DEF LoseLink
  <2> QED
    BY <1>1, <1>3, <1>4, <1>6, <2>1, CallKinds
<1> QED
  BY <1>5, <1>6

(* A client that goes: its calls are nobody's.                              *)
LEMMA Leaves ==
    ASSUME ChatTyped, NEW c \in Clients, Leave(c)
    PROVE  /\ \A y \in links' : \/ y \in links /\ y.c # c
                                \/ y.c = "nobody" /\ \E r \in links : /\ r.c = c /\ Alike(y, r) /\ r.answer = "none"
                                                                      /\ y = [r EXCEPT !.c = "nobody"]
                                                                      /\ r.kind \in {"create"} \union Streams
           /\ \A y \in links : y.c # c => y \in links'
<1>1. \A y \in links' : (y \in links /\ y.c # c) \/ \E r \in links : r.c = c /\ y \in StillServed(r)
  BY DEF Leave
<1>2. \A y \in links : y.c # c => y \in links'
  BY DEF Leave
<1>3. \A r \in links : TypedLink(r)
  BY DEF ChatTyped, LinksTyped
<1> QED
  BY <1>1, <1>2, <1>3, StillThere

(* A view that goes while the browser stays: its streams are no view's.      *)
LEMMA Navigates ==
    ASSUME ChatTyped, Navigate
    PROVE  /\ \A y \in links' : \/ y \in links /\ ~(y.c = "web" /\ y.kind \in Streams)
                                \/ y.c = "web" /\ y.kind \in Streams /\ y.for = "left" /\ \E z \in links : z.c = "web" /\ Alike(y, z)
           /\ \A z \in links : ~(z.c = "web" /\ z.kind \in Streams) => z \in links'
           /\ \A z \in links : z.c = "web" /\ z.kind \in Streams => \E y \in links' : y.c = "web" /\ y.kind \in Streams
<1>1. /\ \A y \in links' : \E z \in links : y = IF z.c = "web" /\ z.kind \in Streams THEN [z EXCEPT !.for = "left"] ELSE z
      /\ \A z \in links : (IF z.c = "web" /\ z.kind \in Streams THEN [z EXCEPT !.for = "left"] ELSE z) \in links'
  BY DEF Navigate, Streams
<1>2. \A z \in links : z.c = "web" /\ z.kind \in Streams =>
        Alike([z EXCEPT !.for = "left"], z) /\ [z EXCEPT !.for = "left"].for = "left" /\ [z EXCEPT !.for = "left"].c = "web"
  BY LeftBehind DEF ChatTyped, LinksTyped
<1>3. ASSUME NEW z \in links, z.c = "web" /\ z.kind \in Streams, NEW y, y = [z EXCEPT !.for = "left"]
      PROVE  y.c = "web" /\ y.kind \in Streams /\ y.for = "left" /\ Alike(y, z)
  <2>1. y.c = "web" /\ y.for = "left" /\ Alike(y, z)
    BY <1>2, <1>3
  <2> QED
    BY <1>3, <2>1 DEF Alike
<1>4. ASSUME NEW y \in links'
      PROVE  \/ y \in links /\ ~(y.c = "web" /\ y.kind \in Streams)
             \/ y.c = "web" /\ y.kind \in Streams /\ y.for = "left" /\ \E z \in links : z.c = "web" /\ Alike(y, z)
  <2>1. PICK z \in links : y = IF z.c = "web" /\ z.kind \in Streams THEN [z EXCEPT !.for = "left"] ELSE z
    BY <1>1
  <2> QED
    BY <1>3, <2>1
<1>5. ASSUME NEW z \in links, z.c = "web" /\ z.kind \in Streams
      PROVE  \E y \in links' : y.c = "web" /\ y.kind \in Streams
  <2>1. PICK y : y = [z EXCEPT !.for = "left"]
    OBVIOUS
  <2> QED
    BY <1>1, <1>3, <1>5, <2>1
<1> QED
  BY <1>1, <1>4, <1>5

-----------------------------------------------------------------------------
\* What the steps do to the views and their windows

PageIs(c, open, thread, limit, sending) ==
    /\ PageTyped' /\ \A d \in Clients : d # c => page'[d] = page[d]
    /\ page'[c].open = open /\ page'[c].thread = thread /\ page'[c].limit = limit /\ page'[c].sending = sending

LEMMA PageSet ==
    ASSUME PageTyped, NEW c \in Clients, NEW v \in PageRecords, Even(v.limit), page' = [page EXCEPT ![c] = v]
    PROVE  PageIs(c, v.open, v.thread, v.limit, v.sending)
  BY DEF PageTyped, PageIs

LEMMA PageNotSending ==
    ASSUME PageTyped, NEW c \in Clients, page' = NotSending(c)
    PROVE  PageIs(c, page[c].open, page[c].thread, page[c].limit, 0)
<1>1. PICK v : v = [page[c] EXCEPT !.sending = 0]
  OBVIOUS
<1>2. v \in PageRecords /\ v.open = page[c].open /\ v.thread = page[c].thread /\ v.limit = page[c].limit /\ v.sending = 0 /\ Even(v.limit)
  BY <1>1 DEF PageTyped, PageRecords
<1>3. page' = [page EXCEPT ![c] = v]
  BY <1>1 DEF NotSending
<1> QED
  BY <1>2, <1>3, PageSet

LEMMA PageAtRest ==
    ASSUME PageTyped, NEW c \in Clients, page' = page \/ page' = NotSending(c)
    PROVE  /\ PageTyped'
           /\ \A d \in Clients : page'[d].thread = page[d].thread /\ page'[d].open = page[d].open /\ page'[d].limit = page[d].limit
           /\ \A d \in Clients : d # c => page'[d].sending = page[d].sending
  BY PageNotSending DEF PageIs, PageTyped

LEMMA PageSending ==
    ASSUME PageTyped, NEW c \in Clients, NEW q \in Questions, page' = [page EXCEPT ![c].sending = q]
    PROVE  PageIs(c, page[c].open, page[c].thread, page[c].limit, q)
<1>1. PICK v : v = [page[c] EXCEPT !.sending = q]
  OBVIOUS
<1>2. v \in PageRecords /\ v.open = page[c].open /\ v.thread = page[c].thread /\ v.limit = page[c].limit /\ v.sending = q /\ Even(v.limit)
  BY <1>1 DEF PageTyped, PageRecords
<1>3. page' = [page EXCEPT ![c] = v]
  BY <1>1
<1> QED
  BY <1>2, <1>3, PageSet

LEMMA PageThread ==
    ASSUME PageTyped, NEW c \in Clients, NEW t \in Threads, page' = [page EXCEPT ![c].thread = t]
    PROVE  PageIs(c, page[c].open, t, page[c].limit, page[c].sending)
<1>1. PICK v : v = [page[c] EXCEPT !.thread = t]
  OBVIOUS
<1>2. v \in PageRecords /\ v.open = page[c].open /\ v.thread = t /\ v.limit = page[c].limit /\ v.sending = page[c].sending /\ Even(v.limit)
  BY <1>1 DEF PageTyped, PageRecords
<1>3. page' = [page EXCEPT ![c] = v]
  BY <1>1
<1> QED
  BY <1>2, <1>3, PageSet

LEMMA PageOpen ==
    ASSUME PageTyped, NEW c \in Clients, page' = [page EXCEPT ![c].open = TRUE]
    PROVE  PageIs(c, TRUE, page[c].thread, page[c].limit, page[c].sending)
<1>1. PICK v : v = [page[c] EXCEPT !.open = TRUE]
  OBVIOUS
<1>2. v \in PageRecords /\ v.open = TRUE /\ v.thread = page[c].thread /\ v.limit = page[c].limit /\ v.sending = page[c].sending /\ Even(v.limit)
  BY <1>1 DEF PageTyped, PageRecords
<1>3. page' = [page EXCEPT ![c] = v]
  BY <1>1
<1> QED
  BY <1>2, <1>3, PageSet

LEMMA PageWidened ==
    ASSUME PageTyped, NEW c \in Clients, page' = [page EXCEPT ![c].limit = Widened(c)]
    PROVE  PageIs(c, page[c].open, page[c].thread, Widened(c), page[c].sending)
<1>1. PICK v : v = [page[c] EXCEPT !.limit = Widened(c)]
  OBVIOUS
<1>2. /\ v \in PageRecords /\ v.open = page[c].open /\ v.thread = page[c].thread /\ v.limit = Widened(c)
      /\ v.sending = page[c].sending /\ Even(v.limit)
  BY <1>1, WidenedLimit DEF PageTyped, PageRecords
<1>3. page' = [page EXCEPT ![c] = v]
  BY <1>1
<1> QED
  BY <1>2, <1>3, PageSet

LEMMA PageBlank ==
    ASSUME PageTyped, NEW c \in Clients, NEW t \in {0} \union Threads, NEW b, b = Blank \/ b = [Blank EXCEPT !.thread = t],
           b = Blank => t = 0, page' = [page EXCEPT ![c] = b]
    PROVE  PageIs(c, FALSE, t, PageSize, 0)
<1>1. PICK v : v = [open |-> FALSE, thread |-> t, limit |-> PageSize, sending |-> 0] /\ v = b
  BY DEF Blank
<1>2. v \in PageRecords /\ Even(v.limit) /\ v.open = FALSE /\ v.thread = t /\ v.limit = PageSize /\ v.sending = 0
  BY <1>1, ChatViewsAssumption, EvenPages DEF PageRecords
<1> QED
  BY <1>1, <1>2, PageSet

(* A page that changes in no conversation keeps its windows.                 *)
LEMMA WindowsKept ==
    ASSUME WindowsTyped, UNCHANGED windows, \A c \in Clients : page[c].thread # 0 => page'[c].thread # 0
    PROVE  WindowsTyped'
  BY DEF WindowsTyped

Replaced(c, l, e) ==
    /\ windows'[c][l] = e /\ \A k \in PageSize..PageCap : k # l => windows'[c][k] = windows[c][k]
    /\ \A d \in Clients : d # c => windows'[d] = windows[d]

LEMMA WindowSet ==
    ASSUME WindowsTyped, NEW c \in Clients, NEW l \in PageSize..PageCap, NEW e \in CachedWindows, PairedRows(e.rows),
           e.had, page[c].thread # 0, windows' = [windows EXCEPT ![c] = [@ EXCEPT ![l] = e]],
           \A d \in Clients : page'[d].thread = page[d].thread
    PROVE  WindowsTyped' /\ Replaced(c, l, e)
<1>1. PICK w : w = [windows[c] EXCEPT ![l] = e]
  OBVIOUS
<1>2. w \in [PageSize..PageCap -> CachedWindows] /\ w[l] = e /\ \A k \in PageSize..PageCap : k # l => w[k] = windows[c][k]
  BY <1>1 DEF WindowsTyped
<1>3. windows' = [windows EXCEPT ![c] = w]
  BY <1>1
<1>4. windows' \in [Clients -> [PageSize..PageCap -> CachedWindows]] /\ windows'[c] = w /\ \A d \in Clients : d # c => windows'[d] = windows[d]
  BY <1>2, <1>3 DEF WindowsTyped
<1>5. ASSUME NEW d \in Clients, NEW k \in PageSize..PageCap
      PROVE  /\ PairedRows(windows'[d][k].rows)
             /\ windows'[d][k].had => page'[d].thread # 0
             /\ windows'[d][k].more => windows'[d][k].had
  <2>1. windows'[d][k] = IF d = c /\ k = l THEN e ELSE windows[d][k]
    BY <1>2, <1>4
  <2> QED
    BY <2>1 DEF WindowsTyped
<1> QED
  BY <1>2, <1>4, <1>5 DEF WindowsTyped, Replaced

(* What a window becomes when the windows of the web are made invalid.       *)
LEMMA WindowsRenewed ==
    ASSUME WindowsTyped, NEW base, Renewing(base), \A d \in Clients : page'[d].thread = page[d].thread
    PROVE  /\ WindowsTyped' /\ windows'["ios"] = windows["ios"]
           /\ \A k \in PageSize..PageCap :
                /\ windows'["web"][k].had = windows["web"][k].had /\ windows'["web"][k].rows = windows["web"][k].rows
                /\ windows'["web"][k].had => windows'["web"][k].old
<1>1. PICK w : w = [k \in PageSize..PageCap |-> [windows["web"][k] EXCEPT !.old = windows["web"][k].had]]
  OBVIOUS
<1>2. windows' = [windows EXCEPT !["web"] = w]
  BY <1>1 DEF Renewing
<1>3. ASSUME NEW k \in PageSize..PageCap
      PROVE  /\ w[k] \in CachedWindows /\ w[k].had = windows["web"][k].had /\ w[k].late = windows["web"][k].late
             /\ w[k].rows = windows["web"][k].rows /\ w[k].more = windows["web"][k].more
             /\ w[k].old = windows["web"][k].had
  <2>1. PICK e \in CachedWindows : e = windows["web"][k]
    BY CallKinds DEF WindowsTyped
  <2>2. w[k] = [e EXCEPT !.old = e.had]
    BY <1>1, <2>1
  <2> QED
    BY <2>1, <2>2 DEF CachedWindows
<1>4. w \in [PageSize..PageCap -> CachedWindows]
  BY <1>1, <1>3
<1>5. /\ windows' \in [Clients -> [PageSize..PageCap -> CachedWindows]] /\ windows'["web"] = w /\ windows'["ios"] = windows["ios"]
      /\ \A d \in Clients : d = "web" \/ windows'[d] = windows[d]
  BY <1>2, <1>4, CallKinds DEF WindowsTyped
<1>6. ASSUME NEW d \in Clients, NEW k \in PageSize..PageCap
      PROVE  /\ PairedRows(windows'[d][k].rows)
             /\ windows'[d][k].had => page'[d].thread # 0
             /\ windows'[d][k].more => windows'[d][k].had
  <2>1. CASE d = "web"
    <3>1. windows'[d][k] = w[k]
      BY <1>5, <2>1
    <3> QED
      BY <1>3, <2>1, <3>1, CallKinds DEF WindowsTyped
  <2>2. CASE d # "web"
    BY <1>5, <2>2 DEF WindowsTyped
  <2> QED
    BY <2>1, <2>2
<1> QED
  BY <1>3, <1>5, <1>6 DEF WindowsTyped

LEMMA Forgotten ==
    ASSUME WindowsTyped, NEW c \in Clients, windows' = [windows EXCEPT ![c] = NoWindows],
           \A d \in Clients : d # c => page'[d] = page[d]
    PROVE  /\ WindowsTyped' /\ \A d \in Clients : d # c => windows'[d] = windows[d]
           /\ \A k \in PageSize..PageCap : windows'[c][k].had = FALSE
<1>1. Unfetched \in CachedWindows /\ Unfetched.had = FALSE /\ Unfetched.more = FALSE /\ PairedRows(Unfetched.rows)
  <2>1. <<>> \in Seq(Items)
    OBVIOUS
  <2> QED
    BY <2>1, NoRows DEF Unfetched, CachedWindows
<1>2. NoWindows \in [PageSize..PageCap -> CachedWindows] /\ \A k \in PageSize..PageCap : NoWindows[k] = Unfetched
  BY <1>1 DEF NoWindows
<1>3. /\ windows' \in [Clients -> [PageSize..PageCap -> CachedWindows]] /\ windows'[c] = NoWindows
      /\ \A d \in Clients : d # c => windows'[d] = windows[d]
  BY <1>2 DEF WindowsTyped
<1>4. ASSUME NEW d \in Clients, NEW k \in PageSize..PageCap
      PROVE  /\ PairedRows(windows'[d][k].rows)
             /\ windows'[d][k].had => page'[d].thread # 0
             /\ windows'[d][k].more => windows'[d][k].had
  <2>1. CASE d = c
    BY <1>1, <1>2, <1>3, <2>1
  <2>2. CASE d # c
    BY <1>3, <2>2 DEF WindowsTyped
  <2> QED
    BY <2>1, <2>2
<1> QED
  BY <1>1, <1>2, <1>3, <1>4 DEF WindowsTyped

-----------------------------------------------------------------------------
\* Types

LEMMA CallsTyped ==
    ASSUME ChatTyped,
           \A y \in links' : y \in links \/ (TypedLink(y) /\ (y.c \in Clients /\ y.kind \in {"rows"} \union Streams => page'[y.c].thread # 0)),
           \A c \in Clients : page[c].thread # 0 => page'[c].thread # 0
    PROVE  LinksTyped' /\ InThread'
<1>1. \A y \in links' : TypedLink(y)
  BY DEF ChatTyped, LinksTyped
<1>2. InThread'
  BY DEF ChatTyped, InThread
<1> QED
  BY <1>1, <1>2 DEF LinksTyped, TypedLink, Links, SoundLink

LEMMA PostsKept ==
    ASSUME PostsTyped, PlainTyped, UNCHANGED <<threads, posts, state>>, sender' \in [Questions -> Clients \union {"nobody"}],
           strained' \subseteq Clients, overlaps' = overlaps
    PROVE  PostsTyped' /\ PlainTyped'
  BY DEF PostsTyped, PlainTyped

(* The API answers calls with what is sound.                                 *)
LEMMA TypedServe ==
    ASSUME ChatTyped, NEW r \in links, ServeChat(r)
    PROVE  ChatTyped'
<1>1. r \in Links /\ SoundLink(r) /\ UNCHANGED <<sender, strained, page, windows>>
  BY DEF ChatTyped, LinksTyped, TypedLink, ServeChat, ServeList, ServeCreate, ServeRows, ServeAsk, ServeStream
<1>2. PageTyped' /\ WindowsTyped'
  BY <1>1 DEF ChatTyped, PageTyped, WindowsTyped
<1>3. PICK x : Served(x, r)
  BY Serves
<1>4. LinksTyped' /\ InThread'
  <2>1. r.c \in Clients /\ r.kind \in {"rows"} \union Streams => page[r.c].thread # 0
    BY DEF ChatTyped, InThread
  <2>2. r.kind \in Loads \union Streams
    BY <1>1 DEF Links
  <2>3. \A y \in links' : y \in links \/ y = x
    BY <1>3 DEF Served
  <2>4. x.kind \in {"rows"} \union Streams => r.kind \in {"rows"} \union Streams
    BY <1>3, <2>2, CallKinds DEF Served
  <2>5. TypedLink(x) /\ x.c = r.c
    BY <1>3 DEF Served
  <2> QED
    BY <1>1, <2>1, <2>3, <2>4, <2>5, CallsTyped
<1>5. overlaps' \in Nat
  BY DEF ServeChat, ServeList, ServeCreate, ServeRows, ServeAsk, ServeStream, ChatTyped, PlainTyped
<1>6. threads' \in Seq(Threads)
  <2>1. CASE ServeCreate(r)
    <3>1. PICK t : t = Len(threads) + 1 /\ threads' = <<t>> \o threads
      BY <2>1 DEF ServeCreate
    <3>2. t \in Threads
      <4>1. Cardinality(Threads) = 4
        <5>1. PICK a \in Int, b \in Int : a = 1 /\ b = 4
          OBVIOUS
        <5>2. Cardinality(a..b) = IF a > b THEN 0 ELSE b - a + 1
          BY ONLY FS_Interval, a \in Int, b \in Int
        <5> QED
          BY <5>1, <5>2 DEF Threads
      <4>2. Len(threads) \in Nat /\ Len(threads) < 4
        BY <2>1, <4>1 DEF ServeCreate, ChatTyped, PlainTyped
      <4> QED
        BY <3>1, <4>2 DEF Threads
    <3>3. <<t>> \in Seq(Threads) /\ threads \in Seq(Threads)
      BY <3>2 DEF ChatTyped, PlainTyped
    <3> QED
      BY <3>1, <3>3, ConcatProperties
  <2>2. CASE ServeAsk(r) /\ state[r.q] = "asked"
    <3>0. r.thread \in Threads
      BY <1>1, <2>2, CallKinds DEF ServeAsk, SoundLink
    <3>1. PICK at : threads' = [i \in DOMAIN threads |-> IF i = 1 THEN r.thread ELSE IF i <= at THEN threads[i - 1] ELSE threads[i]]
      BY <2>2 DEF ServeAsk, First
    <3>2. DOMAIN threads = 1..Len(threads) /\ Len(threads) \in Nat /\ \A i \in 1..Len(threads) : threads[i] \in Threads
      BY DEF ChatTyped, PlainTyped
    <3>3. \A i \in 1..Len(threads) : i # 1 => i - 1 \in 1..Len(threads)
      BY <3>2
    <3> HIDE DEF Threads
    <3>4. \A i \in 1..Len(threads) : (IF i = 1 THEN r.thread ELSE IF i <= at THEN threads[i - 1] ELSE threads[i]) \in Threads
      BY <3>0, <3>2, <3>3
    <3> QED
      BY <3>1, <3>2, <3>4
  <2>3. CASE ~ServeCreate(r) /\ ~(ServeAsk(r) /\ state[r.q] = "asked")
    BY <2>3 DEF ServeChat, ServeList, ServeRows, ServeAsk, ServeStream, ChatTyped, PlainTyped
  <2> QED
    BY <2>1, <2>2, <2>3
<1>7. state' \in [Questions -> {"none", "asked", "pending", "completed", "failed"}]
  BY DEF ServeChat, ServeList, ServeCreate, ServeRows, ServeAsk, ServeStream, ChatTyped, PlainTyped
<1>8. PostsTyped'
  <2>1. CASE ServeAsk(r) /\ state[r.q] = "asked"
    <3>1. posts' = [posts EXCEPT ![r.thread] = posts[r.thread] \o <<<<"user", r.q>>, <<"assistant", r.q>>>>]
      BY <2>1 DEF ServeAsk
    <3>2. r.thread \in Threads /\ r.q \in Questions
      BY <1>1, <2>1, CallKinds DEF ServeAsk, SoundLink
    <3>3. PICK s, w : s = posts[r.thread] /\ w = s \o <<<<"user", r.q>>, <<"assistant", r.q>>>>
      OBVIOUS
    <3>4. s \in Seq(Posts) /\ PairedPosts(s)
      BY <3>2, <3>3 DEF ChatTyped, PostsTyped
    <3>5. w \in Seq(Posts) /\ PairedPosts(w)
      BY <3>2, <3>3, <3>4, PairAdded
    <3>6. posts' = [posts EXCEPT ![r.thread] = w]
      BY <3>1, <3>3
    <3> QED
      BY <3>2, <3>5, <3>6 DEF ChatTyped, PostsTyped
  <2>2. CASE ~(ServeAsk(r) /\ state[r.q] = "asked")
    <3>1. posts' = posts
      BY <2>2 DEF ServeChat, ServeList, ServeCreate, ServeRows, ServeAsk, ServeStream
    <3> QED
      BY <3>1 DEF ChatTyped, PostsTyped
  <2> QED
    BY <2>1, <2>2
<1> QED
  BY <1>1, <1>2, <1>4, <1>5, <1>6, <1>7, <1>8 DEF ChatTyped, PlainTyped

(* What a client hears leaves its page and its calls sound.                  *)
LEMMA TypedHear ==
    ASSUME ChatTyped, NEW r \in links, HearChat(r)
    PROVE  ChatTyped'
<1>1. r \in Links /\ SoundLink(r) /\ r.c \in Clients /\ r.answer = "ok" /\ PageTyped /\ WindowsTyped
  BY DEF ChatTyped, LinksTyped, TypedLink, HearChat
<1>2. PostsTyped' /\ PlainTyped'
  <2>1. UNCHANGED <<threads, posts, state, sender, overlaps>> /\ strained' \subseteq Clients
    BY <1>1 DEF HearChat, ChatTyped, PlainTyped
  <2> QED
    BY <2>1, PostsKept DEF ChatTyped, PlainTyped
<1>3. CASE HearList(r) \/ HearCreate(r)
  <2>1. PICK x : UNCHANGED windows /\ (Began(x, r) \/ Entered(x, r))
    BY <1>1, <1>3, HearsFind
  <2>2. CASE Began(x, r)
    <3>1. LinksTyped' /\ InThread'
      BY <2>2, CallsTyped, CallKinds DEF Began
    <3>2. PageTyped' /\ WindowsTyped'
      BY <1>1, <2>1, <2>2 DEF Began, PageTyped, WindowsTyped
    <3> QED
      BY <1>2, <3>1, <3>2 DEF ChatTyped
  <2>3. CASE Entered(x, r)
    <3>1. PageIs(r.c, page[r.c].open, r.thread, page[r.c].limit, page[r.c].sending) /\ r.thread # 0
      BY <1>1, <2>3, PageThread, CallKinds DEF Entered
    <3>2. \A c \in Clients : page[c].thread # 0 => page'[c].thread # 0
      BY <3>1 DEF PageIs
    <3>3. LinksTyped' /\ InThread'
      BY <1>1, <2>3, <3>1, <3>2, CallsTyped DEF Entered, LinkIs, PageIs
    <3>4. WindowsTyped'
      BY <1>1, <2>1, <3>2, WindowsKept
    <3> QED
      BY <1>2, <3>1, <3>3, <3>4 DEF ChatTyped, PageIs
  <2> QED
    BY <2>1, <2>2, <2>3
<1>4. CASE HearRows(r)
  <2>1. r.kind = "rows" /\ page[r.c].thread # 0 /\ r.limit \in PageSize..PageCap /\ links' = links \ {r}
    BY <1>1, <1>4, CallKinds DEF HearRows, SoundLink, ChatTyped, InThread
  <2>2. PageTyped' /\ \A d \in Clients : page'[d].thread = page[d].thread
    BY <1>1, <1>4, PageAtRest DEF HearRows
  <2>3. PICK e : e = [had |-> TRUE, old |-> FALSE, late |-> r.late, rows |-> r.found, more |-> r.more]
    OBVIOUS
  <2>4. e \in CachedWindows /\ PairedRows(e.rows) /\ e.had
    BY <1>1, <2>1, <2>3 DEF Links, CachedWindows, SoundLink
  <2>5. PICK l \in PageSize..PageCap : l = Slot(r.c, r.limit)
    BY <1>1, <2>1, SlotIs
  <2>6. windows' = [windows EXCEPT ![r.c] = [@ EXCEPT ![l] = e]]
    BY <1>4, <2>3, <2>5 DEF HearRows
  <2>7. WindowsTyped'
    BY <1>1, <2>1, <2>2, <2>4, <2>6, WindowSet
  <2>8. LinksTyped' /\ InThread'
    BY <2>1, <2>2, CallsTyped
  <2> QED
    BY <1>2, <2>2, <2>7, <2>8 DEF ChatTyped
<1>5. CASE r.kind = "stream" /\ HearEnd(r)
  <2>1. CASE /\ r.c = "web" /\ Renewing(links \ {r}) /\ page["web"].thread \in Threads
             /\ page' = IF r.for = "send" THEN NotSending("web") ELSE page
    <3>1. PageTyped' /\ \A d \in Clients : page'[d].thread = page[d].thread
      BY <1>1, <2>1, PageAtRest
    <3>2. WindowsTyped'
      BY <1>1, <2>1, <3>1, WindowsRenewed
    <3>3. page'["web"].thread # 0
      BY <2>1, <3>1, CallKinds
    <3>4. \A y \in links' : y \in links \/ (TypedLink(y) /\ y.c = "web")
      BY <2>1 DEF Renewing, Alike, LinkIs
    <3>5. LinksTyped' /\ InThread'
      BY <3>1, <3>3, <3>4, CallsTyped
    <3> QED
      BY <1>2, <3>1, <3>2, <3>5 DEF ChatTyped
  <2>2. CASE /\ r.c = "ios" /\ UNCHANGED <<page, windows>>
             /\ \E x : LinkIs(x, "ios", "list", 0, 0, "send", 0) /\ links' = (links \ {r}) \union {x}
    <3>1. PageTyped' /\ WindowsTyped'
      BY <1>1, <2>2 DEF PageTyped, WindowsTyped
    <3>2. LinksTyped' /\ InThread'
      BY <2>2, CallsTyped, CallKinds DEF LinkIs
    <3> QED
      BY <1>2, <3>1, <3>2 DEF ChatTyped
  <2> QED
    BY <1>1, <1>5, <2>1, <2>2, HearsEnd
<1> QED
  BY <1>3, <1>4, <1>5 DEF HearChat

LEMMA TypedLose ==
    ASSUME ChatTyped, NEW r \in links, LoseLink(r)
    PROVE  ChatTyped'
<1>1. /\ r.c \in Clients /\ strained' = strained \union {r.c} /\ PageTyped /\ WindowsTyped
      /\ UNCHANGED <<threads, posts, state, sender, overlaps>>
  BY Loses DEF ChatTyped, LoseLink
<1>2. PostsTyped' /\ PlainTyped'
  BY <1>1, PostsKept DEF ChatTyped, PlainTyped
<1>3. PageTyped' /\ \A d \in Clients : page'[d].thread = page[d].thread
  <2>1. page' = page \/ page' = NotSending(r.c)
    BY Loses
  <2> QED
    BY <1>1, <2>1, PageAtRest
<1>4. WindowsTyped'
  BY <1>1, <1>3, Loses, WindowsKept, WindowsRenewed
<1>5. r.kind \in Streams => page[r.c].thread # 0
  BY <1>1 DEF ChatTyped, InThread
<1>6. LinksTyped' /\ InThread'
  <2>1. \A y \in links' : \/ y \in links
                          \/ TypedLink(y) /\ y.c = "nobody"
                          \/ TypedLink(y) /\ y.c = r.c /\ r.kind \in Streams
    BY Loses DEF Alike
  <2> QED
    BY <1>1, <1>3, <1>5, <2>1, CallsTyped, CallKinds
<1> QED
  BY <1>2, <1>3, <1>4, <1>6 DEF ChatTyped

(* Sending a question, new or again.                                        *)
PutLink(x, c, q) ==
    /\ LinkIs(x, c, "ask", page[c].thread, q, "send", 0) /\ links' = links \union {x}
    /\ PageIs(c, page[c].open, page[c].thread, page[c].limit, q)

LEMMA Puts ==
    ASSUME ChatTyped, NEW c \in Clients, NEW q \in Questions, MaySend(c), Put(c, q)
    PROVE  page[c].thread \in Threads /\ \E x : PutLink(x, c, q)
<1>1. page[c].thread \in Threads
  BY CallKinds DEF ChatTyped, PageTyped, MaySend, PageRecords
<1>2. PageIs(c, page[c].open, page[c].thread, page[c].limit, q)
  BY PageSending DEF ChatTyped, Put
<1>3. LinkIs(Link(c, "ask", page[c].thread, q, "send", 0), c, "ask", page[c].thread, q, "send", 0)
  BY <1>1, AskMade
<1> QED
  BY <1>1, <1>2, <1>3 DEF Put, PutLink

LEMMA TypedPut ==
    ASSUME ChatTyped, NEW c \in Clients, NEW q \in Questions, MaySend(c), Put(c, q), UNCHANGED <<threads, posts, windows, overlaps, strained>>,
           state' = state \/ state' = [state EXCEPT ![q] = "asked"]
    PROVE  ChatTyped'
<1>1. PICK x : page[c].thread \in Threads /\ PutLink(x, c, q)
  BY Puts
<1>2. page[c].thread # 0 /\ PageTyped' /\ \A d \in Clients : page'[d].thread = page[d].thread
  BY <1>1, CallKinds DEF PutLink, PageIs
<1>3. LinksTyped' /\ InThread'
  BY <1>1, <1>2, CallsTyped DEF PutLink, LinkIs
<1>4. sender' \in [Questions -> Clients \union {"nobody"}]
  BY DEF Put, ChatTyped, PlainTyped
<1>5. WindowsTyped'
  BY <1>2, WindowsKept DEF ChatTyped
<1>6. state' \in [Questions -> {"none", "asked", "pending", "completed", "failed"}]
  BY DEF ChatTyped, PlainTyped
<1> QED
  BY <1>2, <1>3, <1>4, <1>5, <1>6 DEF ChatTyped, PostsTyped, PlainTyped

(* A new question is within the bound.                                       *)
LEMMA NextQuestion ==
    ASSUME SentSoFar < MaxQuestions
    PROVE  Earlier + SentSoFar + 1 \in Questions
<1>1. IsFiniteSet(1..(Earlier + MaxQuestions))
  <2>1. PICK a \in Int, b \in Int : a = 1 /\ b = Earlier + MaxQuestions
    BY ChatViewsAssumption
  <2>2. IsFiniteSet(a..b)
    BY ONLY FS_Interval, a \in Int, b \in Int
  <2> QED
    BY <2>1, <2>2
<1>2. IsFiniteSet({q \in Questions : q > Earlier /\ state[q] # "none"})
  BY <1>1, FS_Subset DEF Questions
<1>3. SentSoFar \in Nat
  BY <1>2, FS_CardinalityType DEF SentSoFar
<1> QED
  BY <1>3, ChatViewsAssumption DEF Questions

(* The nearest message of the user before a failed answer is its question.  *)
LEMMA FindsQuestion ==
    ASSUME NEW rows \in Seq(Items), PairedRows(rows), NEW i \in Failures(rows)
    PROVE  FindQuestion(rows, i) = rows[i].q /\ rows[i].q \in Questions
<1>1. PICK m \in Nat : Len(rows) = 2 * m /\ \A k \in 1..m :
        rows[2 * k - 1].role = "user" /\ rows[2 * k].role = "assistant" /\ rows[2 * k - 1].q = rows[2 * k].q
  BY DEF PairedRows
<1>2. i \in 1..(2 * m) /\ rows[i].role = "assistant" /\ rows[i] \in Items
  BY <1>1 DEF Failures
<1>3. PICK k \in 1..m : i = 2 * k - 1 \/ i = 2 * k
  <2>1. (i + 1) \div 2 \in 1..m /\ (i = 2 * ((i + 1) \div 2) - 1 \/ i = 2 * ((i + 1) \div 2))
    BY <1>2
  <2> QED
    BY <2>1
<1>4. i = 2 * k
  BY <1>1, <1>2, <1>3
<1>5. PICK p \in 1..(i - 1) : p = 2 * k - 1 /\ p = i - 1
  BY <1>4
<1>6. rows[p].role = "user" /\ rows[p].q = rows[i].q
  BY <1>1, <1>4, <1>5
<1>7. PICK before : before = {j \in 1..(i - 1) : rows[j].role = "user"}
  OBVIOUS
<1>8. p \in before /\ \A j \in before : j <= p /\ j \in Int
  BY <1>5, <1>6, <1>7
<1>9. (CHOOSE j \in before : \A l \in before : l <= j) = p
  <2>1. PICK j : j = (CHOOSE x \in before : \A l \in before : l <= x) /\ j \in before /\ \A l \in before : l <= j
    BY <1>8
  <2>2. j <= p /\ p <= j /\ j \in Int /\ p \in Int
    BY <1>8, <2>1
  <2>3. j = p
    BY <2>2
  <2> QED
    BY <2>1, <2>3
<1>10. FindQuestion(rows, i) = rows[p].q
  BY <1>7, <1>8, <1>9 DEF FindQuestion
<1> QED
  BY <1>2, <1>6, <1>10 DEF Items

(* A retry sends a question that was asked.                                  *)
LEMMA RetryPuts ==
    ASSUME ChatTyped, Retry
    PROVE  MaySend("web") /\ \E q \in Questions : Put("web", q)
<1>1. PICK l \in PageSize..PageCap : OnScreen("web") = windows["web"][l]
  BY OnScreenIs, CallKinds DEF ChatTyped
<1>2. PICK rows \in Seq(Items) : rows = OnScreen("web").rows /\ PairedRows(rows)
  <2>1. PICK e : e = windows["web"][l]
    OBVIOUS
  <2>2. e \in CachedWindows /\ PairedRows(e.rows)
    BY <2>1, CallKinds DEF ChatTyped, WindowsTyped
  <2>3. e.rows \in Seq(Items)
    BY <2>2 DEF CachedWindows
  <2> QED
    BY <1>1, <2>1, <2>2, <2>3
<1>3. PICK i \in Failures(rows) : Put("web", FindQuestion(rows, i))
  BY <1>2 DEF Retry
<1> QED
  BY <1>2, <1>3, FindsQuestion DEF Retry

(* A view that comes or widens makes one call at most.                       *)
Looked(c) ==
    \/ \E x : LinkIs(x, c, "list", 0, 0, "view", 0) /\ links' = links \union {x} /\ (c = "web" => page["web"].thread = 0 /\ Of("web", {"list", "create"}) = {})
    \/ links' = links /\ (page[c].thread = 0 \/ (c = "web" /\ (FetchesOf(page'[c].limit) # {} \/ (windows["web"][page'[c].limit].had /\ ~windows["web"][page'[c].limit].old))))
    \/ c = "web" /\ page["web"].thread # 0 /\ \E x : LinkIs(x, "web", "rows", page["web"].thread, 0, "view", page'[c].limit) /\ links' = links \union {x}

LEMMA Visits ==
    ASSUME ChatTyped, IosOpen, NEW c \in Clients, Visit(c)
    PROVE  PageIs(c, TRUE, page[c].thread, page[c].limit, page[c].sending) /\ Looked(c) /\ (c = "ios" => page[c].thread = 0)
<1>1. PageIs(c, TRUE, page[c].thread, page[c].limit, page[c].sending)
  BY PageOpen DEF ChatTyped, Visit
<1>2. page[c].thread \in {0} \union Threads /\ page[c].limit \in PageSize..PageCap /\ Even(page[c].limit) /\ page'[c].limit = page[c].limit
  BY <1>1 DEF ChatTyped, PageTyped, PageRecords, PageIs
<1>3. CASE page[c].thread # 0
  <2>1. c = "web"
    BY <1>3, CallKinds DEF IosOpen, Visit
  <2>2. Look(page["web"].thread, page["web"].limit)
    BY <1>3, <2>1 DEF Visit
  <2> QED
    BY <1>1, <1>2, <1>3, <2>1, <2>2, Looks, CallKinds DEF Looked
<1>4. CASE page[c].thread = 0
  <2>1. LinkIs(Find(c, "view"), c, "list", 0, 0, "view", 0)
    BY FindMade
  <2>2. links' = links \/ (links' = links \union {Find(c, "view")} /\ Of(c, {"list", "create"}) = {})
    BY <1>4 DEF Visit
  <2> QED
    BY <1>1, <1>4, <2>1, <2>2 DEF Looked
<1> QED
  BY <1>3, <1>4

LEMMA Widens ==
    ASSUME ChatTyped, NEW c \in Clients, LoadEarlier(c)
    PROVE  /\ PageIs(c, page[c].open, page[c].thread, Widened(c), page[c].sending) /\ Looked(c)
           /\ page[c].thread # 0
           /\ c = "ios" => \E x : LinkIs(x, "ios", "list", 0, 0, "view", 0) /\ links' = links \union {x}
<1>1. PageIs(c, page[c].open, page[c].thread, Widened(c), page[c].sending)
  BY PageWidened DEF ChatTyped, LoadEarlier
<1>2. PICK l \in PageSize..PageCap : OnScreen(c) = windows[c][l]
  BY OnScreenIs DEF ChatTyped
<1>3. page[c].thread # 0
  BY <1>2 DEF ChatTyped, WindowsTyped, LoadEarlier
<1>4. Widened(c) \in PageSize..PageCap /\ Even(Widened(c)) /\ page'[c].limit = Widened(c) /\ page[c].thread \in Threads
  BY <1>1, <1>3, WidenedLimit, CallKinds DEF ChatTyped, PageTyped, PageRecords, PageIs
<1>5. CASE c = "web"
  <2>1. Look(page["web"].thread, Widened("web"))
    BY <1>5 DEF LoadEarlier
  <2> QED
    BY <1>1, <1>3, <1>4, <1>5, <2>1, Looks DEF Looked
<1>6. CASE c = "ios"
  <2>1. LinkIs(Find("ios", "view"), "ios", "list", 0, 0, "view", 0)
    BY FindMade, CallKinds
  <2> QED
    BY <1>1, <1>3, <1>6, <2>1 DEF LoadEarlier, Looked
<1> QED
  BY <1>5, <1>6, CallKinds

LEMMA TypedLook ==
    ASSUME ChatTyped, IosOpen, NEW c \in Clients, Visit(c) \/ LoadEarlier(c)
    PROVE  ChatTyped'
<1>1. UNCHANGED <<threads, posts, state, sender, windows, overlaps, strained>>
  BY DEF Visit, LoadEarlier
<1>2. Looked(c) /\ PageTyped' /\ \A d \in Clients : page'[d].thread = page[d].thread
  BY Visits, Widens DEF PageIs
<1>3. \A y \in links' : \/ y \in links \/ (TypedLink(y) /\ y.kind = "list")
                        \/ (TypedLink(y) /\ y.c = "web" /\ page["web"].thread # 0)
  BY <1>2 DEF Looked, LinkIs
<1>4. LinksTyped' /\ InThread'
  BY <1>2, <1>3, CallsTyped, CallKinds
<1>5. WindowsTyped'
  BY <1>1, <1>2, WindowsKept DEF ChatTyped
<1>6. PostsTyped' /\ PlainTyped'
  BY <1>1, PostsKept DEF ChatTyped, PlainTyped
<1> QED
  BY <1>2, <1>4, <1>5, <1>6 DEF ChatTyped

LEMMA TypedLeave ==
    ASSUME ChatTyped, NEW c \in Clients, Leave(c)
    PROVE  ChatTyped' /\ PageIs(c, FALSE, 0, PageSize, 0)
<1>1. UNCHANGED <<threads, posts, state, overlaps, strained>> /\ sender' \in [Questions -> Clients \union {"nobody"}]
  BY DEF Leave, ChatTyped, PlainTyped
<1>2. PageIs(c, FALSE, 0, PageSize, 0)
  BY PageBlank DEF ChatTyped, Leave
<1>3. WindowsTyped'
  BY <1>2, Forgotten DEF ChatTyped, Leave, PageIs
<1>4. \A y \in links' : TypedLink(y) /\ ((y \in links /\ y.c # c) \/ y.c = "nobody")
  BY Leaves DEF ChatTyped, LinksTyped, Alike
<1>5. LinksTyped' /\ InThread'
  <2>1. \A y \in links' : y.c \in Clients /\ y.kind \in {"rows"} \union Streams => page'[y.c].thread # 0
    BY <1>2, <1>4, CallKinds DEF PageIs, ChatTyped, InThread
  <2>2. LinksTyped'
    BY <1>4 DEF LinksTyped, TypedLink, Links, SoundLink
  <2> QED
    BY <2>1, <2>2 DEF InThread
<1>6. PostsTyped' /\ PlainTyped'
  BY <1>1, PostsKept DEF ChatTyped, PlainTyped
<1> QED
  BY <1>2, <1>3, <1>5, <1>6 DEF ChatTyped, PageIs

LEMMA TypedNavigate ==
    ASSUME ChatTyped, Navigate
    PROVE  ChatTyped' /\ PageIs("web", FALSE, page["web"].thread, PageSize, 0)
<1>1. UNCHANGED <<threads, posts, state, sender, windows, overlaps, strained>>
  BY DEF Navigate
<1>2. PageIs("web", FALSE, page["web"].thread, PageSize, 0)
  <2>1. page["web"].thread \in {0} \union Threads
    BY CallKinds DEF ChatTyped, PageTyped, PageRecords
  <2>2. PICK b : b = [Blank EXCEPT !.thread = page["web"].thread]
    OBVIOUS
  <2>3. page' = [page EXCEPT !["web"] = b]
    BY <2>2 DEF Navigate
  <2>4. b = Blank => page["web"].thread = 0
    BY <2>2 DEF Blank
  <2> QED
    BY <2>1, <2>2, <2>3, <2>4, PageBlank, CallKinds DEF ChatTyped
<1>3. \A d \in Clients : page'[d].thread = page[d].thread
  BY <1>2 DEF PageIs
<1>4. \A y \in links' : y \in links \/ (TypedLink(y) /\ y.c = "web" /\ page["web"].thread # 0)
  <2>1. \A z \in links : z.c = "web" /\ z.kind \in Streams => page["web"].thread # 0
    BY CallKinds DEF ChatTyped, InThread
  <2>2. \A y \in links' : y \in links \/ (TypedLink(y) /\ y.c = "web" /\ \E z \in links : z.c = "web" /\ z.kind \in Streams)
    BY Navigates DEF Alike
  <2> QED
    BY <2>1, <2>2
<1>5. LinksTyped' /\ InThread'
  BY <1>3, <1>4, CallsTyped
<1>6. WindowsTyped'
  BY <1>1, <1>3, WindowsKept DEF ChatTyped
<1>7. PostsTyped' /\ PlainTyped'
  BY <1>1, PostsKept DEF ChatTyped, PlainTyped
<1> QED
  BY <1>2, <1>5, <1>6, <1>7 DEF ChatTyped, PageIs

LEMMA TypedStep ==
    ASSUME ChatTyped, IosOpen, ChatNext
    PROVE  ChatTyped'
<1>1. CASE Retry
  <2>1. PICK q \in Questions : MaySend("web") /\ Put("web", q)
    BY <1>1, RetryPuts
  <2> QED
    BY <1>1, <2>1, TypedPut, CallKinds DEF Retry
<1>2. ASSUME NEW c \in Clients, Send(c)
      PROVE  ChatTyped'
  <2>1. PICK q \in Questions : state' = [state EXCEPT ![q] = "asked"] /\ Put(c, q)
    BY <1>2, NextQuestion DEF Send
  <2> QED
    BY <1>2, <2>1, TypedPut DEF Send
<1> QED
  BY <1>1, <1>2, TypedServe, TypedHear, TypedLose, TypedLook, TypedLeave, TypedNavigate DEF ChatNext

-----------------------------------------------------------------------------
\* Conversations and those about to make one

LEMMA CountedWhere ==
    ASSUME CountedMakers, threads \in Seq(Threads), overlaps \in Nat, overlaps' = overlaps, Len(threads') = Len(threads),
           IsFiniteSet(Makers'), Cardinality(Makers') <= Cardinality(Makers)
    PROVE  CountedMakers'
<1>1. Len(threads) \in Nat
  OBVIOUS
<1>2. Cardinality(Makers) \in Nat /\ Cardinality(Makers') \in Nat
  BY FS_CardinalityType DEF CountedMakers
<1>3. Len(threads) + Cardinality(Makers) <= 1 + overlaps
  BY DEF CountedMakers
<1>4. PICK a, b : a = Cardinality(Makers) /\ b = Cardinality(Makers')
  OBVIOUS
<1>5. Len(threads') + b <= 1 + overlaps'
  BY <1>1, <1>2, <1>3, <1>4
<1> QED
  BY <1>4, <1>5 DEF CountedMakers

(* Who makes no more conversations than before.                              *)
LEMMA FewerMakers ==
    ASSUME CountedMakers, threads \in Seq(Threads), overlaps \in Nat, overlaps' = overlaps, Len(threads') = Len(threads),
           Makers' \subseteq Makers
    PROVE  CountedMakers'
<1>1. IsFiniteSet(Makers') /\ Cardinality(Makers') <= Cardinality(Makers)
  BY FS_Subset DEF CountedMakers
<1> QED
  BY <1>1, CountedWhere

(* One maker for another.                                                    *)
LEMMA MakerPassedOn ==
    ASSUME CountedMakers, threads \in Seq(Threads), overlaps \in Nat, overlaps' = overlaps, Len(threads') = Len(threads),
           NEW r \in Makers, NEW x, Makers' \subseteq (Makers \ {r}) \union {x}
    PROVE  CountedMakers'
<1>1. PICK S : S = Makers /\ IsFiniteSet(S) /\ Cardinality(S) \in Nat
  BY FS_CardinalityType DEF CountedMakers
<1>2. IsFiniteSet(S \ {r}) /\ Cardinality(S \ {r}) = Cardinality(S) - 1
  BY <1>1, FS_RemoveElement
<1>3. PICK R : R = S \ {r} /\ IsFiniteSet(R) /\ Cardinality(R) = Cardinality(S) - 1
  BY <1>2
<1>4. IsFiniteSet(R \cup {x}) /\ Cardinality(R \cup {x}) <= Cardinality(R) + 1
  <2>1. PICK n \in Int : n = Cardinality(R)
    BY <1>1, <1>3
  <2>2. IsFiniteSet(R \cup {x}) /\ Cardinality(R \cup {x}) = IF x \in R THEN n ELSE n + 1
    BY <1>3, <2>1, FS_AddElement
  <2> QED
    BY <2>1, <2>2
<1>5. IsFiniteSet(Makers') /\ Cardinality(Makers') <= Cardinality(R \cup {x}) /\ Cardinality(Makers') \in Nat /\ Cardinality(R \cup {x}) \in Nat
  BY <1>1, <1>3, <1>4, FS_Subset, FS_CardinalityType
<1>6. Cardinality(Makers') <= Cardinality(Makers)
  BY <1>1, <1>3, <1>4, <1>5
<1> QED
  BY <1>5, <1>6, CountedWhere

(* Each maker becomes what f says.                                           *)
LEMMA MakersBecome ==
    ASSUME CountedMakers, threads \in Seq(Threads), overlaps \in Nat, overlaps' = overlaps, Len(threads') = Len(threads),
           NEW f, f = [r \in Makers |-> f[r]], \A y \in Makers' : \E r \in Makers : y = f[r]
    PROVE  CountedMakers'
<1>1. PICK T : T = {f[r] : r \in Makers}
  OBVIOUS
<1>2. f \in Surjection(Makers, T)
  BY <1>1 DEF Surjection
<1>3. IsFiniteSet(T) /\ Cardinality(T) <= Cardinality(Makers)
  BY <1>2, FS_Surjection DEF CountedMakers
<1>4. Makers' \subseteq T
  BY <1>1
<1>5. IsFiniteSet(Makers') /\ Cardinality(Makers') <= Cardinality(T)
  BY <1>3, <1>4, FS_Subset
<1>6. Cardinality(Makers') \in Nat /\ Cardinality(T) \in Nat /\ Cardinality(Makers) \in Nat
  BY <1>3, <1>5, FS_CardinalityType DEF CountedMakers
<1>7. Cardinality(Makers') <= Cardinality(Makers)
  BY <1>3, <1>5, <1>6
<1> QED
  BY <1>5, <1>7, CountedWhere

LEMMA SameLength ==
    ASSUME threads \in Seq(Threads), threads' \in Seq(Threads), DOMAIN threads' = DOMAIN threads
    PROVE  Len(threads') = Len(threads)
<1>1. PICK a \in Nat, b \in Nat : a = Len(threads) /\ b = Len(threads') /\ 1..a = 1..b
  OBVIOUS
<1>2. ~(a < b)
  <2>1. b \in 1..a <=> b \in 1..b
    BY ONLY <1>1
  <2> QED
    BY ONLY <2>1, a \in Nat, b \in Nat
<1>3. ~(b < a)
  <2>1. a \in 1..a <=> a \in 1..b
    BY ONLY <1>1
  <2> QED
    BY ONLY <2>1, a \in Nat, b \in Nat
<1> QED
  BY <1>1, <1>2, <1>3

LEMMA MakersServe ==
    ASSUME ChatTyped, CountedMakers, NEW r \in links, ServeChat(r)
    PROVE  CountedMakers'
<1>1. /\ r \in Links /\ r.answer = "none" /\ threads \in Seq(Threads) /\ threads' \in Seq(Threads) /\ overlaps \in Nat
      /\ Makers \subseteq LookingForNone
  BY TypedServe DEF ChatTyped, LinksTyped, TypedLink, PlainTyped, ServeChat, Makers, LookingForNone
<1>2. PICK x : Served(x, r)
  BY Serves
<1>3. links' \subseteq (links \ {r}) \union {x}
  BY <1>2 DEF Served
<1>4. CASE ServeList(r)
  <2>1. r.kind = "list" /\ threads' = threads /\ overlaps' = IF threads = <<>> /\ LookingForNone # {} THEN overlaps + 1 ELSE overlaps
    BY <1>4 DEF ServeList
  <2>2. CASE threads = <<>>
    <3>1. Makers' \subseteq Makers \union {x}
      BY <1>3 DEF Makers
    <3>2. Len(threads) = 0
      BY <2>2
    <3>3. PICK S : S = Makers /\ IsFiniteSet(S) /\ Cardinality(S) \in Nat /\ Cardinality(S) <= 1 + overlaps
      BY <1>1, <3>2, FS_CardinalityType DEF CountedMakers
    <3>4. IsFiniteSet(S \cup {x}) /\ Cardinality(S \cup {x}) <= Cardinality(S) + 1
      BY <3>3, FS_AddElement
    <3>5. /\ IsFiniteSet(Makers') /\ Cardinality(Makers') <= Cardinality(S \cup {x})
          /\ Cardinality(Makers') \in Nat /\ Cardinality(S \cup {x}) \in Nat
      BY <3>1, <3>3, <3>4, FS_Subset, FS_CardinalityType
    <3>6. CASE LookingForNone # {}
      BY <1>1, <2>1, <2>2, <3>2, <3>3, <3>4, <3>5, <3>6 DEF CountedMakers
    <3>7. CASE LookingForNone = {}
      <4>1. Cardinality(S) = 0
        BY <1>1, <3>3, <3>7, FS_EmptySet
      <4> QED
        BY <1>1, <2>1, <3>2, <3>4, <3>5, <3>7, <4>1 DEF CountedMakers
    <3> QED
      BY <3>6, <3>7
  <2>3. CASE threads # <<>>
    <3>1. PICK y : y = [[r EXCEPT !.answer = "ok"] EXCEPT !.thread = threads[1]] /\ threads[1] \in Threads
      BY <1>1, <2>3
    <3>2. y.thread # 0 /\ y.kind = "list" /\ links' \subseteq (links \ {r}) \union {y}
      BY <1>1, <1>4, <2>1, <2>3, <3>1, CallKinds DEF ServeList, Reply, Links
    <3>3. Makers' \subseteq Makers
      BY <3>2 DEF Makers
    <3> QED
      BY <1>1, <2>1, <2>3, <3>3, FewerMakers
  <2> QED
    BY <2>2, <2>3
<1>5. CASE ServeCreate(r)
  <2>1. PICK t, y : t = Len(threads) + 1 /\ y = [[r EXCEPT !.answer = "ok"] EXCEPT !.thread = t]
    OBVIOUS
  <2>2. threads' = <<t>> \o threads /\ overlaps' = overlaps /\ r \in Makers /\ links' \subseteq (links \ {r}) \union {y}
        /\ y.kind = "create" /\ y.answer = "ok"
    BY <1>1, <1>5, <2>1 DEF ServeCreate, Makers, Reply, Links
  <2>3. Len(threads') = Len(threads) + 1
    <3>1. t \in Nat /\ <<t>> \in Seq(Nat) /\ threads \in Seq(Nat)
      BY <1>1, <2>1 DEF Threads
    <3> QED
      BY <2>2, <3>1, ConcatProperties
  <2>4. PICK S : S = Makers /\ IsFiniteSet(S) /\ Cardinality(S) \in Nat /\ Len(threads) + Cardinality(S) <= 1 + overlaps
    BY FS_CardinalityType DEF CountedMakers
  <2>5. IsFiniteSet(S \ {r}) /\ Cardinality(S \ {r}) = Cardinality(S) - 1
    BY <2>2, <2>4, FS_RemoveElement
  <2>6. Makers' \subseteq S \ {r}
    BY <2>2, <2>4 DEF Makers
  <2>7. IsFiniteSet(Makers') /\ Cardinality(Makers') <= Cardinality(S \ {r}) /\ Cardinality(Makers') \in Nat
    BY <2>5, <2>6, FS_Subset, FS_CardinalityType
  <2>8. Len(threads) \in Nat
    BY <1>1
  <2>9. PICK m : m = Cardinality(Makers')
    OBVIOUS
  <2>10. Len(threads') + m <= 1 + overlaps'
    BY <1>1, <2>2, <2>3, <2>4, <2>5, <2>7, <2>8, <2>9
  <2> QED
    BY <2>7, <2>9, <2>10 DEF CountedMakers
<1>6. CASE ServeRows(r) \/ ServeAsk(r) \/ ServeStream(r)
  <2>1. r.kind \in {"rows"} \union Streams /\ overlaps' = overlaps
    BY <1>6, CallKinds DEF ServeRows, ServeAsk, ServeStream
  <2>2. x.kind \notin {"list", "create"}
    BY <1>2, <2>1, CallKinds DEF Served
  <2>3. Makers' \subseteq Makers
    BY <1>3, <2>2 DEF Makers
  <2>4. DOMAIN threads' = DOMAIN threads
    BY <1>6 DEF ServeRows, ServeAsk, ServeStream, First
  <2> QED
    BY <1>1, <2>1, <2>3, <2>4, SameLength, FewerMakers
<1> QED
  BY <1>4, <1>5, <1>6 DEF ServeChat

LEMMA MakersHear ==
    ASSUME ChatTyped, CountedMakers, NEW r \in links, HearChat(r)
    PROVE  CountedMakers'
<1>1. threads \in Seq(Threads) /\ threads' = threads /\ overlaps \in Nat /\ overlaps' = overlaps /\ r.c \in Clients /\ r.answer = "ok"
  BY DEF HearChat, ChatTyped, PlainTyped
<1>2. CASE HearList(r) \/ HearCreate(r)
  <2>1. PICK x : (r \in Makers /\ Began(x, r)) \/ Entered(x, r)
    BY <1>1, <1>2, HearsFind
  <2>2. CASE r \in Makers /\ Began(x, r)
    <3>1. Makers' \subseteq (Makers \ {r}) \union {x}
      BY <2>2 DEF Began, Makers
    <3> QED
      BY <1>1, <2>2, <3>1, MakerPassedOn
  <2>3. CASE Entered(x, r)
    <3>1. Makers' \subseteq Makers
      BY <2>3 DEF Entered, LinkIs, Makers
    <3> QED
      BY <1>1, <3>1, FewerMakers
  <2> QED
    BY <2>1, <2>2, <2>3
<1>3. CASE HearRows(r)
  <2>1. Makers' \subseteq Makers
    BY <1>3 DEF HearRows, Makers
  <2> QED
    BY <1>1, <2>1, FewerMakers
<1>4. CASE r.kind = "stream" /\ HearEnd(r)
  <2>1. \A y \in links' : y \in links \/ y.kind = "rows" \/ (y.kind = "list" /\ y.answer = "none")
    BY <1>1, <1>4, HearsEnd DEF Renewing, LinkIs
  <2>2. Makers' \subseteq Makers
    BY <2>1 DEF Makers
  <2> QED
    BY <1>1, <2>2, FewerMakers
<1> QED
  BY <1>2, <1>3, <1>4 DEF HearChat

LEMMA MakersLose ==
    ASSUME ChatTyped, CountedMakers, NEW r \in links, LoseLink(r)
    PROVE  CountedMakers'
<1>1. threads \in Seq(Threads) /\ threads' = threads /\ overlaps \in Nat /\ overlaps' = overlaps
  BY DEF LoseLink, ChatTyped, PlainTyped
<1>2. PICK f : f = [x \in Makers |-> IF x = r THEN [r EXCEPT !.c = "nobody"] ELSE x]
  OBVIOUS
<1>3. ASSUME NEW y \in Makers' PROVE \E x \in Makers : y = f[x]
  <2>1. y \in links' /\ y.kind \in {"create", "list"}
    BY DEF Makers
  <2>2. CASE y \in links /\ y # r
    <3>1. y \in Makers
      BY <2>2 DEF Makers
    <3> QED
      BY <1>2, <2>2, <3>1
  <2>3. CASE y = [r EXCEPT !.c = "nobody"] /\ Alike(y, r)
    <3>1. r \in Makers
      BY <2>3 DEF Makers, Alike
    <3> QED
      BY <1>2, <2>3, <3>1
  <2> QED
    BY <2>1, <2>2, <2>3, Loses
<1> QED
  BY <1>1, <1>2, <1>3, MakersBecome

LEMMA MakersLeave ==
    ASSUME ChatTyped, CountedMakers, NEW c \in Clients, Leave(c)
    PROVE  CountedMakers'
<1>1. threads \in Seq(Threads) /\ threads' = threads /\ overlaps \in Nat /\ overlaps' = overlaps
  BY DEF Leave, ChatTyped, PlainTyped
<1>2. PICK f : f = [x \in Makers |-> IF x.c = c THEN [x EXCEPT !.c = "nobody"] ELSE x]
  OBVIOUS
<1>3. ASSUME NEW y \in Makers' PROVE \E x \in Makers : y = f[x]
  <2>1. CASE y \in links /\ y.c # c
    <3>1. y \in Makers
      BY <2>1 DEF Makers
    <3> QED
      BY <1>2, <2>1, <3>1
  <2>2. CASE \E r \in links : r.c = c /\ Alike(y, r) /\ y = [r EXCEPT !.c = "nobody"]
    <3>1. PICK r \in links : r.c = c /\ Alike(y, r) /\ y = [r EXCEPT !.c = "nobody"]
      BY <2>2
    <3>2. r \in Makers
      BY <3>1 DEF Makers, Alike
    <3> QED
      BY <1>2, <3>1, <3>2
  <2>3. y \in links'
    BY DEF Makers
  <2> QED
    BY <2>1, <2>2, <2>3, Leaves
<1> QED
  BY <1>1, <1>2, <1>3, MakersBecome

LEMMA MakersStep ==
    ASSUME ChatTyped, CountedMakers, IosOpen, ChatNext
    PROVE  CountedMakers'
<1>1. ASSUME Navigate \/ Retry \/ \E c \in Clients : Visit(c) \/ Send(c) \/ LoadEarlier(c)
      PROVE  CountedMakers'
  <2>1. threads \in Seq(Threads) /\ threads' = threads /\ overlaps \in Nat /\ overlaps' = overlaps
    BY <1>1 DEF Navigate, Retry, Visit, Send, LoadEarlier, ChatTyped, PlainTyped
  <2>2. \A y \in links' : y \in links \/ y.kind \in {"rows"} \union Streams \/ (y.kind = "list" /\ y.answer = "none")
    <3>1. CASE Navigate
      BY <3>1, Navigates
    <3>2. ASSUME NEW c \in Clients, Visit(c) \/ LoadEarlier(c)
          PROVE  \A y \in links' : y \in links \/ y.kind \in {"rows"} \union Streams \/ (y.kind = "list" /\ y.answer = "none")
      <4>1. Looked(c)
        BY <3>2, Visits, Widens
      <4> QED
        BY <4>1 DEF Looked, LinkIs
    <3>3. CASE Retry
      <4>1. PICK q \in Questions : MaySend("web") /\ Put("web", q)
        BY <3>3, RetryPuts
      <4>2. PICK x : PutLink(x, "web", q)
        BY <4>1, Puts, CallKinds
      <4> QED
        BY <4>2, CallKinds DEF PutLink, LinkIs
    <3>4. ASSUME NEW c \in Clients, Send(c)
          PROVE  \A y \in links' : y \in links \/ y.kind \in {"rows"} \union Streams
      <4>1. PICK q \in Questions : MaySend(c) /\ Put(c, q)
        BY <3>4, NextQuestion DEF Send
      <4>2. PICK x : PutLink(x, c, q)
        BY <4>1, Puts
      <4> QED
        BY <4>2, CallKinds DEF PutLink, LinkIs
    <3> QED
      BY <1>1, <3>1, <3>2, <3>3, <3>4
  <2>3. Makers' \subseteq Makers
    BY <2>2, CallKinds DEF Makers
  <2> QED
    BY <2>1, <2>3, FewerMakers
<1> QED
  BY <1>1, MakersServe, MakersHear, MakersLose, MakersLeave DEF ChatNext

-----------------------------------------------------------------------------
\* What a view waits for

LEMMA BusyIs ==
    ASSUME ChatTyped, NEW c \in Clients
    PROVE  \A r : r \in Busy(c) <=> r \in links /\ r.c = c /\ r.for = "send"
<1>1. \A r \in links : r.kind \in Streams \union Loads
  BY DEF ChatTyped, LinksTyped, TypedLink, Links
<1> QED
  BY <1>1 DEF Busy, Of

LEMMA BusyThen ==
    ASSUME ChatTyped', NEW c \in Clients
    PROVE  \A r : r \in Busy(c)' <=> r \in links' /\ r.c = c /\ r.for = "send"
<1>1. \A r \in links' : r.kind \in Streams \union Loads
  BY DEF ChatTyped, LinksTyped, TypedLink, Links
<1> QED
  BY <1>1 DEF Busy, Of

LEMMA BusyLess ==
    ASSUME ChatTyped, ChatTyped', NEW c \in Clients, OneBusy(c), page'[c].sending = page[c].sending,
           \A y \in links' : y.c = c /\ y.for = "send" => y \in links
    PROVE  OneBusy(c)'
<1>1. \A r : r \in Busy(c)' <=> r \in links' /\ r.c = c /\ r.for = "send"
  BY BusyThen
<1>2. Busy(c)' \subseteq Busy(c)
  BY <1>1, BusyIs
<1> QED
  BY <1>2 DEF OneBusy

LEMMA BusyPassed ==
    ASSUME ChatTyped, ChatTyped', NEW c \in Clients, OneBusy(c), page'[c].sending = page[c].sending,
           NEW r \in links, r.c = c /\ r.for = "send", NEW x,
           \A y \in links' : y.c = c /\ y.for = "send" => (y \in links /\ y # r) \/ y = x
    PROVE  OneBusy(c)'
<1>1. \A y : y \in Busy(c)' <=> y \in links' /\ y.c = c /\ y.for = "send"
  BY BusyThen
<1>2. r \in Busy(c) /\ \A y \in Busy(c)' : (y \in Busy(c) /\ y # r) \/ y = x
  BY <1>1, BusyIs
<1> QED
  BY <1>2 DEF OneBusy

LEMMA BusyNone ==
    ASSUME ChatTyped', NEW c \in Clients, \A y \in links' : ~(y.c = c /\ y.for = "send")
    PROVE  OneBusy(c)'
<1>1. \A y : y \in Busy(c)' <=> y \in links' /\ y.c = c /\ y.for = "send"
  BY BusyThen
<1>2. Busy(c)' = {}
  BY <1>1
<1> QED
  BY <1>2 DEF OneBusy

(* What a view waits for, and who looks for a conversation.                  *)
ViewsSound == Sending /\ WebFinds /\ IosOpen

LEMMA ViewsServe ==
    ASSUME ChatTyped, ViewsSound, NEW r \in links, ServeChat(r)
    PROVE  ViewsSound'
<1>1. r \in Links /\ ChatTyped' /\ UNCHANGED page
  BY TypedServe DEF ChatTyped, LinksTyped, TypedLink, ServeChat, ServeList, ServeCreate, ServeRows, ServeAsk, ServeStream
<1>2. PICK x : Served(x, r)
  BY Serves
<1>3. /\ links' \subseteq (links \ {r}) \union {x} /\ x.c = r.c /\ x.for = r.for
      /\ r.kind \in Loads => x.kind = r.kind
      /\ x.kind \in Loads => r.kind = x.kind
      /\ r.kind \in Loads \union Streams
  BY <1>1, <1>2, CallKinds DEF Served, Links
<1>4. ASSUME NEW c \in Clients PROVE OneBusy(c)'
  <2>1. OneBusy(c)
    BY DEF ViewsSound, Sending
  <2>2. CASE r.c = c /\ r.for = "send"
    BY <1>1, <1>3, <2>1, <2>2, BusyPassed
  <2>3. CASE ~(r.c = c /\ r.for = "send")
    BY <1>1, <1>3, <2>1, <2>3, BusyLess
  <2> QED
    BY <2>2, <2>3
<1>5. WebFinds'
  BY <1>1, <1>3, CallKinds DEF ViewsSound, WebFinds, Of
<1>6. IosOpen'
  BY <1>1, <1>3, CallKinds DEF ViewsSound, IosOpen, Of
<1> QED
  BY <1>4, <1>5, <1>6, SMTT(60) DEF ViewsSound, Sending

LEMMA ViewsHear ==
    ASSUME ChatTyped, ViewsSound, NEW r \in links, HearChat(r)
    PROVE  ViewsSound'
<1>1. r \in Links /\ SoundLink(r) /\ ChatTyped' /\ r.c \in Clients /\ r.answer = "ok" /\ PageTyped
  BY TypedHear DEF ChatTyped, LinksTyped, TypedLink, HearChat
<1>2. CASE HearList(r) \/ HearCreate(r)
  <2>1. PICK x : Began(x, r) \/ Entered(x, r)
    BY <1>1, <1>2, HearsFind
  <2>2. r.kind \in {"list", "create"} /\ r \in Of(r.c, {"list", "create"}) /\ r \in Of(r.c, Loads)
    BY <1>1, <1>2, HearsFind, CallKinds DEF Of
  <2>3. /\ links' \subseteq (links \ {r}) \union {x} /\ x.c = r.c /\ x.for = r.for /\ x.kind \in {"create", "rows"}
        /\ \A d \in Clients : page'[d].sending = page[d].sending /\ page'[d].open = page[d].open
        /\ \A d \in Clients : d # r.c => page'[d].thread = page[d].thread
        /\ x.kind = "create" => UNCHANGED page
    <3>1. CASE Began(x, r)
      BY <3>1, CallKinds DEF Began
    <3>2. CASE Entered(x, r)
      <4>1. PageIs(r.c, page[r.c].open, r.thread, page[r.c].limit, page[r.c].sending)
        BY <1>1, <3>2, PageThread DEF Entered
      <4> QED
        BY <3>2, <4>1, CallKinds DEF Entered, LinkIs, PageIs
    <3> QED
      BY <2>1, <3>1, <3>2
  <2>4. ASSUME NEW c \in Clients PROVE OneBusy(c)'
    <3>1. OneBusy(c)
      BY DEF ViewsSound, Sending
    <3>2. CASE r.c = c /\ r.for = "send"
      BY <1>1, <2>3, <3>1, <3>2, BusyPassed
    <3>3. CASE ~(r.c = c /\ r.for = "send")
      BY <1>1, <2>3, <3>1, <3>3, BusyLess
    <3> QED
      BY <3>2, <3>3
  <2>5. WebFinds'
    <3>1. CASE r.c = "web"
      BY <2>2, <2>3, <3>1, CallKinds DEF ViewsSound, WebFinds, Of
    <3>2. CASE r.c # "web"
      BY <2>2, <2>3, <3>2, CallKinds DEF ViewsSound, WebFinds, Of
    <3> QED
      BY <3>1, <3>2
  <2>6. IosOpen'
    BY <1>1, <2>2, <2>3, CallKinds DEF ViewsSound, IosOpen, Of
  <2> QED
    BY <2>4, <2>5, <2>6 DEF ViewsSound, Sending
<1>3. CASE HearRows(r)
  <2>1. links' = links \ {r} /\ page' = IF r.for = "send" THEN NotSending(r.c) ELSE page
    BY <1>3 DEF HearRows
  <2>2. \A d \in Clients : page'[d].thread = page[d].thread /\ page'[d].open = page[d].open /\ (d # r.c => page'[d].sending = page[d].sending)
    BY <1>1, <2>1, PageAtRest
  <2>3. ASSUME NEW c \in Clients PROVE OneBusy(c)'
    <3>1. OneBusy(c)
      BY DEF ViewsSound, Sending
    <3>2. CASE r.c = c /\ r.for = "send"
      <4>1. \A y \in links' : ~(y.c = c /\ y.for = "send")
        BY <2>1, <3>1, <3>2, BusyIs DEF OneBusy
      <4> QED
        BY <1>1, <4>1, BusyNone
    <3>3. CASE ~(r.c = c /\ r.for = "send")
      <4>1. page'[c].sending = page[c].sending
        BY <2>1, <2>2, <3>3
      <4> QED
        BY <1>1, <2>1, <3>1, <4>1, BusyLess
    <3> QED
      BY <3>2, <3>3
  <2>4. WebFinds'
    BY <2>1, <2>2, CallKinds DEF ViewsSound, WebFinds, Of
  <2>5. IosOpen'
    BY <2>1, <2>2, CallKinds DEF ViewsSound, IosOpen, Of
  <2> QED
    BY <2>3, <2>4, <2>5 DEF ViewsSound, Sending
<1>4. CASE r.kind = "stream" /\ HearEnd(r)
  <2>1. CASE /\ r.c = "web" /\ Renewing(links \ {r}) /\ page' = IF r.for = "send" THEN NotSending("web") ELSE page
    <3>1. \A d \in Clients : page'[d].thread = page[d].thread /\ page'[d].open = page[d].open /\ (d # "web" => page'[d].sending = page[d].sending)
      BY <1>1, <2>1, PageAtRest
    <3>2. ASSUME NEW y \in links'
          PROVE  (y \in links /\ y # r) \/ (y.c = "web" /\ y.kind = "rows" /\ y.for = "view")
      <4>1. ASSUME NEW z \in links \ {r}, z.c = "web", y.kind = "rows", Alike(y, z), y.for = z.for PROVE y.for = "view"
        BY <4>1, CallKinds DEF Alike, ViewsSound, WebFinds, Of
      <4> QED
        BY <2>1, <4>1 DEF Renewing, LinkIs
    <3>3. ASSUME NEW c \in Clients PROVE OneBusy(c)'
      <4>1. OneBusy(c)
        BY DEF ViewsSound, Sending
      <4>2. \A y \in links' : y.c = c /\ y.for = "send" => y \in links /\ y # r
        BY <3>2
      <4>3. CASE r.c = c /\ r.for = "send"
        <5>1. \A y \in links' : ~(y.c = c /\ y.for = "send")
          BY <4>1, <4>2, <4>3, BusyIs DEF OneBusy
        <5> QED
          BY <1>1, <5>1, BusyNone
      <4>4. CASE ~(r.c = c /\ r.for = "send")
        <5>1. page'[c].sending = page[c].sending
          BY <2>1, <3>1, <4>4
        <5> QED
          BY <1>1, <4>1, <4>2, <5>1, BusyLess
      <4> QED
        BY <4>3, <4>4
    <3>4. WebFinds'
      BY <3>1, <3>2, CallKinds DEF ViewsSound, WebFinds, Of
    <3>5. IosOpen'
      BY <3>1, <3>2, CallKinds DEF ViewsSound, IosOpen, Of
    <3> QED
      BY <3>3, <3>4, <3>5 DEF ViewsSound, Sending
  <2>2. CASE r.c = "ios" /\ UNCHANGED page /\ \E x : LinkIs(x, "ios", "list", 0, 0, "send", 0) /\ links' = (links \ {r}) \union {x}
    <3>1. PICK x : LinkIs(x, "ios", "list", 0, 0, "send", 0) /\ links' = (links \ {r}) \union {x}
      BY <2>2
    <3>2. r.for = "send" /\ page["ios"].open
      BY <1>1, <1>4, <2>2, CallKinds DEF ViewsSound, IosOpen, Of, SoundLink
    <3>3. ASSUME NEW c \in Clients PROVE OneBusy(c)'
      <4>1. OneBusy(c)
        BY DEF ViewsSound, Sending
      <4>2. CASE c = "ios"
        BY <1>1, <2>2, <3>1, <3>2, <4>1, <4>2, BusyPassed
      <4>3. CASE c # "ios"
        BY <1>1, <2>2, <3>1, <4>1, <4>3, BusyLess DEF LinkIs
      <4> QED
        BY <4>2, <4>3
    <3>4. WebFinds'
      BY <2>2, <3>1, CallKinds DEF ViewsSound, WebFinds, Of, LinkIs
    <3>5. IosOpen'
      BY <2>2, <3>1, <3>2, CallKinds DEF ViewsSound, IosOpen, Of, LinkIs
    <3> QED
      BY <3>3, <3>4, <3>5 DEF ViewsSound, Sending
  <2> QED
    BY <1>1, <1>4, <2>1, <2>2, HearsEnd
<1> QED
  BY <1>2, <1>3, <1>4 DEF HearChat

LEMMA ViewsLose ==
    ASSUME ChatTyped, ViewsSound, NEW r \in links, LoseLink(r)
    PROVE  ViewsSound'
<1>1. r.c \in Clients /\ ChatTyped' /\ PageTyped
  BY TypedLose, Loses DEF ChatTyped
<1>2. page' = page \/ (page' = NotSending(r.c) /\ r.for = "send")
  BY Loses
<1>3. \A d \in Clients : page'[d].thread = page[d].thread /\ page'[d].open = page[d].open /\ (d # r.c => page'[d].sending = page[d].sending)
  BY <1>1, <1>2, PageAtRest
<1>4. ASSUME NEW y \in links'
      PROVE  (y \in links /\ y # r) \/ y.c = "nobody" \/ (y.c = "web" /\ y.kind = "rows" /\ y.for = "view")
  <2>1. \A z \in links : z.c = "web" /\ z.kind = "rows" => z.for = "view"
    BY CallKinds DEF ViewsSound, WebFinds, Of
  <2> QED
    BY <2>1, Loses
<1>5. ASSUME NEW c \in Clients PROVE OneBusy(c)'
  <2>1. OneBusy(c)
    BY DEF ViewsSound, Sending
  <2>2. \A y \in links' : y.c = c /\ y.for = "send" => y \in links /\ y # r
    BY <1>4, CallKinds
  <2>3. CASE r.c = c /\ r.for = "send"
    <3>1. \A y \in links' : ~(y.c = c /\ y.for = "send")
      BY <2>1, <2>2, <2>3, BusyIs DEF OneBusy
    <3> QED
      BY <1>1, <3>1, BusyNone
  <2>4. CASE ~(r.c = c /\ r.for = "send")
    <3>1. page'[c].sending = page[c].sending
      BY <1>2, <1>3, <2>4
    <3> QED
      BY <1>1, <2>1, <2>2, <3>1, BusyLess
  <2> QED
    BY <2>3, <2>4
<1>6. WebFinds'
  BY <1>3, <1>4, CallKinds DEF ViewsSound, WebFinds, Of
<1>7. IosOpen'
  BY <1>3, <1>4, CallKinds DEF ViewsSound, IosOpen, Of
<1> QED
  BY <1>5, <1>6, <1>7 DEF ViewsSound, Sending

LEMMA ViewsPut ==
    ASSUME ChatTyped, ChatTyped', ViewsSound, NEW c \in Clients, NEW q \in Questions, MaySend(c), Put(c, q)
    PROVE  ViewsSound'
<1>1. PICK x : PutLink(x, c, q)
  BY Puts
<1>2. /\ links' = links \union {x} /\ x.c = c /\ x.kind = "ask" /\ x.for = "send" /\ page'[c].sending # 0 /\ page[c].sending = 0 /\ page[c].open
      /\ \A d \in Clients : page'[d].thread = page[d].thread /\ page'[d].open = page[d].open /\ (d # c => page'[d].sending = page[d].sending)
  BY <1>1, CallKinds DEF PutLink, LinkIs, PageIs, MaySend
<1>3. ASSUME NEW d \in Clients PROVE OneBusy(d)'
  <2>1. OneBusy(d)
    BY DEF ViewsSound, Sending
  <2>2. CASE d = c
    <3>1. \A y \in links : ~(y.c = c /\ y.for = "send")
      BY <1>2, <2>1, <2>2, BusyIs DEF OneBusy
    <3>2. \A y : y \in Busy(c)' <=> y \in links' /\ y.c = c /\ y.for = "send"
      BY BusyThen
    <3> QED
      BY <1>2, <2>2, <3>1, <3>2 DEF OneBusy
  <2>3. CASE d # c
    BY <1>2, <2>1, <2>3, BusyLess
  <2> QED
    BY <2>2, <2>3
<1>4. WebFinds'
  BY <1>2, CallKinds DEF ViewsSound, WebFinds, Of
<1>5. IosOpen'
  BY <1>2, CallKinds DEF ViewsSound, IosOpen, Of
<1> QED
  BY <1>3, <1>4, <1>5 DEF ViewsSound, Sending

LEMMA ViewsLook ==
    ASSUME ChatTyped, ViewsSound, NEW c \in Clients, Visit(c) \/ LoadEarlier(c)
    PROVE  ViewsSound'
<1>1. ChatTyped' /\ IosOpen
  BY TypedLook DEF ViewsSound
<1>2. Looked(c) /\ page'[c].open
  BY <1>1, Visits, Widens DEF PageIs, LoadEarlier
<1>3. \A d \in Clients : page'[d].thread = page[d].thread /\ page'[d].sending = page[d].sending /\ (d # c => page'[d].open = page[d].open)
  BY <1>1, Visits, Widens DEF PageIs
<1>4. \/ links' = links
      \/ \E x : /\ links' = links \union {x} /\ x.c = c /\ x.for = "view" /\ x.kind \in {"list", "rows"}
                /\ x.kind = "list" /\ c = "web" => page["web"].thread = 0 /\ Of("web", {"list", "create"}) = {}
  BY <1>2 DEF Looked, LinkIs
<1>5. ASSUME NEW d \in Clients PROVE OneBusy(d)'
  <2>1. OneBusy(d)
    BY DEF ViewsSound, Sending
  <2> QED
    BY <1>1, <1>3, <1>4, <2>1, BusyLess
<1>6. WebFinds'
  BY <1>3, <1>4, CallKinds DEF ViewsSound, WebFinds, Of
<1>7. IosOpen'
  BY <1>2, <1>3, <1>4, CallKinds DEF ViewsSound, IosOpen, Of
<1> QED
  BY <1>5, <1>6, <1>7 DEF ViewsSound, Sending

LEMMA ViewsLeave ==
    ASSUME ChatTyped, ViewsSound, NEW c \in Clients, Leave(c)
    PROVE  ViewsSound'
<1>1. ChatTyped' /\ PageIs(c, FALSE, 0, PageSize, 0)
  BY TypedLeave
<1>2. \A y \in links' : (y \in links /\ y.c # c) \/ y.c = "nobody"
  BY Leaves
<1>3. page'[c].thread = 0 /\ \A d \in Clients : d # c => page'[d] = page[d]
  BY <1>1 DEF PageIs
<1>4. ASSUME NEW d \in Clients PROVE OneBusy(d)'
  <2>1. OneBusy(d)
    BY DEF ViewsSound, Sending
  <2>2. CASE d = c
    BY <1>1, <1>2, <2>2, BusyNone, CallKinds
  <2>3. CASE d # c
    BY <1>1, <1>2, <1>3, <2>1, <2>3, BusyLess, CallKinds
  <2> QED
    BY <2>2, <2>3
<1>5. WebFinds'
  BY <1>2, <1>3, CallKinds DEF ViewsSound, WebFinds, Of
<1>6. IosOpen'
  BY <1>2, <1>3, CallKinds DEF ViewsSound, IosOpen, Of
<1> QED
  BY <1>4, <1>5, <1>6 DEF ViewsSound, Sending

LEMMA ViewsNavigate ==
    ASSUME ChatTyped, ViewsSound, Navigate
    PROVE  ViewsSound'
<1>1. ChatTyped' /\ PageIs("web", FALSE, page["web"].thread, PageSize, 0)
  BY TypedNavigate
<1>2. \A y \in links' : \/ y \in links /\ ~(y.c = "web" /\ y.kind \in Streams)
                        \/ y.c = "web" /\ y.kind \in Streams /\ y.for = "left"
  BY Navigates
<1>3. page'["web"].thread = page["web"].thread /\ page'["ios"] = page["ios"]
  BY <1>1, CallKinds DEF PageIs
<1>4. WebFinds'
  BY <1>2, <1>3, CallKinds DEF ViewsSound, WebFinds, Of
<1>5. \A y \in links' : y.c = "web" => y.for # "send"
  <2>1. \A y \in links : y.kind \in Loads \union Streams
    BY DEF ChatTyped, LinksTyped, TypedLink, Links
  <2> QED
    BY <1>2, <2>1, CallKinds DEF ViewsSound, WebFinds, Of
<1>6. OneBusy("web")' /\ OneBusy("ios")'
  <2>1. OneBusy("ios")
    BY CallKinds DEF ViewsSound, Sending
  <2>2. OneBusy("ios")'
    BY <1>1, <1>2, <1>3, <2>1, BusyLess, CallKinds
  <2> QED
    BY <1>1, <1>5, <2>2, BusyNone, CallKinds
<1>7. IosOpen'
  BY <1>2, <1>3, CallKinds DEF ViewsSound, IosOpen, Of
<1> QED
  BY <1>4, <1>6, <1>7, CallKinds DEF ViewsSound, Sending

LEMMA ViewsStep ==
    ASSUME ChatTyped, ViewsSound, ChatNext
    PROVE  ViewsSound'
<1>1. ChatTyped'
  BY TypedStep DEF ViewsSound
<1>2. CASE Retry
  BY <1>1, <1>2, RetryPuts, ViewsPut, CallKinds
<1>3. ASSUME NEW c \in Clients, Send(c) PROVE ViewsSound'
  BY <1>1, <1>3, NextQuestion, ViewsPut DEF Send
<1> QED
  BY <1>2, <1>3, ViewsServe, ViewsHear, ViewsLose, ViewsLook, ViewsLeave, ViewsNavigate DEF ChatNext

-----------------------------------------------------------------------------
\* Nobody else follows a client's question

LEMMA FollowedAsBefore ==
    ASSUME OwnFollowed, UNCHANGED sender, strained \subseteq strained',
           \A y \in links' : y.q = 0 \/ \E z \in links : (y.c = z.c \/ z.c \in strained') /\ y.q = z.q
    PROVE  OwnFollowed'
  BY DEF OwnFollowed

LEMMA FollowedHear ==
    ASSUME ChatTyped, OwnFollowed, NEW r \in links, HearChat(r)
    PROVE  OwnFollowed'
<1>1. UNCHANGED sender /\ strained \subseteq strained' /\ r.c \in Clients /\ r.answer = "ok"
  BY DEF HearChat
<1>2. \A y \in links' : y \in links \/ y.q = 0 \/ \E z \in links : y.c = z.c /\ y.q = z.q
  <2>1. CASE HearList(r) \/ HearCreate(r)
    BY <1>1, <2>1, HearsFind DEF Began, Entered, LinkIs
  <2>2. CASE HearRows(r)
    BY <2>2 DEF HearRows
  <2>3. CASE r.kind = "stream" /\ HearEnd(r)
    <3>1. CASE Renewing(links \ {r})
      BY <3>1 DEF Renewing, LinkIs, Alike
    <3>2. CASE \E x : LinkIs(x, "ios", "list", 0, 0, "send", 0) /\ links' = (links \ {r}) \union {x}
      BY <3>2 DEF LinkIs
    <3> QED
      BY <1>1, <2>3, <3>1, <3>2, HearsEnd
  <2> QED
    BY <2>1, <2>2, <2>3 DEF HearChat
<1> QED
  BY <1>1, <1>2, FollowedAsBefore

LEMMA FollowedPut ==
    ASSUME ChatTyped, OwnFollowed, NEW c \in Clients, NEW q \in Questions, MaySend(c), Put(c, q), UNCHANGED strained
    PROVE  OwnFollowed'
<1>1. PICK x : PutLink(x, c, q)
  BY Puts
<1>2. links' = links \union {x} /\ x.c = c /\ x.q = q
  BY <1>1 DEF PutLink, LinkIs
<1>3. \A p \in Questions : sender'[p] = IF p = q THEN (IF \E r \in links : r.q = q THEN "nobody" ELSE c) ELSE sender[p]
  BY DEF Put, ChatTyped, PlainTyped
<1>4. \A r \in links : r.q = 0 \/ r.q \in Questions
  BY DEF ChatTyped, LinksTyped, TypedLink, Links
<1> QED
  BY <1>2, <1>3, <1>4, CallKinds DEF OwnFollowed

LEMMA FollowedLeave ==
    ASSUME ChatTyped, OwnFollowed, NEW c \in Clients, Leave(c)
    PROVE  OwnFollowed'
<1>1. /\ UNCHANGED strained
      /\ \A q \in Questions : sender'[q] = "nobody" \/ sender'[q] = sender[q]
      /\ \A r \in Of(c, Streams) : r.q \in Questions => sender'[r.q] = "nobody"
  BY DEF Leave, Streams
<1>2. \A r \in links : (r.q = 0 \/ r.q \in Questions) /\ (r.kind = "create" => r.q = 0)
  BY CallKinds DEF ChatTyped, LinksTyped, TypedLink, Links, SoundLink
<1>3. ASSUME NEW y \in links'
      PROVE  y \in links \/ y.q = 0 \/ (y.q \in Questions /\ sender'[y.q] = "nobody")
  <2>1. CASE \E r \in links : r.c = c /\ Alike(y, r) /\ r.kind \in {"create"} \union Streams
    <3>1. PICK r \in links : r.c = c /\ y.q = r.q /\ r.kind \in {"create"} \union Streams
      BY <2>1 DEF Alike
    <3> QED
      BY <1>1, <1>2, <3>1 DEF Of
  <2> QED
    BY <2>1, Leaves
<1> QED
  BY <1>1, <1>2, <1>3, CallKinds DEF OwnFollowed

LEMMA FollowedStep ==
    ASSUME ChatTyped, IosOpen, OwnFollowed, ChatNext
    PROVE  OwnFollowed'
<1>1. CASE Retry
  BY <1>1, RetryPuts, FollowedPut, CallKinds DEF Retry
<1>2. ASSUME NEW c \in Clients, Send(c)
      PROVE  OwnFollowed'
  BY <1>2, NextQuestion, FollowedPut DEF Send
<1>3. ASSUME NEW c \in Clients, Visit(c) \/ LoadEarlier(c)
      PROVE  OwnFollowed'
  <2>1. Looked(c)
    BY <1>3, Visits, Widens
  <2>2. UNCHANGED <<sender, strained>> /\ \A y \in links' : y \in links \/ y.q = 0
    BY <1>3, <2>1 DEF Visit, LoadEarlier, Looked, LinkIs
  <2> QED
    BY <2>2, FollowedAsBefore
<1>4. CASE Navigate
  <2>1. UNCHANGED <<sender, strained>> /\ \A y \in links' : \E z \in links : y.c = z.c /\ y.q = z.q
    BY <1>4, Navigates DEF Navigate, Alike
  <2> QED
    BY <2>1, FollowedAsBefore
<1>5. ASSUME NEW r \in links, ServeChat(r)
      PROVE  OwnFollowed'
  <2>1. PICK x : Served(x, r)
    BY <1>5, Serves
  <2>2. UNCHANGED <<sender, strained>> /\ \A y \in links' : y \in links \/ (y.c = r.c /\ y.q = r.q)
    BY <1>5, <2>1 DEF Served, ServeChat
  <2> QED
    BY <2>2, FollowedAsBefore
<1>6. ASSUME NEW r \in links, LoseLink(r)
      PROVE  OwnFollowed'
  <2>1. UNCHANGED sender /\ strained' = strained \union {r.c}
    BY <1>6, Loses DEF LoseLink
  <2>2. \A y \in links' : y \in links \/ y.q = 0 \/ y.q = r.q
    BY <1>6, Loses DEF Alike
  <2> QED
    BY <2>1, <2>2, FollowedAsBefore
<1> QED
  BY <1>1, <1>2, <1>3, <1>4, <1>5, <1>6, FollowedHear, FollowedLeave DEF ChatNext

-----------------------------------------------------------------------------
\* Windows stay fresh, or are being fetched

(* What others do in one step leaves a client's own questions as they are    *)
(* and adds to a conversation none of them.                                  *)
Undisturbed(c) ==
    /\ \A q \in Questions : sender'[q] = c => sender[q] = c /\ state'[q] = state[q]
    /\ \A t \in Threads :
         \/ posts'[t] = posts[t]
         \/ \E q \in Questions : sender'[q] # c /\ posts'[t] = posts[t] \o <<<<"user", q>>, <<"assistant", q>>>>

(* What the API tells is fresh at that moment.                               *)
LEMMA FreshNow ==
    ASSUME PlainTyped, PostsTyped, NEW c \in Clients, NEW t \in Threads, NEW limit \in Nat
    PROVE  Fresh(c, t, Told(NewestOf(posts[t], limit)), limit)
<1>1. PICK s \in Seq(Posts) : s = posts[t]
  BY DEF PostsTyped
<1>2. PICK n \in Nat : n = Len(s)
  OBVIOUS
<1>3. SubSeq(s, 1, n) = s /\ n \in 0..n /\ (n + 1)..n = {}
  BY <1>2
<1>4. PICK w \in Seq(Posts) : w = NewestOf(s, limit)
  <2>1. PICK k \in Nat : k = IF Len(s) <= limit THEN 0 ELSE Len(s) - limit
    <3>1. (IF Len(s) <= limit THEN 0 ELSE Len(s) - limit) \in Nat
      BY <1>2
    <3> QED
      BY <3>1
  <2> HIDE DEF Posts
  <2> QED
    BY <1>1, <2>1, Newest
<1>5. PICK rows \in Seq(Items) : rows = Told(w) /\ Ids(rows) = w /\ \A i \in DOMAIN rows : rows[i].state = state[rows[i].q]
  BY ToldRows
<1>6. [i \in DOMAIN rows |-> <<rows[i].role, rows[i].q>>] = NewestOf(SubSeq(s, 1, n), limit)
  BY <1>3, <1>4, <1>5 DEF Ids
<1> QED
  BY <1>1, <1>2, <1>3, <1>4, <1>5, <1>6 DEF Fresh

(* Storing a pair leaves what was before, and adds only that question.       *)
LEMMA PairTail ==
    ASSUME NEW s \in Seq(Posts), NEW q \in Questions, NEW w, w = s \o <<<<"user", q>>, <<"assistant", q>>>>,
           NEW n \in 0..Len(s)
    PROVE  /\ Len(w) = Len(s) + 2 /\ n \in 0..Len(w) /\ SubSeq(w, 1, n) = SubSeq(s, 1, n)
           /\ \A i \in (n + 1)..Len(w) : (i \in (n + 1)..Len(s) /\ w[i] = s[i]) \/ w[i][2] = q
<1>1. PICK x, y : x = <<"user", q>> /\ y = <<"assistant", q>>
  OBVIOUS
<1>2. x \in Posts /\ y \in Posts /\ x[2] = q /\ y[2] = q /\ w = s \o <<x, y>>
  BY <1>1 DEF Posts
<1> HIDE DEF Posts
<1>3. PICK z \in Seq(Posts) : z = <<x, y>> /\ Len(z) = 2 /\ z[1] = x /\ z[2] = y
  <2>1. <<x, y>> \in Seq(Posts) /\ Len(<<x, y>>) = 2 /\ <<x, y>>[1] = x /\ <<x, y>>[2] = y
    BY ONLY <1>2
  <2> QED
    BY <2>1
<1>4. PICK l \in Nat : l = Len(s) /\ n <= l /\ n \in Nat
  OBVIOUS
<1>5. w \in Seq(Posts) /\ Len(w) = l + 2 /\ \A i \in 1..(l + 2) : w[i] = IF i <= l THEN s[i] ELSE z[i - l]
  <2>1. /\ s \o z \in Seq(Posts) /\ Len(s \o z) = Len(s) + Len(z)
        /\ \A i \in 1..(Len(s) + Len(z)) : (s \o z)[i] = IF i <= Len(s) THEN s[i] ELSE z[i - Len(s)]
    BY ConcatProperties
  <2> QED
    BY <1>2, <1>3, <1>4, <2>1
<1>6. SubSeq(w, 1, n) = SubSeq(s, 1, n)
  <2>1. \A i \in 1..n : w[i] = s[i] /\ w[i] \in Posts /\ s[i] \in Posts
    <3>1. \A i \in 1..n : i \in 1..l /\ i \in 1..(l + 2) /\ i <= l
      BY <1>4
    <3> QED
      BY <1>4, <1>5, <3>1
  <2>2. PICK a, b : a = SubSeq(w, 1, n) /\ b = SubSeq(s, 1, n)
    OBVIOUS
  <2>3. /\ a \in Seq(Posts) /\ Len(a) = (IF 1 <= n THEN n - 1 + 1 ELSE 0) /\ \A i \in 1..(n - 1 + 1) : a[i] = w[1 + i - 1]
        /\ b \in Seq(Posts) /\ Len(b) = (IF 1 <= n THEN n - 1 + 1 ELSE 0) /\ \A i \in 1..(n - 1 + 1) : b[i] = s[1 + i - 1]
    BY <1>4, <1>5, <2>1, <2>2, SubSeqProperties
  <2>4. n - 1 + 1 = n /\ (IF 1 <= n THEN n - 1 + 1 ELSE 0) = n /\ \A i \in 1..n : 1 + i - 1 = i
    BY <1>4
  <2>5. Len(a) = n /\ Len(b) = n /\ \A i \in 1..n : a[i] = w[i] /\ b[i] = s[i]
    BY ONLY <2>3, <2>4
  <2> QED
    BY <2>1, <2>2, <2>3, <2>5, SeqEqual
<1>7. ASSUME NEW i \in (n + 1)..(l + 2)
      PROVE  (i \in (n + 1)..l /\ w[i] = s[i]) \/ w[i][2] = q
  <2>1. i \in 1..(l + 2) /\ (i <= l => i \in (n + 1)..l) /\ (~(i <= l) => i - l = 1 \/ i - l = 2)
    <3>1. l \in Nat /\ n \in Nat /\ i \in (n + 1)..(l + 2)
      BY <1>4
    <3>2. i \in Int /\ n + 1 <= i /\ i <= l + 2
      BY ONLY <3>1
    <3>3. i \in 1..(l + 2)
      BY ONLY <3>1, <3>2
    <3>4. ASSUME i <= l PROVE i \in (n + 1)..l
      BY ONLY <3>1, <3>2, <3>4
    <3>5. ASSUME ~(i <= l) PROVE i - l = 1 \/ i - l = 2
      BY ONLY <3>1, <3>2, <3>5
    <3> QED
      BY ONLY <3>3, <3>4, <3>5
  <2>2. CASE i <= l
    BY <1>5, <2>1, <2>2
  <2>3. CASE ~(i <= l)
    <3>1. w[i] = z[i - l]
      BY <1>5, <2>1, <2>3
    <3> QED
      BY <1>2, <1>3, <2>1, <2>3, <3>1
  <2> QED
    BY <2>2, <2>3
<1>8. n \in 0..(l + 2)
  BY <1>4
<1> QED
  BY <1>4, <1>5, <1>6, <1>7, <1>8

(* What was fresh stays so while others are at work.                         *)
LEMMA FreshStays ==
    ASSUME PostsTyped, NEW c \in Clients, NEW t \in Threads, NEW rows \in Seq(Items), NEW limit,
           Fresh(c, t, rows, limit), Undisturbed(c)
    PROVE  Fresh(c, t, rows, limit)'
<1>0. PICK s \in Seq(Posts) : s = posts[t]
  BY DEF PostsTyped
<1>1. PICK w : s = posts[t] /\ w = posts'[t]
  BY <1>0
<1>2. PICK n \in 0..Len(s) :
      /\ [i \in DOMAIN rows |-> <<rows[i].role, rows[i].q>>] = NewestOf(SubSeq(s, 1, n), limit)
      /\ \A i \in (n + 1)..Len(s) : sender[s[i][2]] # c
      /\ \A i \in DOMAIN rows : sender[rows[i].q] = c => rows[i].state = state[rows[i].q]
  BY <1>1 DEF Fresh
<1>3. \A i \in DOMAIN rows : rows[i].q \in Questions
  <2>1. \A i \in DOMAIN rows : rows[i] \in Items
    <3> HIDE DEF Items
    <3> QED
      OBVIOUS
  <2>2. \A x \in Items : x.q \in Questions
    BY DEF Items
  <2> QED
    BY <2>1, <2>2
<1>4. \A i \in DOMAIN rows : sender'[rows[i].q] = c => rows[i].state = state'[rows[i].q]
  BY <1>2, <1>3 DEF Undisturbed
<1>5. \A i \in (n + 1)..Len(s) : s[i][2] \in Questions /\ sender'[s[i][2]] # c
  <2>1. \A i \in (n + 1)..Len(s) : i \in 1..Len(s)
    BY <1>2
  <2>2. \A i \in 1..Len(s) : s[i][2] \in Questions
    BY DEF Posts
  <2> QED
    BY <1>2, <2>1, <2>2 DEF Undisturbed
<1>6. n \in 0..Len(w) /\ SubSeq(w, 1, n) = SubSeq(s, 1, n) /\ \A i \in (n + 1)..Len(w) : sender'[w[i][2]] # c
  <2>1. CASE w = s
    BY <1>5, <2>1
  <2>2. CASE w # s
    <3>1. PICK q \in Questions : sender'[q] # c /\ w = s \o <<<<"user", q>>, <<"assistant", q>>>>
      BY <1>1, <2>2 DEF Undisturbed
    <3>2. /\ n \in 0..Len(w) /\ SubSeq(w, 1, n) = SubSeq(s, 1, n)
          /\ \A i \in (n + 1)..Len(w) : (i \in (n + 1)..Len(s) /\ w[i] = s[i]) \/ w[i][2] = q
      BY <3>1, PairTail
    <3> QED
      BY <1>5, <3>1, <3>2
  <2> QED
    BY <2>1, <2>2
<1> QED
  BY <1>1, <1>2, <1>4, <1>6 DEF Fresh

LEMMA FreshSame ==
    ASSUME UNCHANGED <<posts, state, sender>>, NEW c, NEW t, NEW rows, NEW limit, Fresh(c, t, rows, limit)
    PROVE  Fresh(c, t, rows, limit)'
  BY DEF Fresh

LEMMA Unmoved ==
    ASSUME UNCHANGED <<posts, state, sender>>
    PROVE  \A c \in Clients : Undisturbed(c)
  BY DEF Undisturbed

(* The calls of a client are as they were.                                   *)
SameLinks(c) == \A x : x.c = c => (x \in links' <=> x \in links)

LEMMA SameFetches ==
    ASSUME NEW c, SameLinks(c)
    PROVE  (\A K : Of(c, K)' = Of(c, K)) /\ (c = "web" => \A l : FetchesOf(l)' = FetchesOf(l))
  BY DEF SameLinks, Of, FetchesOf

(* The rows on their way to a client are of a conversation; so is what it    *)
(* has.                                                                      *)
LEMMA RowsAre ==
    ASSUME ChatTyped, NEW c \in Clients, NEW r \in Of(c, {"rows"})
    PROVE  r \in links /\ r.c = c /\ r.kind = "rows" /\ r.thread \in Threads /\ r.found \in Seq(Items) /\ r.limit \in Nat /\ r.limit \in PageSize..PageCap
  BY DEF Of, ChatTyped, LinksTyped, TypedLink, SoundLink, Links

LEMMA HadAre ==
    ASSUME ChatTyped, NEW c \in Clients, NEW l \in PageSize..PageCap, windows[c][l].had
    PROVE  page[c].thread \in Threads /\ windows[c][l].rows \in Seq(Items)
<1>1. PICK e : e = windows[c][l]
  OBVIOUS
<1>2. e \in CachedWindows /\ page[c].thread # 0
  BY <1>1 DEF ChatTyped, WindowsTyped
<1>3. e.rows \in Seq(Items)
  BY <1>2 DEF CachedWindows
<1> QED
  BY <1>1, <1>2, <1>3, CallKinds DEF ChatTyped, PageTyped, PageRecords

LEMMA PageSizeIs == PageSize \in PageSize..PageCap
  BY ChatViewsAssumption

LEMMA LimitIs ==
    ASSUME ChatTyped, NEW c \in Clients
    PROVE  page[c].limit \in PageSize..PageCap
  BY DEF ChatTyped, PageTyped, PageRecords

(* A client none of whose calls or whose page or windows change.            *)
LEMMA WindowStays ==
    ASSUME ChatTyped, NEW c \in Clients, WindowComing(c), Undisturbed(c), page'[c] = page[c], windows'[c] = windows[c], SameLinks(c)
    PROVE  WindowComing(c)'
<1>1. \A K : Of(c, K)' = Of(c, K)
  BY SameFetches
<1>2. RowsComing(c)'
  <2>1. ASSUME NEW r \in Of(c, {"rows"}), Fresh(c, r.thread, r.found, r.limit)
        PROVE  Fresh(c, r.thread, r.found, r.limit)'
    BY <2>1, RowsAre, FreshStays DEF ChatTyped
  <2> QED
    BY <1>1, <2>1, CallKinds DEF WindowComing, RowsComing
<1>3. ASSUME c = "web" PROVE WebComing'
  <2>1. \A l : FetchesOf(l)' = FetchesOf(l)
    BY <1>3, SameFetches
  <2>2. ASSUME NEW l \in PageSize..PageCap, windows["web"][l].had, Fresh("web", page["web"].thread, windows["web"][l].rows, l)
        PROVE  Fresh("web", page["web"].thread, windows["web"][l].rows, l)'
    <3>1. PICK t \in Threads, rows \in Seq(Items) : t = page["web"].thread /\ rows = windows["web"][l].rows
      BY <2>2, HadAre, CallKinds
    <3>2. Fresh("web", t, rows, l)'
      BY <1>3, <2>2, <3>1, FreshStays DEF ChatTyped
    <3> QED
      BY <1>3, <3>1, <3>2
  <2> QED
    BY <1>1, <1>3, <2>1, <2>2 DEF WindowComing, WebComing
<1>4. ASSUME c = "ios" PROVE IosComing'
  <2>1. ASSUME windows["ios"][PageSize].had, Fresh("ios", page["ios"].thread, windows["ios"][PageSize].rows, page["ios"].limit)
        PROVE  Fresh("ios", page["ios"].thread, windows["ios"][PageSize].rows, page["ios"].limit)'
    <3>1. PICK t \in Threads, rows \in Seq(Items), l \in PageSize..PageCap : t = page["ios"].thread /\ rows = windows["ios"][PageSize].rows /\ l = page["ios"].limit
      BY <2>1, HadAre, PageSizeIs, LimitIs, CallKinds
    <3>2. Fresh("ios", t, rows, l)'
      BY <1>4, <2>1, <3>1, FreshStays DEF ChatTyped
    <3> QED
      BY <1>4, <3>1, <3>2
  <2> QED
    BY <1>1, <1>4, <2>1 DEF WindowComing, IosComing, Loading
<1> QED
  BY <1>2, <1>3, <1>4 DEF WindowComing

(* The API at work on another's call disturbs no client that lost none.      *)
LEMMA ServesUndisturbed ==
    ASSUME ChatTyped, OwnFollowed, NEW c \in Clients \ strained, NEW r \in links, ServeChat(r), r.c # c \/ r.kind \in Loads
    PROVE  Undisturbed(c)
<1>1. SoundLink(r) /\ UNCHANGED sender /\ state \in [Questions -> {"none", "asked", "pending", "completed", "failed"}]
      /\ posts \in [Threads -> Seq(Posts)]
  BY DEF ChatTyped, LinksTyped, TypedLink, PlainTyped, PostsTyped, ServeChat
<1>2. CASE ServeAsk(r) \/ ServeStream(r)
  <2>1. r.kind \in Streams /\ r.kind \notin Loads
    BY <1>2, CallKinds DEF ServeAsk, ServeStream
  <2>2. r.q \in Questions /\ r.q # 0 /\ r.thread \in Threads
    BY <1>1, <2>1, CallKinds DEF SoundLink
  <2>3. sender[r.q] # c
    BY <2>1, <2>2 DEF OwnFollowed
  <2>4. \A q \in Questions : q # r.q => state'[q] = state[q]
    BY <1>1, <1>2 DEF ServeAsk, ServeStream
  <2>5. \A t \in Threads : posts'[t] = posts[t] \/ posts'[t] = posts[t] \o <<<<"user", r.q>>, <<"assistant", r.q>>>>
    <3>1. posts' = posts \/ posts' = [posts EXCEPT ![r.thread] = posts[r.thread] \o <<<<"user", r.q>>, <<"assistant", r.q>>>>]
      BY <1>2 DEF ServeAsk, ServeStream
    <3> QED
      BY <1>1, <3>1
  <2> QED
    BY <1>1, <2>2, <2>3, <2>4, <2>5 DEF Undisturbed
<1>3. CASE ServeList(r) \/ ServeCreate(r) \/ ServeRows(r)
  BY <1>1, <1>3 DEF ServeList, ServeCreate, ServeRows, Undisturbed
<1> QED
  BY <1>2, <1>3 DEF ServeChat

LEMMA WindowsServe ==
    ASSUME ChatTyped, OwnFollowed, WindowsComing, NEW r \in links, ServeChat(r)
    PROVE  WindowsComing'
<1>1. PICK x : Served(x, r)
  BY Serves
<1>2. UNCHANGED <<page, windows, sender, strained>> /\ r \in Links /\ SoundLink(r) /\ r.kind \in Loads \union Streams
  BY DEF ServeChat, ServeList, ServeCreate, ServeRows, ServeAsk, ServeStream, ChatTyped, LinksTyped, TypedLink, Links
<1>3. ASSUME NEW c \in Clients \ strained, r.c # c
      PROVE  WindowComing(c)'
  <2>1. SameLinks(c)
    BY <1>1, <1>3 DEF Served, SameLinks
  <2>2. Undisturbed(c)
    BY <1>3, ServesUndisturbed
  <2> QED
    BY <1>2, <1>3, <2>1, <2>2, WindowStays DEF WindowsComing
<1>4. ASSUME NEW c \in Clients \ strained, r.c = c
      PROVE  WindowComing(c)'
  <2>1. WindowComing(c) /\ x \in links' /\ x.c = c
    BY <1>1, <1>4 DEF WindowsComing, Served
  <2>2. Of(c, Streams) # {} => Of(c, Streams)' # {}
    BY <1>1, <1>2, <2>1, CallKinds DEF Of, Served
  <2>3. Of(c, {"list", "create"}) # {} => Of(c, {"list", "create"})' # {}
    BY <1>1, <1>2, <2>1, CallKinds DEF Of, Served
  <2>4. Loading(c) # {} => Loading(c)' # {}
    BY <1>1, <1>2, <2>1, CallKinds DEF Of, Loading, Served
  <2>5. r.kind \in Loads => Undisturbed(c)
    BY ServesUndisturbed
  <2>6. r.kind \in Streams => Of(c, Streams)' # {}
    BY <1>1, <2>1 DEF Of, Served
  <2>7. ASSUME NEW a \in Of(c, {"rows"})', a # x
        PROVE  /\ a.thread = page'[c].thread
               /\ c = "ios" /\ a.limit # page'["ios"].limit => Of("ios", {"list", "create"})' # {}
               /\ a.answer = "ok" /\ ~a.late => Of(c, Streams)' # {} \/ Fresh(c, a.thread, a.found, a.limit)'
    <3>1. a \in Of(c, {"rows"})
      BY <1>1, <2>7 DEF Of, Served
    <3>2. r.kind \in Loads /\ Fresh(c, a.thread, a.found, a.limit) => Fresh(c, a.thread, a.found, a.limit)'
      BY <2>5, <3>1, RowsAre, FreshStays DEF ChatTyped
    <3> QED
      BY <1>2, <2>1, <2>2, <2>3, <2>6, <3>1, <3>2 DEF WindowComing, RowsComing
  <2>8. ASSUME x \in Of(c, {"rows"})'
        PROVE  /\ x.thread = page'[c].thread
               /\ c = "ios" /\ x.limit # page'["ios"].limit => Of("ios", {"list", "create"})' # {}
               /\ Fresh(c, x.thread, x.found, x.limit)'
    <3>1. r.kind = "rows" /\ r \in Of(c, {"rows"})
      BY <1>1, <1>2, <1>4, <2>8, CallKinds DEF Of, Served
    <3>2. r.thread \in Threads /\ r.limit \in Nat
      BY <3>1, RowsAre
    <3>3. PICK f : f = Told(NewestOf(posts[r.thread], r.limit)) /\ Fresh(c, r.thread, f, r.limit)
      BY <3>2, FreshNow DEF ChatTyped
    <3>4. UNCHANGED <<posts, state, sender>> /\ x.thread = r.thread /\ x.limit = r.limit /\ x.found = f
      BY <1>1, <1>2, <3>1, <3>3 DEF Served
    <3>5. Fresh(c, r.thread, f, r.limit)'
      BY <3>3, <3>4, FreshSame
    <3> QED
      BY <1>2, <2>1, <2>3, <3>1, <3>4, <3>5 DEF WindowComing, RowsComing
  <2>9. RowsComing(c)'
    BY <2>7, <2>8 DEF RowsComing
  <2>10. ASSUME c = "web" PROVE WebComing'
    <3>1. \A l : FetchesOf(l)' = {} => FetchesOf(l) = {}
      BY <1>1, <1>2, <2>1, <2>10, CallKinds DEF FetchesOf, Of, Served
    <3>2. ASSUME NEW l \in PageSize..PageCap, windows["web"][l].had, Fresh("web", page["web"].thread, windows["web"][l].rows, l), r.kind \in Loads
          PROVE  Fresh("web", page["web"].thread, windows["web"][l].rows, l)'
      <4>1. PICK t \in Threads, rows \in Seq(Items) : t = page["web"].thread /\ rows = windows["web"][l].rows
        BY <3>2, HadAre, CallKinds
      <4>2. Fresh("web", t, rows, l)'
        BY <2>5, <2>10, <3>2, <4>1, FreshStays DEF ChatTyped
      <4> QED
        BY <1>2, <4>1, <4>2
    <3> QED
      BY <1>2, <2>1, <2>2, <2>6, <2>10, <3>1, <3>2 DEF WindowComing, WebComing
  <2>11. ASSUME c = "ios" PROVE IosComing'
    <3>1. ASSUME windows["ios"][PageSize].had, Fresh("ios", page["ios"].thread, windows["ios"][PageSize].rows, page["ios"].limit), r.kind \in Loads
          PROVE  Fresh("ios", page["ios"].thread, windows["ios"][PageSize].rows, page["ios"].limit)'
      <4>1. PICK t \in Threads, rows \in Seq(Items), l \in PageSize..PageCap : t = page["ios"].thread /\ rows = windows["ios"][PageSize].rows /\ l = page["ios"].limit
        BY <3>1, HadAre, PageSizeIs, LimitIs, CallKinds
      <4>2. Fresh("ios", t, rows, l)'
        BY <2>5, <2>11, <3>1, <4>1, FreshStays DEF ChatTyped
      <4> QED
        BY <1>2, <4>1, <4>2
    <3> QED
      BY <1>2, <2>1, <2>2, <2>4, <2>6, <2>11, <3>1 DEF WindowComing, IosComing
  <2> QED
    BY <2>9, <2>10, <2>11 DEF WindowComing
<1> QED
  BY <1>2, <1>3, <1>4 DEF WindowsComing

(* What a client hears of looking for its conversation.                      *)
LEMMA WindowsFind ==
    ASSUME ChatTyped, ViewsSound, NEW r \in links, r.c \in Clients, r.answer = "ok", HearList(r) \/ HearCreate(r),
           r.c = "ios" => Loading("ios") \ {r} = {}
    PROVE  WindowComing(r.c)'
<1>1. r.kind \in {"list", "create"} /\ UNCHANGED windows /\ r \in Of(r.c, {"list", "create"}) /\ r \in Of(r.c, Loads)
  BY HearsFind, CallKinds DEF Of
<1>2. PICK x : Began(x, r) \/ Entered(x, r)
  BY HearsFind
<1>3. Of(r.c, {"rows"}) = {}
  <2>1. CASE r.c = "web"
    BY <1>1, <2>1, CallKinds DEF ViewsSound, WebFinds, ChatTyped, InThread, Of
  <2>2. CASE r.c = "ios"
    BY <1>1, <2>2, CallKinds DEF Loading, Of
  <2> QED
    BY <2>1, <2>2, CallKinds
<1>4. links' \subseteq (links \ {r}) \union {x} /\ x.answer = "none" /\ x.c = r.c
  BY <1>2 DEF Began, Entered, LinkIs
<1>5. CASE Began(x, r)
  <2>1. Of(r.c, {"rows"})' = {} /\ x \in Of(r.c, {"list", "create"})' /\ page' = page
    BY <1>3, <1>5 DEF Began, Of
  <2>2. RowsComing(r.c)'
    BY <2>1 DEF RowsComing
  <2>3. ASSUME r.c = "web" PROVE WebComing'
    <3>1. page["web"].thread = 0
      BY <1>1, <2>3, CallKinds DEF ViewsSound, WebFinds
    <3>2. \A l \in PageSize..PageCap : ~windows["web"][l].had
      BY <3>1, CallKinds DEF ChatTyped, WindowsTyped
    <3> QED
      BY <1>1, <2>1, <3>1, <3>2 DEF WebComing
  <2>4. ASSUME r.c = "ios" PROVE IosComing'
    BY <2>1, <2>4 DEF IosComing, Loading, Of
  <2> QED
    BY <2>2, <2>3, <2>4 DEF WindowComing
<1>6. CASE Entered(x, r)
  <2>1. /\ PageIs(r.c, page[r.c].open, r.thread, page[r.c].limit, page[r.c].sending)
        /\ x.kind = "rows" /\ x.thread = r.thread /\ x.limit = page[r.c].limit
        /\ page[r.c].open => x \in links'
    BY <1>6, PageThread DEF Entered, LinkIs, ChatTyped
  <2>2. \A y \in Of(r.c, {"rows"})' : y = x
    BY <1>3, <1>4 DEF Of
  <2>3. RowsComing(r.c)'
    BY <1>4, <2>1, <2>2, CallKinds DEF RowsComing, PageIs
  <2>4. ASSUME r.c = "web" PROVE WebComing'
    <3>1. page["web"].thread = 0
      BY <1>1, <2>4, CallKinds DEF ViewsSound, WebFinds
    <3>2. \A l \in PageSize..PageCap : ~windows["web"][l].had
      BY <3>1, CallKinds DEF ChatTyped, WindowsTyped
    <3>3. page'["web"].open => x \in FetchesOf(page["web"].limit)'
      BY <1>4, <2>1, <2>4 DEF PageIs, FetchesOf, Of
    <3>4. page'["web"].limit = page["web"].limit
      BY <2>1, <2>4 DEF PageIs
    <3> QED
      BY <1>1, <3>2, <3>3, <3>4 DEF WebComing
  <2>5. ASSUME r.c = "ios" PROVE IosComing'
    <3>1. page["ios"].open
      BY <1>1, <2>5, CallKinds DEF ViewsSound, IosOpen, Of
    <3>2. x \in Loading("ios")'
      BY <1>4, <2>1, <2>5, <3>1 DEF Loading, Of
    <3> QED
      BY <3>2 DEF IosComing
  <2> QED
    BY <2>3, <2>4, <2>5 DEF WindowComing
<1> QED
  BY <1>2, <1>5, <1>6

LEMMA WindowsRows ==
    ASSUME ChatTyped, ViewsSound, NEW r \in links, r.c \in Clients, r.answer = "ok", HearRows(r), UNCHANGED <<posts, state, sender>>,
           WindowComing(r.c), r.c = "ios" => Loading("ios") \ {r} = {}
    PROVE  WindowComing(r.c)'
<1>1. PageTyped /\ WindowsTyped /\ r \in Links /\ SoundLink(r) /\ r.kind = "rows" /\ r \in Of(r.c, {"rows"}) /\ links' = links \ {r}
  BY DEF ChatTyped, LinksTyped, TypedLink, HearRows, Of
<1>2. \A d \in Clients : page'[d].thread = page[d].thread /\ page'[d].open = page[d].open /\ page'[d].limit = page[d].limit
  BY <1>1, PageAtRest DEF HearRows
<1>3. page[r.c].thread # 0 /\ r.thread \in Threads /\ r.limit \in PageSize..PageCap /\ PairedRows(r.found) /\ r.thread = page[r.c].thread
  BY <1>1, CallKinds DEF ChatTyped, InThread, SoundLink, WindowComing, RowsComing
<1>4. PICK e : e = [had |-> TRUE, old |-> FALSE, late |-> r.late, rows |-> r.found, more |-> r.more]
  OBVIOUS
<1>5. e \in CachedWindows /\ e.had /\ ~e.old /\ e.late = r.late /\ e.rows = r.found /\ PairedRows(e.rows)
  BY <1>1, <1>3, <1>4 DEF Links, CachedWindows
<1>6. PICK k \in PageSize..PageCap : k = Slot(r.c, r.limit)
  BY <1>3, SlotIs
<1>7. windows' = [windows EXCEPT ![r.c] = [@ EXCEPT ![k] = e]]
  BY <1>4, <1>6 DEF HearRows
<1>8. windows'[r.c][k] = e /\ \A l \in PageSize..PageCap : l # k => windows'[r.c][l] = windows[r.c][l]
  <2>1. PICK c \in Clients : c = r.c
    OBVIOUS
  <2>2. windows' = [windows EXCEPT ![c] = [@ EXCEPT ![k] = e]] /\ page[c].thread # 0
    BY <1>3, <1>7, <2>1
  <2>3. Replaced(c, k, e)
    BY <1>1, <1>2, <1>5, <2>2, WindowSet
  <2> QED
    BY <2>1, <2>3 DEF Replaced
<1>9. Of(r.c, Streams)' = Of(r.c, Streams) /\ Of(r.c, {"list", "create"})' = Of(r.c, {"list", "create"})
  BY <1>1, CallKinds DEF Of
<1>10. ~r.late => Of(r.c, Streams) # {} \/ Fresh(r.c, r.thread, r.found, r.limit)'
  BY <1>1, FreshSame DEF WindowComing, RowsComing
<1>11. RowsComing(r.c)'
  <2>1. ASSUME NEW a \in Of(r.c, {"rows"})'
        PROVE  /\ a.thread = page'[r.c].thread
               /\ r.c = "ios" /\ a.limit # page'["ios"].limit => Of("ios", {"list", "create"})' # {}
               /\ a.answer = "ok" /\ ~a.late => Of(r.c, Streams)' # {} \/ Fresh(r.c, a.thread, a.found, a.limit)'
    <3>1. a \in Of(r.c, {"rows"})
      BY <1>1 DEF Of
    <3>2. Fresh(r.c, a.thread, a.found, a.limit) => Fresh(r.c, a.thread, a.found, a.limit)'
      BY FreshSame
    <3> QED
      BY <1>2, <1>9, <3>1, <3>2, CallKinds DEF WindowComing, RowsComing
  <2> QED
    BY <2>1 DEF RowsComing
<1>12. ASSUME r.c = "web" PROVE WebComing'
  <2>1. k = r.limit
    BY <1>6, <1>12 DEF Slot
  <2>2. \A l \in PageSize..PageCap : l # k => (FetchesOf(l)' = FetchesOf(l) /\ windows'["web"][l] = windows["web"][l])
    BY <1>1, <1>8, <1>12, <2>1 DEF FetchesOf, Of
  <2>3. page'["web"].limit = page["web"].limit /\ page["web"].limit \in PageSize..PageCap /\ page'["web"].thread = page["web"].thread
        /\ page'["web"].open = page["web"].open
    BY <1>1, <1>2, CallKinds DEF PageTyped, PageRecords
  <2>4. windows'["web"][k].had /\ ~windows'["web"][k].old
    BY <1>5, <1>8, <1>12
  <2>5. ASSUME NEW l \in PageSize..PageCap, windows'["web"][l].had
        PROVE  \/ windows'["web"][l].old \/ windows'["web"][l].late
               \/ Of("web", Streams)' # {}
               \/ Fresh("web", page["web"].thread, windows["web"][l].rows, l)'
    <3>1. PICK t, rows : t = page'["web"].thread /\ rows = windows'["web"][l].rows
      OBVIOUS
    <3>2. CASE l = k
      <4>1. rows = r.found /\ t = r.thread /\ windows'["web"][l].late = r.late
        BY <1>3, <1>5, <1>8, <1>12, <2>3, <3>1, <3>2
      <4>2. r.late \/ Of("web", Streams)' # {} \/ Fresh("web", t, rows, l)'
        BY <1>9, <1>10, <1>12, <2>1, <3>2, <4>1
      <4> QED
        BY <3>1, <4>1, <4>2
    <3>3. CASE l # k
      <4>1. windows'["web"][l] = windows["web"][l]
        BY <2>2, <3>3
      <4>2. windows["web"][l].old \/ windows["web"][l].late \/ Of("web", Streams) # {} \/ Fresh("web", t, rows, l)
        BY <1>12, <2>3, <2>5, <3>1, <4>1 DEF WindowComing, WebComing
      <4>3. windows["web"][l].old \/ windows["web"][l].late \/ Of("web", Streams)' # {} \/ Fresh("web", t, rows, l)'
        BY <1>9, <1>12, <4>2, FreshSame
      <4> QED
        BY <3>1, <4>1, <4>3
    <3> QED
      BY <3>2, <3>3
  <2> QED
    BY <1>12, <2>2, <2>3, <2>4, <2>5 DEF WindowComing, WebComing
<1>13. ASSUME r.c = "ios" PROVE IosComing'
  <2>1. k = PageSize /\ ~r.late
    BY <1>1, <1>6, <1>13, CallKinds DEF Slot, SoundLink
  <2>2. r.limit = page["ios"].limit
    <3>1. Of("ios", {"list", "create"}) = {}
      BY <1>1, <1>13, CallKinds DEF Loading, Of
    <3> QED
      BY <1>1, <1>13, <3>1 DEF WindowComing, RowsComing
  <2>3. PICK t, rows, l : t = page'["ios"].thread /\ rows = windows'["ios"][PageSize].rows /\ l = page'["ios"].limit
    OBVIOUS
  <2>4. t = r.thread /\ rows = r.found /\ l = r.limit
    BY <1>2, <1>3, <1>5, <1>8, <1>13, <2>1, <2>2, <2>3
  <2>5. Of("ios", Streams)' # {} \/ Fresh("ios", t, rows, l)'
    BY <1>9, <1>10, <1>13, <2>1, <2>4
  <2>6. windows'["ios"][PageSize].had /\ ~windows'["ios"][PageSize].late
    BY <1>5, <1>8, <1>13, <2>1
  <2> QED
    BY <2>3, <2>5, <2>6 DEF IosComing
<1> QED
  BY <1>11, <1>12, <1>13 DEF WindowComing

LEMMA WindowsEnd ==
    ASSUME ChatTyped, ViewsSound, NEW r \in links, r.c \in Clients, r.kind = "stream", HearEnd(r), UNCHANGED <<posts, state, sender>>,
           WindowComing(r.c), r.c = "ios" => Loading("ios") \ {r} = {}
    PROVE  WindowComing(r.c)'
<1>1. CASE /\ r.c = "web" /\ Renewing(links \ {r}) /\ page["web"].thread \in Threads
           /\ page' = IF r.for = "send" THEN NotSending("web") ELSE page
  <2>1. \A d \in Clients : page'[d].thread = page[d].thread /\ page'[d].open = page[d].open /\ page'[d].limit = page[d].limit
    BY <1>1, PageAtRest DEF ChatTyped
  <2>2. ASSUME NEW y \in Of("web", {"rows"})'
        PROVE  y.thread = page'["web"].thread /\ ~(y.answer = "ok" /\ ~y.late)
    <3>1. y \in links' /\ y.c = "web" /\ y.kind = "rows"
      BY <2>2 DEF Of
    <3>2. \A z \in links \ {r} : z.c = "web" /\ z.kind = "rows" => z.thread = page["web"].thread
      BY <1>1 DEF WindowComing, RowsComing, Of
    <3>3. ASSUME NEW z \in links \ {r}, z.c = "web", Alike(y, z) PROVE y.thread = page["web"].thread
      BY <3>1, <3>2, <3>3 DEF Alike
    <3>4. y.thread = page["web"].thread /\ ~(y.answer = "ok" /\ ~y.late)
      BY <1>1, <3>1, <3>2, <3>3 DEF Renewing, LinkIs
    <3> QED
      BY <2>1, <3>4, CallKinds
  <2>3. RowsComing("web")'
    BY <2>2 DEF RowsComing
  <2>4. page["web"].open => FetchesOf(page["web"].limit)' # {}
    <3>1. ASSUME page["web"].open
          PROVE  \E y \in links' : y.c = "web" /\ y.kind = "rows" /\ y.limit = page'["web"].limit
      BY <1>1, <2>1, <3>1, CallKinds DEF Renewing
    <3> QED
      BY <3>1 DEF FetchesOf, Of
  <2>5. \A k \in PageSize..PageCap : windows'["web"][k].had => windows'["web"][k].old
    BY <1>1, <2>1, WindowsRenewed DEF ChatTyped
  <2>6. page'["web"].limit = page["web"].limit /\ page'["web"].open = page["web"].open
    BY <2>1, CallKinds
  <2>7. WebComing'
    BY <2>4, <2>5, <2>6 DEF WebComing
  <2> QED
    BY <1>1, <2>3, <2>7, CallKinds DEF WindowComing
<1>2. CASE /\ r.c = "ios" /\ UNCHANGED <<page, windows>>
           /\ \E x : LinkIs(x, "ios", "list", 0, 0, "send", 0) /\ links' = (links \ {r}) \union {x}
  <2>1. PICK x : LinkIs(x, "ios", "list", 0, 0, "send", 0) /\ links' = (links \ {r}) \union {x}
    BY <1>2
  <2>2. Of("ios", {"rows"})' = {} /\ x \in Loading("ios")'
    BY <1>2, <2>1, CallKinds DEF Loading, Of, LinkIs
  <2> QED
    BY <1>2, <2>2 DEF WindowComing, RowsComing, IosComing
<1> QED
  BY <1>1, <1>2, HearsEnd

LEMMA WindowsHear ==
    ASSUME ChatTyped, ViewsSound, WindowsComing, NEW r \in links, HearChat(r)
    PROVE  WindowsComing'
<1>1. /\ PageTyped /\ WindowsTyped /\ r.c \in Clients /\ r.answer = "ok" /\ UNCHANGED <<posts, state, sender>>
      /\ strained' = IF r.c = "ios" /\ Loading("ios") \ {r} # {} THEN strained \union {r.c} ELSE strained
  BY DEF ChatTyped, HearChat
<1>2. ASSUME NEW c \in Clients \ strained', r.c # c
      PROVE  WindowComing(c)'
  <2>1. page'[c] = page[c] /\ windows'[c] = windows[c] /\ SameLinks(c)
    <3>1. CASE HearList(r) \/ HearCreate(r)
      <4>1. PICK x : Began(x, r) \/ Entered(x, r)
        BY <1>1, <3>1, HearsFind
      <4>2. page'[c] = page[c]
        BY <1>1, <1>2, <4>1, PageThread DEF Began, Entered, PageIs
      <4>3. SameLinks(c)
        BY <1>2, <4>1 DEF Began, Entered, LinkIs, SameLinks
      <4> QED
        BY <1>1, <3>1, <4>2, <4>3, HearsFind
    <3>2. CASE HearRows(r)
      <4>1. page'[c] = page[c]
        BY <1>1, <1>2, <3>2, PageNotSending DEF HearRows, PageIs
      <4>2. PICK e : windows' = [windows EXCEPT ![r.c] = e]
        BY <3>2 DEF HearRows
      <4>3. windows'[c] = windows[c]
        BY <1>1, <1>2, <4>2 DEF WindowsTyped
      <4> QED
        BY <1>2, <3>2, <4>1, <4>3 DEF HearRows, SameLinks
    <3>3. CASE r.kind = "stream" /\ HearEnd(r)
      <4>1. CASE r.c = "web" /\ Renewing(links \ {r}) /\ page' = IF r.for = "send" THEN NotSending("web") ELSE page
        <5>1. page'[c] = page[c]
          BY <1>1, <1>2, <4>1, PageNotSending DEF PageIs
        <5>2. PICK e : windows' = [windows EXCEPT !["web"] = e]
          BY <4>1 DEF Renewing
        <5>3. windows'[c] = windows[c]
          BY <1>1, <1>2, <4>1, <5>2 DEF WindowsTyped
        <5>4. SameLinks(c)
          BY <1>2, <4>1 DEF Renewing, LinkIs, SameLinks
        <5> QED
          BY <5>1, <5>3, <5>4
      <4>2. CASE r.c = "ios" /\ UNCHANGED <<page, windows>> /\ \E x : LinkIs(x, "ios", "list", 0, 0, "send", 0) /\ links' = (links \ {r}) \union {x}
        BY <1>2, <4>2 DEF SameLinks, LinkIs
      <4> QED
        BY <1>1, <3>3, <4>1, <4>2, HearsEnd
    <3> QED
      BY <3>1, <3>2, <3>3 DEF HearChat
  <2>2. WindowComing(c) /\ Undisturbed(c)
    BY <1>1, <1>2, Unmoved DEF WindowsComing
  <2> QED
    BY <2>1, <2>2, WindowStays
<1>3. ASSUME r.c \notin strained'
      PROVE  WindowComing(r.c)'
  <2>1. WindowComing(r.c) /\ (r.c = "ios" => Loading("ios") \ {r} = {})
    BY <1>1, <1>3 DEF WindowsComing
  <2> QED
    BY <1>1, <2>1, WindowsFind, WindowsRows, WindowsEnd DEF HearChat
<1> QED
  BY <1>2, <1>3 DEF WindowsComing

LEMMA WindowsLose ==
    ASSUME ChatTyped, WindowsComing, NEW r \in links, LoseLink(r)
    PROVE  WindowsComing'
<1>1. PageTyped /\ WindowsTyped /\ r.c \in Clients /\ strained' = strained \union {r.c} /\ UNCHANGED <<posts, state, sender>>
  BY Loses DEF ChatTyped, LoseLink
<1>2. ASSUME NEW c \in Clients \ strained'
      PROVE  WindowComing(c)'
  <2>1. c # r.c /\ c \in Clients \ strained
    BY <1>1, <1>2
  <2>2. page'[c] = page[c]
    <3>1. page' = page \/ page' = NotSending(r.c)
      BY Loses
    <3> QED
      BY <1>1, <2>1, <3>1, PageNotSending DEF PageIs
  <2>3. windows'[c] = windows[c]
    <3>1. CASE r.c = "web" /\ \E base : Renewing(base)
      <4>1. PICK e : windows' = [windows EXCEPT !["web"] = e]
        BY <3>1 DEF Renewing
      <4> QED
        BY <1>1, <2>1, <3>1, <4>1 DEF WindowsTyped
    <3> QED
      BY <3>1, Loses
  <2>4. SameLinks(c)
    BY <2>1, Loses, CallKinds DEF SameLinks
  <2>5. WindowComing(c) /\ Undisturbed(c)
    BY <1>1, <2>1, Unmoved DEF WindowsComing
  <2> QED
    BY <2>1, <2>2, <2>3, <2>4, <2>5, WindowStays
<1> QED
  BY <1>2 DEF WindowsComing

LEMMA WindowsPut ==
    ASSUME ChatTyped, WindowsComing, NEW c \in Clients, NEW q \in Questions, MaySend(c), Put(c, q), UNCHANGED <<posts, windows, strained>>,
           state' = state \/ state' = [state EXCEPT ![q] = "asked"]
    PROVE  WindowsComing'
<1>1. PICK x : PutLink(x, c, q)
  BY Puts
<1>2. /\ PageIs(c, page[c].open, page[c].thread, page[c].limit, q)
      /\ links' = links \union {x} /\ x.c = c /\ x.kind = "ask"
      /\ \A p \in Questions : sender'[p] = IF p = q THEN (IF \E r \in links : r.q = q THEN "nobody" ELSE c) ELSE sender[p]
      /\ \A p \in Questions : p # q => state'[p] = state[p]
  BY <1>1 DEF PutLink, LinkIs, Put, ChatTyped, PlainTyped
<1>3. ASSUME NEW d \in Clients \ strained', d # c
      PROVE  WindowComing(d)'
  <2>1. page'[d] = page[d] /\ windows'[d] = windows[d] /\ WindowComing(d) /\ SameLinks(d)
    BY <1>2, <1>3 DEF WindowsComing, PageIs, SameLinks
  <2>2. sender'[q] # d
    BY <1>2, <1>3, CallKinds
  <2>3. Undisturbed(d)
    BY <1>2, <2>2 DEF Undisturbed
  <2> QED
    BY <2>1, <2>3, WindowStays
<1>4. ASSUME c \notin strained'
      PROVE  WindowComing(c)'
  <2>1. WindowComing(c) /\ page'[c].thread = page[c].thread /\ page'[c].limit = page[c].limit /\ page'[c].open = page[c].open
    BY <1>2, <1>4 DEF WindowsComing, PageIs
  <2>2. x \in Of(c, Streams)' /\ Of(c, {"rows"})' = Of(c, {"rows"}) /\ Of(c, {"list", "create"})' = Of(c, {"list", "create"})
    BY <1>2, CallKinds DEF Of
  <2>3. RowsComing(c)'
    BY <2>1, <2>2 DEF WindowComing, RowsComing
  <2>4. ASSUME c = "web" PROVE WebComing'
    <3>1. \A l : FetchesOf(l)' = FetchesOf(l)
      BY <1>2, <2>4, CallKinds DEF FetchesOf, Of
    <3> QED
      BY <2>1, <2>2, <2>4, <3>1 DEF WindowComing, WebComing
  <2>5. ASSUME c = "ios" PROVE IosComing'
    BY <2>2, <2>5 DEF IosComing
  <2> QED
    BY <2>3, <2>4, <2>5 DEF WindowComing
<1> QED
  BY <1>3, <1>4 DEF WindowsComing

(* A view that comes or widens.                                              *)
LEMMA WindowsLook ==
    ASSUME ChatTyped, ViewsSound, WindowsComing, NEW c \in Clients, Visit(c) \/ LoadEarlier(c)
    PROVE  WindowsComing'
<1>1. UNCHANGED <<posts, state, sender, windows, strained>>
  BY DEF Visit, LoadEarlier
<1>2. Looked(c) /\ page'[c].thread = page[c].thread /\ \A d \in Clients : d # c => page'[d] = page[d]
  BY Visits, Widens DEF PageIs, ViewsSound
<1>4. \/ links' = links
      \/ \E x : links' = links \union {x} /\ x.c = c
  BY <1>2 DEF Looked, LinkIs
<1>5. ASSUME NEW d \in Clients \ strained', d # c
      PROVE  WindowComing(d)'
  <2>1. SameLinks(d)
    BY <1>4, <1>5 DEF SameLinks
  <2>2. WindowComing(d) /\ Undisturbed(d)
    BY <1>1, <1>5, Unmoved DEF WindowsComing
  <2> QED
    BY <1>1, <1>2, <1>5, <2>1, <2>2, WindowStays
<1>6. ASSUME "web" \notin strained', c = "web"
      PROVE  WindowComing("web")'
  <2>1. RowsComing("web") /\ WebComing
    BY <1>1, <1>6, CallKinds DEF WindowsComing, WindowComing
  <2>2. \A y \in Of("web", {"rows"})' : y \in Of("web", {"rows"}) \/ (y.thread = page["web"].thread /\ y.answer = "none")
    BY <1>2, <1>6 DEF Looked, LinkIs, Of
  <2>3. Of("web", Streams)' = Of("web", Streams)
    BY <1>2, <1>6, CallKinds DEF Looked, LinkIs, Of
  <2>4. RowsComing("web")'
    <3>1. ASSUME NEW a \in Of("web", {"rows"}), Fresh("web", a.thread, a.found, a.limit)
          PROVE  Fresh("web", a.thread, a.found, a.limit)'
      BY <1>1, <3>1, FreshSame
    <3> QED
      BY <1>2, <1>6, <2>1, <2>2, <2>3, <3>1 DEF RowsComing
  <2>5. page["web"].thread # 0 /\ FetchesOf(page["web"].limit)' = {} =>
          windows["web"][page'["web"].limit].had /\ ~windows["web"][page'["web"].limit].old
    <3>1. CASE \E x : LinkIs(x, "web", "rows", page["web"].thread, 0, "view", page'["web"].limit) /\ links' = links \union {x}
      BY <3>1 DEF LinkIs, FetchesOf, Of
    <3>2. CASE \E x : LinkIs(x, "web", "list", 0, 0, "view", 0) /\ page["web"].thread = 0
      BY <3>2
    <3>3. CASE /\ links' = links
               /\ \/ page["web"].thread = 0 \/ FetchesOf(page'["web"].limit) # {}
                  \/ windows["web"][page'["web"].limit].had /\ ~windows["web"][page'["web"].limit].old
      BY <3>3 DEF FetchesOf, Of
    <3> QED
      BY <1>2, <1>6, <3>1, <3>2, <3>3 DEF Looked
  <2>6. WebComing'
    <3>1. ASSUME NEW l \in PageSize..PageCap, Fresh("web", page["web"].thread, windows["web"][l].rows, l)
          PROVE  Fresh("web", page["web"].thread, windows["web"][l].rows, l)'
      <4>1. PICK t, rows : t = page["web"].thread /\ rows = windows["web"][l].rows
        OBVIOUS
      <4>2. Fresh("web", t, rows, l)'
        BY <1>1, <3>1, <4>1, FreshSame
      <4> QED
        BY <1>1, <1>2, <1>6, <4>1, <4>2
    <3> QED
      BY <1>1, <1>2, <1>6, <2>1, <2>3, <2>5, <3>1 DEF WebComing
  <2> QED
    BY <2>4, <2>6 DEF WindowComing
<1>7. ASSUME "ios" \notin strained', c = "ios"
      PROVE  WindowComing("ios")'
  <2>1. RowsComing("ios")
    BY <1>1, <1>7, CallKinds DEF WindowsComing, WindowComing
  <2>2. CASE LoadEarlier("ios")
    <3>1. PICK x : LinkIs(x, "ios", "list", 0, 0, "view", 0) /\ links' = links \union {x}
      BY <2>2, Widens, CallKinds
    <3>2. x \in Of("ios", {"list", "create"})' /\ x \in Loading("ios")'
      BY <3>1 DEF Of, Loading, LinkIs
    <3>3. Of("ios", {"rows"})' = Of("ios", {"rows"}) /\ Of("ios", Streams)' = Of("ios", Streams)
      BY <3>1, CallKinds DEF Of, LinkIs
    <3>4. ASSUME NEW a \in Of("ios", {"rows"}), Fresh("ios", a.thread, a.found, a.limit)
          PROVE  Fresh("ios", a.thread, a.found, a.limit)'
      BY <1>1, <3>4, FreshSame
    <3>5. RowsComing("ios")'
      BY <1>2, <1>7, <2>1, <3>2, <3>3, <3>4 DEF RowsComing
    <3>6. IosComing'
      BY <3>2 DEF IosComing
    <3> QED
      BY <3>5, <3>6 DEF WindowComing
  <2>3. CASE Visit("ios")
    <3>1. page["ios"].thread = 0 /\ page'["ios"].thread = 0
      BY <1>2, <1>7, <2>3, Visits, CallKinds DEF ViewsSound
    <3>2. Of("ios", {"rows"}) = {}
      BY <3>1, CallKinds DEF ChatTyped, InThread, Of
    <3>3. Of("ios", {"rows"})' = {}
      BY <1>2, <1>7, <3>2 DEF Looked, LinkIs, Of
    <3> QED
      BY <3>1, <3>3 DEF WindowComing, RowsComing, IosComing
  <2> QED
    BY <1>7, <2>2, <2>3
<1> QED
  BY <1>5, <1>6, <1>7, CallKinds DEF WindowsComing

LEMMA WindowsLeave ==
    ASSUME ChatTyped, WindowsComing, NEW c \in Clients, Leave(c)
    PROVE  WindowsComing'
<1>1. WindowsTyped /\ UNCHANGED <<posts, state, strained>> /\ \A q \in Questions : sender'[q] = "nobody" \/ sender'[q] = sender[q]
  BY DEF Leave, ChatTyped
<1>2. PageIs(c, FALSE, 0, PageSize, 0)
  BY TypedLeave
<1>3. /\ \A d \in Clients : d # c => page'[d] = page[d] /\ windows'[d] = windows[d]
      /\ \A k \in PageSize..PageCap : windows'[c][k].had = FALSE
      /\ page'[c].open = FALSE
  BY <1>1, <1>2, Forgotten DEF PageIs, Leave
<1>4. \A x \in links' : (x \in links /\ x.c # c) \/ x.c = "nobody"
  BY Leaves
<1>5. ASSUME NEW d \in Clients \ strained', d # c
      PROVE  WindowComing(d)'
  <2>1. SameLinks(d)
    BY <1>4, <1>5, Leaves, CallKinds DEF SameLinks
  <2>2. WindowComing(d) /\ Undisturbed(d)
    BY <1>1, <1>5, CallKinds DEF WindowsComing, Undisturbed
  <2> QED
    BY <1>3, <1>5, <2>1, <2>2, WindowStays
<1>6. WindowComing(c)'
  <2>1. Of(c, {"rows"})' = {}
    BY <1>4, CallKinds DEF Of
  <2> QED
    BY <1>3, <2>1 DEF WindowComing, RowsComing, WebComing, IosComing
<1> QED
  BY <1>5, <1>6 DEF WindowsComing

LEMMA WindowsNavigate ==
    ASSUME ChatTyped, WindowsComing, Navigate
    PROVE  WindowsComing'
<1>1. UNCHANGED <<posts, state, sender, windows, strained>> /\ PageIs("web", FALSE, page["web"].thread, PageSize, 0)
  BY TypedNavigate DEF Navigate
<1>2. page'["web"].open = FALSE /\ page'["web"].thread = page["web"].thread /\ page'["ios"] = page["ios"]
  BY <1>1, CallKinds DEF PageIs
<1>3. ASSUME "ios" \notin strained'
      PROVE  WindowComing("ios")'
  <2>1. SameLinks("ios")
    BY Navigates DEF SameLinks
  <2>2. WindowComing("ios") /\ Undisturbed("ios")
    BY <1>1, <1>3, Unmoved, CallKinds DEF WindowsComing
  <2> QED
    BY <1>1, <1>2, <2>1, <2>2, WindowStays, CallKinds
<1>4. ASSUME "web" \notin strained'
      PROVE  WindowComing("web")'
  <2>1. RowsComing("web") /\ WebComing
    BY <1>1, <1>4, CallKinds DEF WindowsComing, WindowComing
  <2>2. Of("web", {"rows"})' = Of("web", {"rows"})
    <3>1. \A y \in links' : y.c = "web" /\ y.kind = "rows" => y \in links
      BY Navigates, CallKinds
    <3>2. \A y \in links : y.c = "web" /\ y.kind = "rows" => y \in links'
      BY Navigates, CallKinds
    <3> QED
      BY <3>1, <3>2 DEF Of
  <2>3. Of("web", Streams) # {} => Of("web", Streams)' # {}
    <3>1. ASSUME NEW z \in Of("web", Streams)
          PROVE  \E y \in links' : y.c = "web" /\ y.kind \in Streams
      BY Navigates DEF Of
    <3> QED
      BY <3>1 DEF Of
  <2>4. RowsComing("web")'
    <3>1. ASSUME NEW a \in Of("web", {"rows"}), Fresh("web", a.thread, a.found, a.limit)
          PROVE  Fresh("web", a.thread, a.found, a.limit)'
      BY <1>1, <3>1, FreshSame
    <3> QED
      BY <1>2, <2>1, <2>2, <2>3, <3>1 DEF RowsComing
  <2>5. WebComing'
    <3>1. ASSUME NEW l \in PageSize..PageCap, Fresh("web", page["web"].thread, windows["web"][l].rows, l)
          PROVE  Fresh("web", page["web"].thread, windows["web"][l].rows, l)'
      <4>1. PICK t, rows : t = page["web"].thread /\ rows = windows["web"][l].rows
        OBVIOUS
      <4>2. Fresh("web", t, rows, l)'
        BY <1>1, <3>1, <4>1, FreshSame
      <4> QED
        BY <1>1, <1>2, <4>1, <4>2
    <3> QED
      BY <1>1, <1>2, <2>1, <2>3, <3>1 DEF WebComing
  <2> QED
    BY <2>4, <2>5 DEF WindowComing
<1> QED
  BY <1>3, <1>4, CallKinds DEF WindowsComing

LEMMA WindowsStep ==
    ASSUME ChatTyped, ViewsSound, OwnFollowed, WindowsComing, ChatNext
    PROVE  WindowsComing'
<1>1. CASE Retry
  <2>1. UNCHANGED <<posts, windows, strained, state>>
    BY <1>1 DEF Retry
  <2> QED
    BY <1>1, <2>1, RetryPuts, WindowsPut, CallKinds
<1>2. ASSUME NEW c \in Clients, Send(c)
      PROVE  WindowsComing'
  <2>1. PICK q \in Questions : state' = [state EXCEPT ![q] = "asked"] /\ Put(c, q)
    BY <1>2, NextQuestion DEF Send
  <2> QED
    BY <1>2, <2>1, WindowsPut DEF Send
<1> QED
  BY <1>1, <1>2, WindowsServe, WindowsHear, WindowsLose, WindowsLook, WindowsLeave, WindowsNavigate DEF ChatNext

-----------------------------------------------------------------------------
\* The chat is sound

(* Questions of an old conversation are in pairs.                            *)
LEMMA OldPaired ==
    ASSUME NEW n \in 0..Earlier
    PROVE  Old(n) \in Seq(Posts) /\ PairedPosts(Old(n))
<1>1. n \in Nat /\ n <= Earlier /\ 2 * n \in Nat
  BY ChatViewsAssumption
<1>2. \A i \in 1..(2 * n) : <<IF i % 2 = 1 THEN "user" ELSE "assistant", (i + 1) \div 2>> \in Posts
  <2>1. \A i \in 1..(2 * n) : (i + 1) \div 2 \in Questions
    BY <1>1, ChatViewsAssumption DEF Questions
  <2> QED
    BY <2>1 DEF Posts
<1>3. PICK s : s = Old(n)
  OBVIOUS
<1>4. s \in Seq(Posts) /\ Len(s) = 2 * n
  <2> HIDE DEF Posts
  <2> QED
    BY <1>1, <1>2, <1>3 DEF Old
<1>5. ASSUME NEW k \in 1..n
      PROVE  s[2 * k - 1][1] = "user" /\ s[2 * k][1] = "assistant" /\ s[2 * k - 1][2] = s[2 * k][2]
  <2>1. /\ 2 * k - 1 \in 1..(2 * n) /\ (2 * k - 1) % 2 = 1 /\ (2 * k - 1 + 1) \div 2 = k
        /\ 2 * k \in 1..(2 * n) /\ (2 * k) % 2 # 1 /\ (2 * k + 1) \div 2 = k
    BY <1>1
  <2>2. s[2 * k - 1] = <<"user", k>> /\ s[2 * k] = <<"assistant", k>>
    BY <1>3, <2>1 DEF Old
  <2> QED
    BY <2>2
<1> QED
  BY <1>1, <1>3, <1>4, <1>5 DEF PairedPosts

LEMMA ChatInitInv ==
    ASSUME ChatInit
    PROVE  ChatInv
<1>1. LinksTyped /\ InThread /\ OwnFollowed /\ WebFinds
  BY DEF ChatInit, LinksTyped, InThread, OwnFollowed, WebFinds, Of
<1>2. \A c \in Clients : page[c] = Blank /\ windows[c] = NoWindows
  BY DEF ChatInit
<1>3. Sending
  BY DEF ChatInit, Sending, OneBusy, Busy, Of
<1>4. IosOpen
  BY <1>2, CallKinds DEF ChatInit, IosOpen, Of, Blank
<1>5. PostsTyped
  <2>1. PICK n \in 0..Earlier : posts = [t \in Threads |-> IF t = 1 THEN Old(n) ELSE <<>>]
    <3>1. 0 \in 0..Earlier
      BY ChatViewsAssumption
    <3> QED
      BY <3>1 DEF ChatInit
  <2>2. PICK s : s = Old(n) /\ s \in Seq(Posts) /\ PairedPosts(s)
    BY OldPaired
  <2>3. PICK e : e = <<>> /\ e \in Seq(Posts) /\ PairedPosts(e)
    <3>1. <<>> \in Seq(Posts)
      OBVIOUS
    <3> QED
      BY <3>1, NoRows
  <2> QED
    BY <2>1, <2>2, <2>3 DEF PostsTyped
<1>6. PageTyped
  <2>1. Blank \in PageRecords /\ Even(Blank.limit)
    BY EvenPages, ChatViewsAssumption DEF Blank, PageRecords
  <2> QED
    BY <2>1 DEF ChatInit, PageTyped
<1>7. WindowsTyped /\ \A c \in Clients : \A l \in PageSize..PageCap : ~windows[c][l].had
  <2>1. PICK e : e = <<>> /\ e \in Seq(Items) /\ PairedRows(e)
    <3>1. <<>> \in Seq(Items)
      OBVIOUS
    <3> QED
      BY <3>1, NoRows
  <2>2. Unfetched \in CachedWindows /\ Unfetched.had = FALSE /\ Unfetched.more = FALSE /\ PairedRows(Unfetched.rows)
    BY <2>1 DEF Unfetched, CachedWindows
  <2>3. NoWindows \in [PageSize..PageCap -> CachedWindows] /\ \A l \in PageSize..PageCap : NoWindows[l] = Unfetched
    BY <2>2 DEF NoWindows
  <2>4. windows \in [Clients -> [PageSize..PageCap -> CachedWindows]]
    BY <2>3 DEF ChatInit
  <2> QED
    BY <1>2, <2>2, <2>3, <2>4 DEF WindowsTyped
<1>8. PlainTyped
  <2>1. threads \in Seq(Threads)
    <3>1. <<>> \in Seq(Threads) /\ <<1>> \in Seq(Threads)
      BY DEF Threads
    <3> QED
      BY <3>1 DEF ChatInit
  <2>2. state \in [Questions -> {"none", "asked", "pending", "completed", "failed"}]
    BY DEF ChatInit
  <2> QED
    BY <2>1, <2>2 DEF ChatInit, PlainTyped
<1>9. CountedMakers
  <2>1. Makers = {}
    BY DEF ChatInit, Makers
  <2>2. IsFiniteSet(Makers) /\ Cardinality(Makers) = 0
    BY <2>1, FS_EmptySet
  <2>3. Len(threads) <= 1 /\ Len(threads) \in Nat
    <3>1. threads = <<>> \/ threads = <<1>>
      BY DEF ChatInit
    <3>2. Len(<<>>) = 0 /\ Len(<<1>>) = 1
      OBVIOUS
    <3> QED
      BY <3>1, <3>2
  <2>4. overlaps = 0
    BY DEF ChatInit
  <2> QED
    BY <2>2, <2>3, <2>4 DEF CountedMakers
<1>10. WindowsComing
  <2>1. \A c \in Clients : Of(c, {"rows"}) = {} /\ ~page[c].open
    BY <1>2 DEF ChatInit, Of, Blank
  <2> QED
    BY <1>7, <2>1, CallKinds DEF WindowsComing, WindowComing, RowsComing, WebComing, IosComing
<1> QED
  BY <1>1, <1>3, <1>4, <1>5, <1>6, <1>7, <1>8, <1>9, <1>10 DEF ChatInv, ChatTyped

LEMMA ChatStutters ==
    ASSUME ChatInv, UNCHANGED chatVars
    PROVE  ChatInv'
<1> USE DEF chatVars
<1>1. LinksTyped' /\ PostsTyped' /\ PageTyped' /\ WindowsTyped' /\ PlainTyped' /\ InThread'
  BY DEF ChatInv, ChatTyped, LinksTyped, TypedLink, SoundLink, PostsTyped, PageTyped, WindowsTyped, PlainTyped, InThread
<1>2. CountedMakers'
  BY DEF ChatInv, CountedMakers, Makers
<1>3. Sending' /\ WebFinds' /\ IosOpen' /\ OwnFollowed'
  BY DEF ChatInv, Sending, OneBusy, Busy, Of, WebFinds, IosOpen, OwnFollowed
<1>4. WindowsComing'
  <2>1. ASSUME NEW c \in Clients \ strained PROVE WindowComing(c)'
    <3>1. WindowComing(c) /\ Undisturbed(c) /\ SameLinks(c)
      BY Unmoved DEF ChatInv, WindowsComing, SameLinks
    <3> QED
      BY <3>1, WindowStays DEF ChatInv
  <2> QED
    BY <2>1 DEF WindowsComing
<1> QED
  BY <1>1, <1>2, <1>3, <1>4 DEF ChatInv, ChatTyped

(* At rest what is on the screen is the window of the view.                  *)
LEMMA RestingShows ==
    ASSUME PageTyped, NEW c \in Clients, Of(c, {"list", "create", "rows", "ask", "stream"}) = {},
           c = "web" => windows["web"][page["web"].limit].had
    PROVE  OnScreen(c) = windows[c][Slot(c, page[c].limit)]
<1>1. CASE c = "web"
  BY <1>1 DEF OnScreen, Slot
<1>2. CASE c = "ios"
  <2>1. PageSize..(PageSize - 1) = {}
    BY ChatViewsAssumption
  <2> QED
    BY <1>2, <2>1 DEF OnScreen, Slot
<1> QED
  BY <1>1, <1>2, CallKinds

(* At rest the invariant is what the run checks.                             *)
LEMMA ChatInvSound ==
    ASSUME ChatInv
    PROVE  ChatSound
<1> USE DEF ChatInv, ChatTyped
<1>1. ChatTypeOK
  <2>1. \A t \in Threads : \A i \in DOMAIN posts[t] : posts[t][i] \in Posts
    <3> QED
      BY DEF PostsTyped
  <2>2. \A c \in Clients : page[c].limit \in PageSize..PageCap /\ page[c].sending \in {0} \union Questions
    BY DEF PageTyped, PageRecords
  <2> QED
    BY <2>1, <2>2 DEF ChatTypeOK, Posts, PlainTyped
<1>2. OneThread
  <2>1. Len(threads) \in Nat /\ Cardinality(Makers) \in Nat /\ overlaps \in Nat
    BY FS_CardinalityType DEF CountedMakers, PlainTyped
  <2> QED
    BY <2>1 DEF OneThread, CountedMakers
<1>3. OneStreamEach
  <2>1. ASSUME NEW c \in Clients, NEW S, S = {r \in Of(c, {"ask", "stream"}) : r.for # "left"}
        PROVE  Cardinality(S) <= 1
    <3>1. \A r \in S : r.for = "send" /\ r \in Busy(c)
      BY <2>1, CallKinds DEF LinksTyped, TypedLink, SoundLink, Busy, Of
    <3>2. \A r, s \in S : r = s
      BY <3>1 DEF Sending, OneBusy
    <3>3. CASE S = {}
      BY <3>3, FS_EmptySet
    <3>4. CASE S # {}
      <4>1. PICK r : S = {r}
        BY <3>2, <3>4
      <4> QED
        BY <4>1, FS_Singleton
    <3> QED
      BY <3>3, <3>4
  <2> QED
    BY <2>1 DEF OneStreamEach
<1>4. WindowIsStored
  <2>1. ASSUME NEW c \in Clients, Resting(c), c \notin strained, ~OnScreen(c).late
        PROVE  Fresh(c, page[c].thread, OnScreen(c).rows, page[c].limit)
    <3>1. page[c].open /\ page[c].thread # 0 /\ Of(c, {"list", "create", "rows", "ask", "stream"}) = {} /\ WindowComing(c)
      BY <2>1 DEF Resting, WindowsComing
    <3>2. Of(c, {"rows"}) = {} /\ Loading(c) = {} /\ Of(c, Streams) = {} /\ (c = "web" => \A l : FetchesOf(l) = {})
      BY <3>1, CallKinds DEF Loading, Of, FetchesOf
    <3>3. PICK l \in PageSize..PageCap : l = page[c].limit
      BY DEF PageTyped, PageRecords
    <3>4. CASE c = "web"
      <4>1. windows["web"][l].had /\ ~windows["web"][l].old
        BY <3>1, <3>2, <3>3, <3>4 DEF WindowComing, WebComing
      <4>2. OnScreen(c) = windows["web"][l]
        BY <3>1, <3>3, <3>4, <4>1, RestingShows DEF Slot
      <4>3. Fresh("web", page["web"].thread, windows["web"][l].rows, l)
        BY <2>1, <3>1, <3>2, <3>4, <4>1, <4>2 DEF WindowComing, WebComing
      <4> QED
        BY <3>3, <3>4, <4>2, <4>3
    <3>5. CASE c = "ios"
      <4>1. OnScreen(c) = windows["ios"][PageSize]
        BY <3>1, <3>5, RestingShows DEF Slot
      <4>2. Fresh("ios", page["ios"].thread, windows["ios"][PageSize].rows, page["ios"].limit)
        BY <3>1, <3>2, <3>5 DEF WindowComing, IosComing
      <4> QED
        BY <3>5, <4>1, <4>2
    <3> QED
      BY <3>4, <3>5, CallKinds
  <2> QED
    BY <2>1 DEF WindowIsStored, Fresh
<1>5. RetryFindsItsQuestion
  <2>1. ASSUME NEW c \in Clients PROVE OnScreen(c).rows \in Seq(Items) /\ PairedRows(OnScreen(c).rows)
    <3>1. PICK l \in PageSize..PageCap : OnScreen(c) = windows[c][l]
      BY OnScreenIs
    <3>2. PICK e : e = windows[c][l]
      OBVIOUS
    <3>3. e \in CachedWindows /\ PairedRows(e.rows)
      BY <3>2 DEF WindowsTyped
    <3>4. e.rows \in Seq(Items)
      BY <3>3 DEF CachedWindows
    <3> QED
      BY <3>1, <3>2, <3>3, <3>4
  <2> QED
    BY <2>1, FindsQuestion DEF RetryFindsItsQuestion
<1> QED
  BY <1>1, <1>2, <1>3, <1>4, <1>5 DEF ChatSound

(* However a user's browser and iPhone find or make the conversation of a   *)
(* document, ask, follow, retry, widen and leave their windows and lose     *)
(* their calls, and however long the windows and the conversation are: one  *)
(* answer at a time for each view, one conversation and one more for each   *)
(* time somebody found none while another was about to make one, retries    *)
(* that ask what failed, and at rest the newest messages as stored, unless  *)
(* the window's own answer came late.                                       *)
THEOREM ChatAlwaysSound == ChatSpec => []ChatSound
<1>1. ChatInit => ChatInv
  BY ChatInitInv
<1>2. ChatInv /\ [ChatNext]_chatVars => ChatInv'
  <2>1. CASE ChatInv /\ ChatNext
    <3>1. ChatTyped' /\ CountedMakers' /\ ViewsSound' /\ OwnFollowed' /\ WindowsComing'
      BY <2>1, TypedStep, MakersStep, ViewsStep, FollowedStep, WindowsStep DEF ChatInv, ViewsSound
    <3> QED
      BY <3>1 DEF ChatInv, ViewsSound
  <2>2. CASE ChatInv /\ UNCHANGED chatVars
    BY <2>2, ChatStutters
  <2> QED
    BY <2>1, <2>2
<1>3. ChatInv => ChatSound
  BY ChatInvSound
<1> QED
  BY <1>1, <1>2, <1>3, PTL DEF ChatSpec
-----------------------------------------------------------------------------
\* PdfView: the invariant

LoadSet(l) == [link : 1..l, at : {"open", "first", "outline"}, cancelled : BOOLEAN]
DrawSet(m, l) == [n : 1..m, of : 1..l, at : {"page", "paint", "text"}, cancelled : BOOLEAN]

LinkTyped ==
    /\ link \in 1..MaxViews["links"]
    /\ loads \subseteq LoadSet(link)
    /\ reader \in [pdf : 0..link, outline : 0..link, error : BOOLEAN]
SlotTyped ==
    /\ slot \in [near : BOOLEAN, draw : Nat, of : 0..link]
    /\ draws \subseteq DrawSet(slot.draw, link)
    /\ layers \in [canvas : 0..slot.draw, text : SUBSET (1..slot.draw)]
    /\ late \subseteq {"text", "failed"}

(* The load that goes on is of the newest link, and it or a failure decides. *)
OneLoad ==
    /\ \A l \in loads : ~l.cancelled => l.link = link
    /\ \/ \E l \in loads : ~l.cancelled /\ l.at # "outline"
       \/ reader.error \/ reader.pdf = link

(* The drawing that goes on is the last one, and only of a page that is near. *)
OneDraw ==
    /\ \A d \in draws : ~d.cancelled => slot.near /\ d.n = slot.draw /\ d.of = slot.of
    /\ \A d, e \in draws : ~d.cancelled /\ ~e.cancelled => d = e
    /\ ~slot.near => layers.canvas = NoDraw

(* A page that is near is drawn, or its last drawing goes on.                *)
Underway(d) ==
    /\ ~d.cancelled
    /\ d.at \in {"paint", "text"} => layers.canvas = slot.draw
    /\ d.at = "text" /\ "text" \notin late => layers.text = {}
Drawn ==
    /\ \A d \in draws : d.cancelled
    /\ layers.canvas = slot.draw /\ ("text" \notin late => layers.text = {slot.draw})
PageComes == slot.near /\ "failed" \notin late /\ Alive(slot.of) => Drawn \/ \E d \in draws : Underway(d)

PdfInv == LinkTyped /\ SlotTyped /\ OneLoad /\ OneDraw /\ PageComes

LEMMA AbandonedLoads ==
    ASSUME NEW l, NEW s, s \subseteq LoadSet(l)
    PROVE  Abandoned(s) \subseteq LoadSet(l) /\ \A x \in Abandoned(s) : x.cancelled
<1>1. ASSUME NEW x \in s PROVE [x EXCEPT !.cancelled = TRUE] \in LoadSet(l) /\ [x EXCEPT !.cancelled = TRUE].cancelled
  BY <1>1 DEF LoadSet
<1> QED
  BY <1>1 DEF Abandoned

LEMMA AbandonedDraws ==
    ASSUME NEW m, NEW l, NEW s, s \subseteq DrawSet(m, l)
    PROVE  Abandoned(s) \subseteq DrawSet(m, l) /\ \A x \in Abandoned(s) : x.cancelled
<1>1. ASSUME NEW x \in s PROVE [x EXCEPT !.cancelled = TRUE] \in DrawSet(m, l) /\ [x EXCEPT !.cancelled = TRUE].cancelled
  BY <1>1 DEF DrawSet
<1> QED
  BY <1>1 DEF Abandoned

LEMMA MoreDraws ==
    ASSUME NEW m \in Nat, NEW l \in Nat, NEW j \in Nat, NEW k \in Nat, m <= j, l <= k
    PROVE  DrawSet(m, l) \subseteq DrawSet(j, k)
BY DEF DrawSet

LEMMA LinkIsNumber ==
    ASSUME LinkTyped
    PROVE  link \in Nat /\ link > 0 /\ MaxViews["links"] \in Nat
BY PdfAssumption DEF LinkTyped

(* What a new drawing, or the end of all drawing, leaves.                    *)
LEMMA EffectMade ==
    ASSUME LinkTyped, SlotTyped, NEW near \in BOOLEAN, NEW pdf \in 0..link, Effect(near, pdf), UNCHANGED <<link, late>>
    PROVE  SlotTyped' /\ OneDraw' /\ PageComes'
<1>0. link \in Nat /\ link > 0
  BY LinkIsNumber
<1>1. PICK n, begins, old : n = slot.draw + 1 /\ begins = (near /\ pdf # 0) /\ old = Abandoned(draws)
  OBVIOUS
<1>2. /\ slot.draw \in Nat /\ n \in Nat /\ slot.draw <= n /\ n >= 1 /\ draws \subseteq DrawSet(slot.draw, link)
      /\ layers \in [canvas : 0..slot.draw, text : SUBSET (1..slot.draw)]
  BY <1>1 DEF SlotTyped
<1>3. old \subseteq DrawSet(slot.draw, link) /\ \A x \in old : x.cancelled
  BY <1>1, <1>2, AbandonedDraws
<1>4. PICK d : d = [n |-> n, of |-> pdf, at |-> "page", cancelled |-> FALSE]
  OBVIOUS
<1>5. /\ slot' = [near |-> near, draw |-> IF begins THEN n ELSE slot.draw, of |-> pdf]
      /\ draws' = old \union (IF begins THEN {d} ELSE {})
      /\ layers' = IF near THEN layers ELSE [canvas |-> NoDraw, text |-> {}]
  BY <1>1, <1>4 DEF Effect
<1>6. d.n = n /\ d.of = pdf /\ d.at = "page" /\ ~d.cancelled
  BY <1>4
<1>7. slot'.near = near /\ slot'.of = pdf /\ slot'.draw = IF begins THEN n ELSE slot.draw
  BY <1>5
<1>8. slot'.draw \in Nat /\ slot.draw <= slot'.draw
  BY <1>2, <1>7
<1>9. draws' \subseteq DrawSet(slot'.draw, link)
  <2>1. DrawSet(slot.draw, link) \subseteq DrawSet(slot'.draw, link)
    BY <1>0, <1>2, <1>8, MoreDraws
  <2>2. ASSUME begins PROVE d \in DrawSet(slot'.draw, link)
    <3>1. pdf # 0 /\ slot'.draw = n
      BY <1>1, <1>7, <2>2
    <3>2. pdf \in 1..link /\ n \in 1..n
      BY <1>0, <1>2, <3>1
    <3> QED
      BY <1>4, <3>1, <3>2 DEF DrawSet
  <2> QED
    BY <1>3, <1>5, <2>1, <2>2
<1>10. layers' \in [canvas : 0..slot'.draw, text : SUBSET (1..slot'.draw)]
  <2>1. 0..slot.draw \subseteq 0..slot'.draw /\ 1..slot.draw \subseteq 1..slot'.draw /\ 0 \in 0..slot'.draw
    BY <1>2, <1>8
  <2> QED
    BY <1>2, <1>5, <2>1 DEF NoDraw
<1>11. SlotTyped'
  <2>1. slot' \in [near : BOOLEAN, draw : Nat, of : 0..link]
    BY <1>5, <1>2
  <2> QED
    BY <1>9, <1>10, <2>1 DEF SlotTyped
<1>12. OneDraw'
  <2>1. \A x \in draws' : ~x.cancelled => begins /\ x = d
    BY <1>3, <1>5
  <2>2. ~near => layers'.canvas = NoDraw
    BY <1>5
  <2> QED
    BY <1>1, <1>6, <1>7, <2>1, <2>2 DEF OneDraw
<1>13. PageComes'
  <2>1. SUFFICES ASSUME near, pdf = link PROVE \E x \in draws' : Underway(x)'
    BY <1>7 DEF PageComes, Alive
  <2>2. begins
    <3>1. near /\ pdf # 0
      BY <1>0, <2>1
    <3> QED
      BY <1>1, <3>1
  <2>3. d \in draws' /\ Underway(d)'
    BY <1>5, <1>6, <2>2 DEF Underway
  <2> QED
    BY <2>3
<1> QED
  BY <1>11, <1>12, <1>13

LEMMA PdfLinked ==
    ASSUME PdfInv, NewLink
    PROVE  PdfInv'
<1>0. link \in Nat /\ link > 0 /\ MaxViews["links"] \in Nat /\ LinkTyped /\ SlotTyped
  BY LinkIsNumber DEF PdfInv
<1>1. PICK l, old : l = [link |-> link + 1, at |-> "open", cancelled |-> FALSE] /\ old = Abandoned(loads)
  OBVIOUS
<1>2. /\ link < MaxViews["links"] /\ link' = link + 1 /\ loads' = old \union {l}
      /\ UNCHANGED <<reader, slot, draws, layers, late>>
  BY <1>1 DEF NewLink
<1>3. old \subseteq LoadSet(link) /\ \A x \in old : x.cancelled
  BY <1>0, <1>1, AbandonedLoads DEF LinkTyped
<1>4. l \in LoadSet(link') /\ l.link = link' /\ ~l.cancelled /\ l.at = "open"
  BY <1>0, <1>1, <1>2 DEF LoadSet
<1>5. LoadSet(link) \subseteq LoadSet(link')
  BY <1>0, <1>2 DEF LoadSet
<1>6. LinkTyped'
  <2>1. 0..link \subseteq 0..link' /\ link' \in 1..MaxViews["links"]
    BY <1>0, <1>2
  <2>2. loads' \subseteq LoadSet(link')
    BY <1>2, <1>3, <1>4, <1>5
  <2>3. reader' \in [pdf : 0..link', outline : 0..link', error : BOOLEAN]
    BY <1>0, <1>2, <2>1 DEF LinkTyped
  <2> QED
    BY <2>1, <2>2, <2>3 DEF LinkTyped
<1>7. SlotTyped'
  <2>1. 0..link \subseteq 0..link' /\ link' \in Nat /\ link <= link' /\ slot.draw \in Nat
    BY <1>0, <1>2 DEF SlotTyped
  <2>2. DrawSet(slot.draw, link) \subseteq DrawSet(slot.draw, link')
    BY <1>0, <2>1, MoreDraws
  <2> QED
    BY <1>0, <1>2, <2>1, <2>2 DEF SlotTyped
<1>8. OneLoad'
  BY <1>2, <1>3, <1>4 DEF OneLoad
<1>9. OneDraw'
  BY <1>2 DEF PdfInv, OneDraw
<1>10. PageComes'
  BY <1>0, <1>2 DEF PageComes, Alive, SlotTyped
<1> QED
  BY <1>6, <1>7, <1>8, <1>9, <1>10 DEF PdfInv

LEMMA PdfSlotStays ==
    ASSUME PdfInv, UNCHANGED <<link, slot, draws, layers, late>>
    PROVE  SlotTyped' /\ OneDraw' /\ PageComes'
BY DEF PdfInv, SlotTyped, OneDraw, PageComes, Alive, Drawn, Underway

LEMMA PdfLoaded ==
    ASSUME PdfInv, Load
    PROVE  PdfInv'
<1>0. /\ link \in Nat /\ link > 0 /\ LinkTyped /\ SlotTyped /\ OneLoad /\ UNCHANGED <<link, late>>
      /\ loads \subseteq LoadSet(link) /\ reader \in [pdf : 0..link, outline : 0..link, error : BOOLEAN]
      /\ slot.near \in BOOLEAN
  BY LinkIsNumber DEF PdfInv, Load, LinkTyped, SlotTyped
<1>1. PICK l \in loads : Opened(l) \/ FirstPage(l) \/ OutlineRead(l) \/ LoadFails(l)
  BY DEF Load
<1>2. l \in LoadSet(link) /\ l.link \in 1..link /\ l.cancelled \in BOOLEAN
  BY <1>0 DEF LoadSet
<1>3. ASSUME NEW at \in {"first", "outline"}, NEW q, q = [l EXCEPT !.at = at]
      PROVE  q \in LoadSet(link) /\ q.at = at /\ q.link = l.link /\ q.cancelled = l.cancelled
  BY <1>2, <1>3 DEF LoadSet
<1>4. CASE Opened(l)
  <2>1. l.at = "open" /\ UNCHANGED <<reader, slot, draws, layers>>
    BY <1>4 DEF Opened
  <2>2. PICK q : q = [l EXCEPT !.at = "first"]
    OBVIOUS
  <2>3. loads' = (loads \ {l}) \union (IF l.cancelled THEN {} ELSE {q})
    BY <1>4, <2>2 DEF Opened
  <2>4. q \in LoadSet(link) /\ q.at = "first" /\ q.link = l.link /\ q.cancelled = l.cancelled
    BY <1>3, <2>2
  <2>5. LinkTyped'
    BY <1>0, <2>1, <2>3, <2>4 DEF LinkTyped
  <2>6. OneLoad'
    BY <1>0, <2>1, <2>3, <2>4 DEF OneLoad
  <2> QED
    BY <1>0, <2>1, <2>5, <2>6, PdfSlotStays DEF PdfInv
<1>5. CASE FirstPage(l) /\ l.cancelled
  <2>1. loads' = loads \ {l} /\ UNCHANGED <<reader, slot, draws, layers>>
    BY <1>5 DEF FirstPage
  <2>2. LinkTyped' /\ OneLoad'
    BY <1>0, <1>5, <2>1 DEF LinkTyped, OneLoad
  <2> QED
    BY <1>0, <2>1, <2>2, PdfSlotStays DEF PdfInv
<1>6. CASE FirstPage(l) /\ ~l.cancelled
  <2>2. PICK q : q = [l EXCEPT !.at = "outline"]
    OBVIOUS
  <2>3. /\ loads' = (loads \ {l}) \union {q} /\ reader' = [reader EXCEPT !.pdf = l.link]
        /\ IF reader.error THEN UNCHANGED <<slot, draws, layers>> ELSE Effect(slot.near, l.link)
    BY <1>6, <2>2 DEF FirstPage
  <2>4. q \in LoadSet(link) /\ q.at = "outline" /\ q.link = l.link /\ q.cancelled = l.cancelled
    BY <1>3, <2>2
  <2>5. l.link = link
    BY <1>0, <1>6 DEF OneLoad
  <2>6. reader' \in [pdf : 0..link, outline : 0..link, error : BOOLEAN] /\ reader'.pdf = link
    BY <1>0, <2>3, <2>5
  <2>7. LinkTyped'
    BY <1>0, <2>3, <2>4, <2>6 DEF LinkTyped
  <2>8. OneLoad'
    BY <1>0, <2>3, <2>4, <2>5, <2>6 DEF OneLoad
  <2>9. SlotTyped' /\ OneDraw' /\ PageComes'
    <3>1. CASE reader.error
      BY <1>0, <2>3, <3>1, PdfSlotStays
    <3>2. CASE ~reader.error
      <4>1. l.link \in 0..link
        BY <1>0, <2>5
      <4> QED
        BY <1>0, <2>3, <3>2, <4>1, EffectMade
    <3> QED
      BY <3>1, <3>2
  <2> QED
    BY <2>7, <2>8, <2>9 DEF PdfInv
<1>7. CASE OutlineRead(l)
  <2>1. l.at = "outline" /\ loads' = loads \ {l} /\ UNCHANGED <<slot, draws, layers>>
    BY <1>7 DEF OutlineRead
  <2>2. PICK o \in {0, l.link} : reader' = IF l.cancelled THEN reader ELSE [reader EXCEPT !.outline = o]
    BY <1>7 DEF OutlineRead
  <2>3. o \in 0..link
    BY <1>0, <1>2
  <2>4. reader' \in [pdf : 0..link, outline : 0..link, error : BOOLEAN] /\ reader'.pdf = reader.pdf /\ reader'.error = reader.error
    BY <1>0, <2>2, <2>3
  <2>5. LinkTyped' /\ OneLoad'
    BY <1>0, <2>1, <2>4 DEF LinkTyped, OneLoad
  <2> QED
    BY <1>0, <2>1, <2>5, PdfSlotStays DEF PdfInv
<1>8. CASE LoadFails(l) /\ l.cancelled
  <2>1. loads' = loads \ {l} /\ UNCHANGED <<reader, slot, draws, layers>>
    BY <1>8 DEF LoadFails
  <2>2. LinkTyped' /\ OneLoad'
    BY <1>0, <1>8, <2>1 DEF LinkTyped, OneLoad
  <2> QED
    BY <1>0, <2>1, <2>2, PdfSlotStays DEF PdfInv
<1>9. CASE LoadFails(l) /\ ~l.cancelled
  <2>1. loads' = loads \ {l} /\ reader' = [reader EXCEPT !.error = TRUE] /\ Effect(FALSE, 0)
    BY <1>9 DEF LoadFails
  <2>2. reader' \in [pdf : 0..link, outline : 0..link, error : BOOLEAN] /\ reader'.error
    BY <1>0, <2>1
  <2>3. LinkTyped' /\ OneLoad'
    BY <1>0, <2>1, <2>2 DEF LinkTyped, OneLoad
  <2>4. 0 \in 0..link /\ FALSE \in BOOLEAN
    BY <1>0
  <2>5. SlotTyped' /\ OneDraw' /\ PageComes'
    BY <1>0, <2>1, <2>4, EffectMade
  <2> QED
    BY <2>3, <2>5 DEF PdfInv
<1> QED
  BY <1>1, <1>2, <1>4, <1>5, <1>6, <1>7, <1>8, <1>9

LEMMA PdfMoved ==
    ASSUME PdfInv, Scroll \/ Zoom
    PROVE  PdfInv'
<1>0. /\ LinkTyped /\ SlotTyped /\ OneLoad /\ UNCHANGED <<link, loads, reader, late>>
      /\ reader.pdf \in 0..link /\ slot.near \in BOOLEAN
  BY DEF PdfInv, Scroll, Zoom, LinkTyped, SlotTyped
<1>1. Effect(~slot.near, reader.pdf) \/ Effect(slot.near, reader.pdf)
  BY DEF Scroll, Zoom
<1>2. SlotTyped' /\ OneDraw' /\ PageComes'
  <2>1. UNCHANGED <<link, late>> /\ (~slot.near) \in BOOLEAN
    BY <1>0
  <2> QED
    BY <1>0, <1>1, <2>1, EffectMade
<1>3. LinkTyped' /\ OneLoad'
  BY <1>0 DEF LinkTyped, OneLoad
<1> QED
  BY <1>2, <1>3 DEF PdfInv

(* The drawing that goes on is the one that a page near waits for.           *)
LEMMA Awaited ==
    ASSUME PdfInv, NEW d \in draws, slot.near, "failed" \notin late, Alive(slot.of)
    PROVE  ~d.cancelled => Underway(d)
BY DEF PdfInv, OneDraw, PageComes, Drawn, Underway

LEMMA PdfDrawn ==
    ASSUME PdfInv, Draw
    PROVE  PdfInv'
<1>0. /\ LinkTyped /\ SlotTyped /\ OneLoad /\ OneDraw /\ PageComes
      /\ UNCHANGED <<link, loads, reader, slot>> /\ slot.draw \in Nat
      /\ draws \subseteq DrawSet(slot.draw, link) /\ layers \in [canvas : 0..slot.draw, text : SUBSET (1..slot.draw)]
  BY DEF PdfInv, Draw, SlotTyped
<1>1. PICK d \in draws : GotPage(d) \/ Painted(d) \/ TextComes(d) \/ DrawFails(d)
  BY DEF Draw
<1>2. d \in DrawSet(slot.draw, link) /\ d.n \in 1..slot.draw /\ d.cancelled \in BOOLEAN
  BY <1>0 DEF DrawSet
<1>3. LinkTyped' /\ OneLoad'
  BY <1>0 DEF LinkTyped, OneLoad
<1>4. ASSUME NEW at \in {"paint", "text"}, NEW q, q = [d EXCEPT !.at = at]
      PROVE  q \in DrawSet(slot.draw, link) /\ q.at = at /\ q.n = d.n /\ q.of = d.of /\ q.cancelled = d.cancelled
  BY <1>2, <1>4 DEF DrawSet
<1>5. ~d.cancelled => slot.near /\ d.n = slot.draw /\ d.of = slot.of /\ \A e \in draws : e # d => e.cancelled
  BY <1>0 DEF OneDraw
<1>6. CASE GotPage(d) /\ d.cancelled
  <2>1. d.at = "page" /\ layers' = layers /\ draws' = draws \ {d} /\ UNCHANGED late
    BY <1>6 DEF GotPage, PutCanvas
  <2>2. SlotTyped'
    BY <1>0, <2>1 DEF SlotTyped
  <2>3. OneDraw'
    BY <1>0, <2>1 DEF OneDraw
  <2>4. PageComes'
    BY <1>0, <1>6, <2>1 DEF PageComes, Alive, Drawn, Underway
  <2> QED
    BY <1>3, <2>2, <2>3, <2>4 DEF PdfInv
<1>7. CASE GotPage(d) /\ ~d.cancelled
  <2>1. PICK q : q = [d EXCEPT !.at = "paint"]
    OBVIOUS
  <2>2. layers' = [layers EXCEPT !.canvas = d.n] /\ draws' = (draws \ {d}) \union {q} /\ UNCHANGED late
    BY <1>7, <2>1 DEF GotPage, PutCanvas
  <2>3. q \in DrawSet(slot.draw, link) /\ q.at = "paint" /\ q.n = d.n /\ q.of = d.of /\ q.cancelled = d.cancelled
    BY <1>4, <2>1
  <2>4. layers' \in [canvas : 0..slot.draw, text : SUBSET (1..slot.draw)] /\ layers'.canvas = d.n /\ layers'.text = layers.text
    <3>1. d.n \in 0..slot.draw
      BY <1>0, <1>2
    <3> QED
      BY <1>0, <2>2, <3>1
  <2>5. SlotTyped'
    BY <1>0, <2>2, <2>3, <2>4 DEF SlotTyped
  <2>6. OneDraw'
    BY <1>0, <1>5, <1>7, <2>2, <2>3 DEF OneDraw
  <2>7. PageComes'
    BY <1>5, <1>7, <2>2, <2>3, <2>4, <1>0 DEF PageComes, Underway
  <2> QED
    BY <1>3, <2>5, <2>6, <2>7 DEF PdfInv
<1>8. CASE Painted(d) /\ d.cancelled
  <2>1. d.at = "paint" /\ layers' = layers /\ draws' = draws \ {d} /\ UNCHANGED late
    BY <1>8 DEF Painted
  <2>2. SlotTyped'
    BY <1>0, <2>1 DEF SlotTyped
  <2>3. OneDraw'
    BY <1>0, <2>1 DEF OneDraw
  <2>4. PageComes'
    BY <1>0, <1>8, <2>1 DEF PageComes, Alive, Drawn, Underway
  <2> QED
    BY <1>3, <2>2, <2>3, <2>4 DEF PdfInv
<1>9. CASE Painted(d) /\ ~d.cancelled
  <2>1. PICK q : q = [d EXCEPT !.at = "text"]
    OBVIOUS
  <2>2. d.at = "paint" /\ layers' = [layers EXCEPT !.text = {}] /\ draws' = (draws \ {d}) \union {q} /\ UNCHANGED late
    BY <1>9, <2>1 DEF Painted, Emptied
  <2>3. q \in DrawSet(slot.draw, link) /\ q.at = "text" /\ q.n = d.n /\ q.of = d.of /\ q.cancelled = d.cancelled
    BY <1>4, <2>1
  <2>4. layers' \in [canvas : 0..slot.draw, text : SUBSET (1..slot.draw)] /\ layers'.canvas = layers.canvas /\ layers'.text = {}
    BY <1>0, <2>2
  <2>5. SlotTyped'
    BY <1>0, <2>2, <2>3, <2>4 DEF SlotTyped
  <2>6. OneDraw'
    BY <1>0, <1>5, <1>9, <2>2, <2>3, <2>4 DEF OneDraw
  <2>7. ASSUME slot.near, "failed" \notin late, Alive(slot.of)
        PROVE  layers.canvas = slot.draw
    BY <1>9, <2>2, <2>7, Awaited DEF Underway
  <2>8. PageComes'
    <3>1. SUFFICES ASSUME slot.near, "failed" \notin late, Alive(slot.of) PROVE Underway(q)'
      BY <1>0, <2>2 DEF PageComes, Alive
    <3> QED
      BY <1>0, <1>9, <2>3, <2>4, <2>7, <3>1 DEF Underway
  <2> QED
    BY <1>3, <2>5, <2>6, <2>8 DEF PdfInv
<1>10. CASE TextComes(d)
  <2>1. /\ d.at = "text" /\ layers' = [layers EXCEPT !.text = @ \union {d.n}]
        /\ late' = (IF d.cancelled THEN late \union {"text"} ELSE late) /\ draws' = draws \ {d}
    BY <1>10 DEF TextComes
  <2>2. /\ layers' \in [canvas : 0..slot.draw, text : SUBSET (1..slot.draw)]
        /\ layers'.canvas = layers.canvas /\ layers'.text = layers.text \union {d.n}
    BY <1>0, <1>2, <2>1
  <2>3. SlotTyped'
    BY <1>0, <2>1, <2>2 DEF SlotTyped
  <2>4. OneDraw'
    BY <1>0, <2>1, <2>2 DEF OneDraw
  <2>5. PageComes'
    <3>1. SUFFICES ASSUME slot.near, "failed" \notin late, Alive(slot.of) PROVE Drawn' \/ \E x \in draws' : Underway(x)'
      BY <1>0, <2>1 DEF PageComes, Alive
    <3>2. CASE d.cancelled
      <4>1. "text" \in late'
        BY <2>1, <3>2
      <4>2. Drawn \/ \E x \in draws : Underway(x)
        BY <1>0, <3>1 DEF PageComes
      <4> QED
        BY <1>0, <2>1, <2>2, <3>2, <4>1, <4>2 DEF Drawn, Underway
    <3>3. CASE ~d.cancelled
      <4>1. Underway(d)
        BY <3>1, <3>3, Awaited
      <4> QED
        BY <1>0, <1>5, <2>1, <2>2, <3>3, <4>1 DEF Drawn, Underway
    <3> QED
      BY <3>2, <3>3
  <2> QED
    BY <1>3, <2>3, <2>4, <2>5 DEF PdfInv
<1>11. CASE DrawFails(d)
  <2>1. /\ draws' = draws \ {d} /\ UNCHANGED layers
        /\ late' = IF d.cancelled \/ ~Alive(d.of) THEN late ELSE late \union {"failed"}
    BY <1>11 DEF DrawFails
  <2>2. SlotTyped'
    BY <1>0, <2>1 DEF SlotTyped
  <2>3. OneDraw'
    BY <1>0, <2>1 DEF OneDraw
  <2>4. PageComes'
    <3>1. SUFFICES ASSUME slot.near, "failed" \notin late', Alive(slot.of) PROVE Drawn' \/ \E x \in draws' : Underway(x)'
      BY <1>0 DEF PageComes, Alive
    <3>2. late' = late /\ d.cancelled
      BY <1>5, <2>1, <3>1
    <3>3. Drawn \/ \E x \in draws : Underway(x)
      BY <1>0, <3>1, <3>2 DEF PageComes
    <3> QED
      BY <1>0, <2>1, <3>2, <3>3 DEF Drawn, Underway
  <2> QED
    BY <1>3, <2>2, <2>3, <2>4 DEF PdfInv
<1> QED
  BY <1>1, <1>2, <1>6, <1>7, <1>8, <1>9, <1>10, <1>11

LEMMA PdfBegins ==
    ASSUME PdfInit
    PROVE  PdfInv
<1>1. PICK l : l = [link |-> 1, at |-> "open", cancelled |-> FALSE]
  OBVIOUS
<1>2. /\ link = 1 /\ loads = {l} /\ reader = [pdf |-> 0, outline |-> 0, error |-> FALSE]
      /\ slot = [near |-> FALSE, draw |-> 0, of |-> 0] /\ draws = {}
      /\ layers = [canvas |-> 0, text |-> {}] /\ late = {}
  BY <1>1 DEF PdfInit, NoDraw
<1>3. l \in LoadSet(1) /\ l.link = 1 /\ ~l.cancelled /\ l.at = "open"
  BY <1>1 DEF LoadSet
<1>4. LinkTyped
  <2>1. MaxViews["links"] \in Nat /\ MaxViews["links"] > 0
    BY PdfAssumption
  <2>2. 1 \in 1..MaxViews["links"]
    BY <2>1
  <2> QED
    BY <1>2, <1>3, <2>2 DEF LinkTyped
<1>5. SlotTyped
  <2>1. 0 \in 0..link /\ 0 \in 0..slot.draw /\ {} \in SUBSET (1..slot.draw)
    BY <1>2
  <2> QED
    BY <1>2, <2>1 DEF SlotTyped
<1> QED
  BY <1>2, <1>3, <1>4, <1>5 DEF PdfInv, OneLoad, OneDraw, PageComes, NoDraw

LEMMA PdfStays ==
    ASSUME PdfInv, UNCHANGED pdfVars
    PROVE  PdfInv'
BY DEF pdfVars, PdfInv, LinkTyped, SlotTyped, OneLoad, OneDraw, PageComes, Alive, Drawn, Underway

LEMMA PdfShows ==
    ASSUME PdfInv
    PROVE  PdfSound
<1>1. PdfTypeOK
  BY DEF PdfInv, LinkTyped, SlotTyped, PdfTypeOK
<1>2. DocumentOfLink /\ FarIsEmpty
  BY DEF PdfInv, OneLoad, OneDraw, DocumentOfLink, FarIsEmpty
<1>3. PageAgrees
  BY DEF PdfInv, PageComes, Drawn, PageAgrees
<1> QED
  BY <1>1, <1>2, <1>3 DEF PdfSound

-----------------------------------------------------------------------------
\* PdfHighlights

(* The highlights are numbered as they are made.                             *)
MarksTyped ==
    /\ \E n \in Nat : marks.made = 1..n
    /\ marks \in [stored : SUBSET marks.made, made : SUBSET Nat, removed : SUBSET marks.made]
    /\ tabs \in [Tabs -> [open : BOOLEAN, shown : SUBSET marks.made]]
    /\ parted \subseteq {"tabs", "full"}

(* Until tabs stand side by side, or the storage is full, the one tab that   *)
(* is open shows what is stored.                                             *)
OneTab ==
    parted = {} => /\ \A t \in Tabs : tabs[t].open => tabs[t].shown = marks.stored
                   /\ \A t, u \in Tabs : tabs[t].open /\ tabs[u].open => t = u
                   /\ marks.stored = marks.made \ marks.removed

MarksInv == MarksTyped /\ OneTab

LEMMA NewMark ==
    ASSUME MarksTyped
    PROVE  LET m == Cardinality(marks.made) + 1 IN m \notin marks.made /\ \E n \in Nat : marks.made \union {m} = 1..n
<1>1. PICK n \in Nat : marks.made = 1..n
  BY DEF MarksTyped
<1>2. Cardinality(1..n) = n
  <2>1. Cardinality(1..n) = IF 1 > n THEN 0 ELSE n - 1 + 1
    BY FS_Interval
  <2> QED
    BY <2>1
<1>3. n + 1 \notin 1..n /\ (1..n) \union {n + 1} = 1..(n + 1) /\ n + 1 \in Nat
  OBVIOUS
<1> QED
  BY <1>1, <1>2, <1>3

(* What a tab writes back, of which it showed all but a new mark before.     *)
LEMMA MarksKept ==
    ASSUME MarksInv, NEW t \in Tabs, NEW shown, tabs[t].open, Keep(t, shown),
           NEW made, made = marks.made \union shown, \E n \in Nat : made = 1..n,
           \A m \in shown \ tabs[t].shown : m \notin marks.made
    PROVE  MarksInv'
<1>0. MarksTyped /\ marks.stored \subseteq marks.made /\ marks.removed \subseteq marks.made /\ made \subseteq Nat
      /\ marks.made \subseteq made /\ shown \subseteq made /\ tabs[t].shown \subseteq marks.made
  BY DEF MarksInv, MarksTyped
<1>1. PICK gone : gone = marks.removed \union (tabs[t].shown \ shown)
  OBVIOUS
<1>2. PICK stored \in {shown, marks.stored} :
        /\ marks' = [stored |-> stored, made |-> made, removed |-> gone]
        /\ \/ stored = shown /\ parted' = parted
           \/ parted' = parted \union {"full"}
  BY <1>1 DEF Keep, Marked, Saved
<1>3. tabs' = [tabs EXCEPT ![t] = [open |-> TRUE, shown |-> shown]]
  BY DEF Keep
<1>4. marks'.stored = stored /\ marks'.made = made /\ marks'.removed = gone
  BY <1>2
<1>5. stored \subseteq made /\ gone \subseteq made
  BY <1>0, <1>1
<1>6. tabs' \in [Tabs -> [open : BOOLEAN, shown : SUBSET made]]
  <2>1. tabs \in [Tabs -> [open : BOOLEAN, shown : SUBSET made]]
    BY <1>0 DEF MarksTyped
  <2>2. [open |-> TRUE, shown |-> shown] \in [open : BOOLEAN, shown : SUBSET made]
    BY <1>0
  <2> QED
    BY <1>3, <2>1, <2>2
<1>7. MarksTyped'
  <2>1. marks' \in [stored : SUBSET made, made : SUBSET Nat, removed : SUBSET made]
    BY <1>0, <1>2, <1>5
  <2>2. parted' \subseteq {"tabs", "full"}
    BY <1>0, <1>2 DEF MarksTyped
  <2> QED
    BY <1>4, <1>6, <2>1, <2>2 DEF MarksTyped
<1>8. OneTab'
  <2>1. SUFFICES ASSUME parted' = {}
                 PROVE  /\ \A u \in Tabs : tabs'[u].open => tabs'[u].shown = marks'.stored
                        /\ \A u, v \in Tabs : tabs'[u].open /\ tabs'[v].open => u = v
                        /\ marks'.stored = marks'.made \ marks'.removed
    BY DEF OneTab
  <2>2. stored = shown /\ parted = {}
    BY <1>2, <2>1
  <2>3. /\ \A u \in Tabs : tabs[u].open => u = t
        /\ tabs[t].shown = marks.stored /\ marks.stored = marks.made \ marks.removed
    BY <2>2 DEF MarksInv, OneTab
  <2>4. tabs'[t].shown = shown /\ \A u \in Tabs : u # t => tabs'[u] = tabs[u]
    BY <1>0, <1>3 DEF MarksTyped
  <2>5. shown = made \ gone
    BY <1>0, <1>1, <2>3
  <2> QED
    BY <1>4, <2>2, <2>3, <2>4, <2>5
<1> QED
  BY <1>7, <1>8 DEF MarksInv

LEMMA MarksStep ==
    ASSUME MarksInv, HighlightNext
    PROVE  MarksInv'
<1>0. /\ MarksTyped /\ OneTab /\ tabs \in [Tabs -> [open : BOOLEAN, shown : SUBSET marks.made]]
      /\ marks.stored \subseteq marks.made
  BY DEF MarksInv, MarksTyped
<1>1. PICK t \in Tabs : OpenTab(t) \/ CloseTab(t) \/ AddMark(t) \/ RemoveMark(t)
  BY DEF HighlightNext
<1>2. CASE OpenTab(t)
  <2>1. /\ ~tabs[t].open /\ tabs' = [tabs EXCEPT ![t] = [open |-> TRUE, shown |-> marks.stored]] /\ UNCHANGED marks
        /\ parted' = IF \E u \in Tabs : tabs[u].open THEN parted \union {"tabs"} ELSE parted
    BY <1>2 DEF OpenTab
  <2>2. [open |-> TRUE, shown |-> marks.stored] \in [open : BOOLEAN, shown : SUBSET marks.made]
    BY <1>0
  <2>3. MarksTyped'
    BY <1>0, <2>1, <2>2 DEF MarksTyped
  <2>4. tabs'[t].shown = marks.stored /\ \A u \in Tabs : u # t => tabs'[u] = tabs[u]
    BY <1>0, <2>1
  <2>5. OneTab'
    BY <1>0, <2>1, <2>4 DEF OneTab
  <2> QED
    BY <2>3, <2>5 DEF MarksInv
<1>3. CASE CloseTab(t)
  <2>1. tabs' = [tabs EXCEPT ![t] = [open |-> FALSE, shown |-> {}]] /\ UNCHANGED <<marks, parted>>
    BY <1>3 DEF CloseTab
  <2>2. MarksTyped'
    BY <1>0, <2>1 DEF MarksTyped
  <2>3. ~tabs'[t].open /\ \A u \in Tabs : u # t => tabs'[u] = tabs[u]
    BY <1>0, <2>1
  <2>4. OneTab'
    BY <1>0, <2>1, <2>3 DEF OneTab
  <2> QED
    BY <2>2, <2>4 DEF MarksInv
<1>4. CASE AddMark(t)
  <2>1. PICK m : m = Cardinality(marks.made) + 1
    OBVIOUS
  <2>2. m \notin marks.made /\ \E n \in Nat : marks.made \union {m} = 1..n
    BY <1>0, <2>1, NewMark
  <2>3. PICK shown : shown = tabs[t].shown \union {m}
    OBVIOUS
  <2>4. tabs[t].open /\ Keep(t, shown)
    BY <1>4, <2>1, <2>3 DEF AddMark
  <2>5. marks.made \union shown = marks.made \union {m}
    BY <1>0, <2>3
  <2>6. PICK made : made = marks.made \union shown
    OBVIOUS
  <2>7. (\E n \in Nat : made = 1..n) /\ \A x \in shown \ tabs[t].shown : x \notin marks.made
    BY <2>2, <2>3, <2>5, <2>6
  <2> QED
    BY <2>4, <2>6, <2>7, MarksKept
<1>5. CASE RemoveMark(t)
  <2>1. PICK m \in tabs[t].shown : Keep(t, tabs[t].shown \ {m})
    BY <1>5 DEF RemoveMark
  <2>2. PICK shown : shown = tabs[t].shown \ {m}
    OBVIOUS
  <2>3. marks.made \union shown = marks.made /\ (\A x \in shown \ tabs[t].shown : x \notin marks.made)
    BY <1>0, <2>2
  <2>4. PICK made : made = marks.made \union shown
    OBVIOUS
  <2>5. \E n \in Nat : made = 1..n
    BY <1>0, <2>3, <2>4 DEF MarksTyped
  <2>6. tabs[t].open /\ Keep(t, shown)
    BY <1>5, <2>1, <2>2 DEF RemoveMark
  <2> QED
    BY <2>3, <2>4, <2>5, <2>6, MarksKept
<1> QED
  BY <1>1, <1>2, <1>3, <1>4, <1>5

LEMMA MarksBegin ==
    ASSUME HighlightInit
    PROVE  MarksInv
<1>1. tabs = [t \in Tabs |-> [open |-> FALSE, shown |-> {}]] /\ marks = [stored |-> {}, made |-> {}, removed |-> {}] /\ parted = {}
  BY DEF HighlightInit
<1>2. marks.made = 1..0 /\ 0 \in Nat
  BY <1>1
<1>3. MarksTyped
  BY <1>1, <1>2 DEF MarksTyped
<1> QED
  BY <1>1, <1>3 DEF MarksInv, OneTab

LEMMA MarksStay ==
    ASSUME MarksInv, UNCHANGED highlightVars
    PROVE  MarksInv'
BY DEF highlightVars, MarksInv, MarksTyped, OneTab

LEMMA MarksShow ==
    ASSUME MarksInv
    PROVE  MarksAreStored
BY DEF MarksInv, MarksTyped, OneTab, MarksAreStored, HighlightTypeOK

-----------------------------------------------------------------------------
\* Profiles: the invariant

Faces   == [name : {"null", "blank", "given", "text"}, bio : {"null", "text"}]
Lists   == SUBSET (People \union Essays)
Parts   == [face : Faces, rows : SUBSET (Counts \X Lists)]
Requests    == [step : {"idle", "sent", "row", "count", "rest", "done", "failed"}, got : SUBSET (Parts \union Lists),
            owner : SUBSET People, ever : SUBSET Essays, old : BOOLEAN]
Entries == [state : {"pending", "data", "error"}, answer : SUBSET (Parts \union Lists), had : BOOLEAN, stale : BOOLEAN]
Taps    == [step : {"idle", "sent", "found", "done", "refused", "refreshing"}, verb : {"PUT", "DELETE"}, target : SUBSET People]
Sights  == {[view |-> "none"]} \union [view : Views, of : Usernames \union Essays]

ServerTyped ==
    /\ account \in [People -> {"none", "live", "failed", "gone"}]
    /\ username \in [People -> Usernames \union {NoUsername}] /\ face \in [People -> Faces]
    /\ follows \subseteq People \X People /\ readable \subseteq Essays /\ published \subseteq Essays
PagesTyped ==
    /\ screens \in [Screens -> Sights] /\ tap \in [Screens -> Taps]
    /\ queries \in [Screens -> [Kinds -> Requests]] /\ entries \in [Screens -> [Kinds -> Entries]]

(* Only the page of a profile has a button, and nobody's is about to follow  *)
(* themselves.                                                               *)
TapSound(s, t) ==
    /\ t.step # "idle" => screens[s].view = "profile"
    /\ t.step = "found" /\ t.verb = "PUT" => ReaderOf[s] \notin t.target

(* A page asks and keeps only what it shows; a profile is read in parts, all *)
(* else at once; and what a document's request has seen visible is all it    *)
(* can answer.                                                               *)
Kept(s, k, a, e) ==
    /\ a.step # "idle" \/ e.state = "data" => Showing(s, k)
    /\ k = "profile" => a.got \subseteq Parts /\ a.step # "rest"
    /\ a.step \in {"row", "count"} => k = "profile"
    /\ k \in Documents => /\ UNION a.got \subseteq a.ever
                          /\ a.step # "idle" => Visible \subseteq a.ever

(* What a request for a profile has once the counts in C are read.           *)
PartOf(s, C) == {[face |-> face[p], rows |-> {<<c, Rows(c, p)>> : c \in C}] : p \in Holder(screens[s].of)}

(* A request that is not old has read the truth so far, unless the page's    *)
(* own call has changed it and the page has not heard yet.                   *)
Asked(s, k, a, step) ==
    ~a.old /\ step # "done" =>
        /\ a.step = "done" => a.got = Truth(s, k)
        /\ a.step = "rest" /\ k # "paper" => Holder(screens[s].of) # {}
        /\ a.step = "row" => a.got = PartOf(s, {})
        /\ a.step = "count" => /\ a.owner = Holder(screens[s].of)
                               /\ \E C \in SUBSET Counts : a.got = PartOf(s, C)

(* An answer that is not stale is the truth, or the page's own call is about *)
(* to ask anew, or has.                                                      *)
Answered(s, k, a, e, step) ==
    e.state = "data" /\ ~e.stale =>
        e.answer = Truth(s, k) \/ step = "done" \/ (step = "refreshing" /\ a.step # "idle")

QuerySound(s, k, a, e, step) == Kept(s, k, a, e) /\ Asked(s, k, a, step) /\ Answered(s, k, a, e, step)

PageSound(s) ==
    /\ TapSound(s, tap[s])
    /\ \A k \in Kinds : QuerySound(s, k, queries[s][k], entries[s][k], tap[s].step)

ProfilesInv == ServerTyped /\ PagesTyped /\ AccountsStand /\ \A s \in Screens : PageSound(s)

-----------------------------------------------------------------------------
\* Profiles: what the queries read

LEMMA OneHolder ==
    ASSUME AccountsStand, NEW u
    PROVE  \/ Holder(u) = {}
           \/ \E p \in Members : Holder(u) = {p}
<1>1. SUFFICES ASSUME Holder(u) # {} PROVE \E p \in Members : Holder(u) = {p}
  OBVIOUS
<1>2. PICK p \in Members : username[p] = u
  BY <1>1 DEF Holder
<1>3. Holder(u) = {p}
  BY <1>2 DEF AccountsStand
<1> QED
  BY <1>2, <1>3

(* A profile, a status or a list is found when its username is held.         *)
LEMMA FoundIfHeld ==
    ASSUME NEW s, NEW k \in Kinds \ {"paper"}
    PROVE  /\ Truth(s, k) = {} <=> Holder(screens[s].of) = {}
           /\ (Truth(s, k) = {})' <=> (Holder(screens[s].of) = {})'
<1>1. CASE k = "profile"
  BY <1>1 DEF Truth
<1>2. CASE k # "profile"
  BY <1>2 DEF Truth
<1> QED
  BY <1>1, <1>2

LEMMA PairsAgree ==
    ASSUME NEW D, NEW F, NEW G, {<<c, F[c]>> : c \in D} = {<<c, G[c]>> : c \in D}
    PROVE  \A c \in D : F[c] = G[c]
<1>1. SUFFICES ASSUME NEW c \in D PROVE F[c] = G[c]
  OBVIOUS
<1>2. <<c, F[c]>> \in {<<d, G[d]>> : d \in D}
  OBVIOUS
<1>3. PICK d \in D : <<c, F[c]>> = <<d, G[d]>>
  BY <1>2
<1> QED
  BY <1>3

(* Where the truth of a profile stays, so does what was read of it.          *)
LEMMA PartsStay ==
    ASSUME AccountsStand, AccountsStand', NEW s \in Screens, screens' = screens,
           \A u : Holder(u) = {} \/ Holder(u)' = {} \/ Holder(u)' = Holder(u),
           Truth(s, "profile")' = Truth(s, "profile")
    PROVE  /\ (Holder(screens[s].of) = Holder(screens[s].of)')
           /\ \A C \in SUBSET Counts : PartOf(s, C)' = PartOf(s, C)
<1>1. PICK u : u = screens[s].of
  OBVIOUS
<1>2. u = screens'[s].of
  BY <1>1
<1>3. Holder(screens[s].of) = Holder(u) /\ Holder(screens[s].of)' = Holder(u)'
  BY <1>1, <1>2 DEF Holder
<1>4. "profile" \in Kinds \ {"paper"}
  BY DEF Kinds
<1>5. Truth(s, "profile") = {} <=> Holder(screens[s].of) = {}
  BY <1>4, FoundIfHeld
<1>6. (Truth(s, "profile") = {})' <=> (Holder(screens[s].of) = {})'
  BY <1>4, FoundIfHeld
<1>7. Holder(u)' = Holder(u)
  BY <1>3, <1>5, <1>6
<1>8. CASE Holder(u) = {}
  BY <1>1, <1>2, <1>3, <1>7, <1>8 DEF PartOf
<1>9. CASE Holder(u) # {}
  <2>1. PICK p : Holder(u) = {p}
    BY <1>9, OneHolder
  <2>2. PICK F, G : F = [c \in Counts |-> Rows(c, p)] /\ G = [c \in Counts |-> Rows(c, p)']
    OBVIOUS
  <2>3. PICK x, y : x = face[p] /\ y = face'[p]
    OBVIOUS
  <2>4. Truth(s, "profile") = {[face |-> x, rows |-> {<<c, F[c]>> : c \in Counts}]}
    <3>1. {<<c, F[c]>> : c \in Counts} = {<<c, Rows(c, p)>> : c \in Counts}
      BY <2>2
    <3> QED
      BY <1>1, <2>1, <2>3, <3>1 DEF Truth, PageOf
  <2>5. Truth(s, "profile")' = {[face |-> y, rows |-> {<<c, G[c]>> : c \in Counts}]}
    <3>1. {<<c, G[c]>> : c \in Counts} = {<<c, Rows(c, p)'>> : c \in Counts}
      BY <2>2
    <3>2. Holder(screens[s].of)' = {p}
      BY <1>3, <1>7, <2>1
    <3>3. Truth(s, "profile")' = {[face |-> face'[q], rows |-> {<<c, Rows(c, q)'>> : c \in Counts}] : q \in Holder(screens[s].of)'}
      BY DEF Truth, PageOf
    <3> QED
      BY <2>3, <3>1, <3>2, <3>3
  <2>6. [face |-> x, rows |-> {<<c, F[c]>> : c \in Counts}] = [face |-> y, rows |-> {<<c, G[c]>> : c \in Counts}]
    BY <2>4, <2>5
  <2>7. x = y /\ {<<c, F[c]>> : c \in Counts} = {<<c, G[c]>> : c \in Counts}
    BY <2>6
  <2>8. \A c \in Counts : F[c] = G[c]
    BY <2>7, PairsAgree
  <2>9. ASSUME NEW C \in SUBSET Counts PROVE PartOf(s, C)' = PartOf(s, C)
    <3>1. PartOf(s, C) = {[face |-> face[q], rows |-> {<<c, Rows(c, q)>> : c \in C}] : q \in Holder(screens[s].of)}
      BY DEF PartOf
    <3>2. PartOf(s, C)' = {[face |-> face'[q], rows |-> {<<c, Rows(c, q)'>> : c \in C}] : q \in Holder(screens[s].of)'}
      BY DEF PartOf
    <3>3. Holder(screens[s].of) = {p} /\ Holder(screens[s].of)' = {p}
      BY <1>3, <1>7, <2>1
    <3>4. {<<c, Rows(c, p)>> : c \in C} = {<<c, Rows(c, p)'>> : c \in C}
      <4>1. ASSUME NEW c \in C PROVE Rows(c, p) = Rows(c, p)'
        BY <2>2, <2>8, <2>9
      <4> QED
        BY <4>1
    <3>5. PartOf(s, C) = {[face |-> face[p], rows |-> {<<c, Rows(c, p)>> : c \in C}]}
      BY <3>1, <3>3
    <3>6. PartOf(s, C)' = {[face |-> face'[p], rows |-> {<<c, Rows(c, p)'>> : c \in C}]}
      BY <3>2, <3>3
    <3>7. face[p] = face'[p]
      BY <2>3, <2>7
    <3> QED
      BY <3>4, <3>5, <3>6, <3>7
  <2> QED
    BY <1>3, <1>7, <2>9
<1> QED
  BY <1>8, <1>9

LEMMA RowsTyped ==
    ASSUME ServerTyped
    PROVE  /\ \A c, p : c \in Counts => Rows(c, p) \in Lists
           /\ \A s : \A k \in Kinds \ {"profile"} : Rest(s, k) \in Lists
           /\ \A s : Rest(s, "documents") \subseteq Visible /\ Rest(s, "paper") \subseteq Visible
           /\ Visible \subseteq Essays /\ Members \subseteq People
<1>1. Visible \subseteq Essays /\ Members \subseteq People
  BY DEF ServerTyped, Visible, Members
<1>2. ASSUME NEW c \in Counts, NEW p PROVE Rows(c, p) \in Lists
  BY <1>1, <1>2 DEF Rows, Counts, Lists
<1>3. ASSUME NEW k \in {"followers", "following", "documents"}, NEW u PROVE Listed(k, u) \in Lists
  BY <1>2, <1>3 DEF Listed, Lists, Counts
<1>4. ASSUME NEW s, NEW k \in Kinds \ {"profile"} PROVE Rest(s, k) \in Lists
  <2>1. Listed("documents", screens[s].of) \in Lists
    BY <1>3
  <2>2. PublicDocument(screens[s].of) \in Lists /\ Followed(s, screens[s].of) \in Lists
    BY <1>1 DEF PublicDocument, Followed, Holder, Lists
  <2> QED
    BY <1>3, <1>4, <2>1, <2>2 DEF Rest, Kinds
<1>5. ASSUME NEW s PROVE Rest(s, "documents") \subseteq Visible /\ Rest(s, "paper") \subseteq Visible
  BY DEF Rest, Listed, Rows, PublicDocument
<1> QED
  BY <1>1, <1>2, <1>4, <1>5

-----------------------------------------------------------------------------
\* Profiles: accounts and documents

(* A username passes from nobody to somebody or back, never between two.     *)
HoldersMove == \A u : Holder(u) = {} \/ Holder(u)' = {} \/ Holder(u)' = Holder(u)

LEMMA SameMembers ==
    ASSUME UNCHANGED <<account, username>>
    PROVE  Members' = Members /\ (\A u : Holder(u)' = Holder(u)) /\ HoldersMove
<1>1. Members' = Members
  BY DEF Members
<1>2. \A u : Holder(u)' = Holder(u)
  BY <1>1 DEF Holder
<1> QED
  BY <1>1, <1>2 DEF HoldersMove

LEMMA SignedUp ==
    ASSUME ServerTyped, AccountsStand, NEW p \in People, SignUpProfile(p)
    PROVE  ServerTyped' /\ AccountsStand' /\ HoldersMove
<1>0. account[p] = "none" /\ UNCHANGED <<follows, readable, published>> /\ p \notin Members
  BY DEF SignUpProfile, Members
<1>1. PICK drawn \in [1..Attempts -> Usernames \ Retired] :
        \/ \E i \in 1..Attempts :
            /\ ~Taken(drawn[i]) /\ \A j \in 1..(i - 1) : Taken(drawn[j])
            /\ account' = [account EXCEPT ![p] = "live"]
            /\ username' = [username EXCEPT ![p] = drawn[i]]
            /\ face' = [face EXCEPT ![p] = Face(FirstName(p))]
        \/ /\ \A i \in 1..Attempts : Taken(drawn[i])
           /\ account' = [account EXCEPT ![p] = "failed"] /\ UNCHANGED <<username, face>>
  BY DEF SignUpProfile
<1>2. CASE /\ account' = [account EXCEPT ![p] = "failed"] /\ UNCHANGED <<username, face>>
  <2>1. ServerTyped'
    BY <1>0, <1>2 DEF ServerTyped
  <2>2. Members' = Members
    BY <1>0, <1>2 DEF Members, ServerTyped
  <2>3. \A u : Holder(u)' = Holder(u)
    BY <1>2, <2>2 DEF Holder
  <2>4. AccountsStand'
    BY <1>0, <1>2, <2>2, <2>3 DEF AccountsStand
  <2> QED
    BY <2>1, <2>3, <2>4 DEF HoldersMove
<1>3. CASE \E i \in 1..Attempts : /\ ~Taken(drawn[i]) /\ \A j \in 1..(i - 1) : Taken(drawn[j])
                                  /\ account' = [account EXCEPT ![p] = "live"]
                                  /\ username' = [username EXCEPT ![p] = drawn[i]]
                                  /\ face' = [face EXCEPT ![p] = Face(FirstName(p))]
  <2>1. PICK v \in Usernames : /\ ~Taken(v) /\ account' = [account EXCEPT ![p] = "live"]
                               /\ username' = [username EXCEPT ![p] = v] /\ face' = [face EXCEPT ![p] = Face(FirstName(p))]
    BY <1>3
  <2>2. Face(FirstName(p)) \in Faces /\ Face(FirstName(p)).name # "null"
    BY DEF Face, FirstName, Faces
  <2>3. ServerTyped'
    BY <1>0, <2>1, <2>2 DEF ServerTyped
  <2>4. Members' = Members \union {p}
    BY <1>0, <2>1 DEF Members, ServerTyped
  <2>5. username'[p] = v /\ face'[p] = Face(FirstName(p)) /\ \A q \in Members : username'[q] = username[q] /\ face'[q] = face[q]
    BY <1>0, <2>1 DEF ServerTyped, Members
  <2>6. Holder(v) = {}
    BY <2>1 DEF Taken
  <2>7. \A u : Holder(u)' = IF u = v THEN {p} ELSE Holder(u)
    BY <2>4, <2>5, <2>6 DEF Holder
  <2>8. HoldersMove
    BY <2>6, <2>7 DEF HoldersMove
  <2>9. ASSUME NEW q \in Members'
        PROVE  username'[q] # NoUsername /\ Holder(username[q])' = {q} /\ face'[q].name # "null"
    <3>1. CASE q = p
      <4>1. v # NoUsername
        BY <2>1, ProfileAssumption
      <4> QED
        BY <2>2, <2>5, <2>7, <3>1, <4>1 DEF Holder
    <3>2. CASE q # p
      <4>1. q \in Members /\ username'[q] = username[q] /\ face'[q] = face[q]
        BY <2>4, <2>5, <3>2
      <4>2. username[q] # NoUsername /\ Holder(username[q]) = {q} /\ face[q].name # "null"
        BY <4>1 DEF AccountsStand
      <4>3. PICK u : u = username[q]
        OBVIOUS
      <4>4. u # v
        BY <2>6, <4>2, <4>3
      <4>5. Holder(u)' = {q}
        BY <2>7, <4>2, <4>3, <4>4
      <4>6. Holder(username[q])' = {q}
        BY <4>1, <4>3, <4>5 DEF Holder
      <4> QED
        BY <4>1, <4>2, <4>6
    <3> QED
      BY <3>1, <3>2
  <2>10. \A f \in follows' : f[1] # f[2] /\ {f[1], f[2]} \subseteq Members'
    BY <1>0, <2>4 DEF AccountsStand
  <2>11. AccountsStand'
    BY <2>9, <2>10 DEF AccountsStand
  <2> QED
    BY <2>3, <2>8, <2>11
<1> QED
  BY <1>1, <1>2, <1>3

LEMMA Erased ==
    ASSUME ServerTyped, AccountsStand, NEW p \in People, Erase(p)
    PROVE  ServerTyped' /\ AccountsStand' /\ HoldersMove
<1>1. /\ account[p] = "live" /\ account' = [account EXCEPT ![p] = "gone"] /\ UNCHANGED <<username, face>>
      /\ follows' = {f \in follows : p \notin {f[1], f[2]}}
      /\ readable' \subseteq readable /\ published' \subseteq published
  BY DEF Erase
<1>2. ServerTyped'
  BY <1>1 DEF ServerTyped
<1>3. Members' = Members \ {p} /\ p \in Members
  BY <1>1 DEF Members, ServerTyped
<1>4. \A u : Holder(u)' = Holder(u) \ {p}
  BY <1>1, <1>3 DEF Holder
<1>5. HoldersMove
  <2>1. SUFFICES ASSUME NEW u PROVE Holder(u) = {} \/ Holder(u)' = {} \/ Holder(u)' = Holder(u)
    BY DEF HoldersMove
  <2> QED
    BY <1>4, OneHolder
<1>6. ASSUME NEW q \in Members'
      PROVE  username'[q] # NoUsername /\ Holder(username[q])' = {q} /\ face'[q].name # "null"
  <2>1. q \in Members /\ q # p
    BY <1>3
  <2>2. username[q] # NoUsername /\ Holder(username[q]) = {q} /\ face[q].name # "null"
    BY <2>1 DEF AccountsStand
  <2>3. PICK u : u = username[q]
    OBVIOUS
  <2>4. Holder(u)' = {q}
    BY <1>4, <2>1, <2>2, <2>3
  <2>5. Holder(username[q])' = {q}
    BY <1>1, <2>3, <2>4 DEF Holder
  <2> QED
    BY <1>1, <2>2, <2>5
<1>7. \A f \in follows' : f[1] # f[2] /\ {f[1], f[2]} \subseteq Members'
  BY <1>1, <1>3 DEF AccountsStand
<1>8. AccountsStand'
  BY <1>6, <1>7 DEF AccountsStand
<1> QED
  BY <1>2, <1>5, <1>8

(* Steps that leave the accounts and their usernames alone.                  *)
LEMMA AccountsKept ==
    ASSUME ServerTyped, AccountsStand, UNCHANGED <<account, username>>, face' \in [People -> Faces],
           \A p \in Members : face'[p].name # "null",
           \A f \in follows' : f \in follows \/ (f[1] # f[2] /\ f \in Members \X Members),
           readable' \subseteq Essays, published' \subseteq Essays
    PROVE  ServerTyped' /\ AccountsStand' /\ HoldersMove
<1>1. Members' = Members /\ (\A u : Holder(u)' = Holder(u)) /\ HoldersMove
  BY SameMembers
<1>2. Members \subseteq People
  BY DEF Members
<1>3. ServerTyped'
  BY <1>2 DEF ServerTyped
<1>4. ASSUME NEW p \in Members'
      PROVE  username'[p] # NoUsername /\ Holder(username[p])' = {p} /\ face'[p].name # "null"
  <2>1. PICK u : u = username[p]
    OBVIOUS
  <2>2. p \in Members /\ u # NoUsername /\ Holder(u) = {p}
    BY <1>1, <2>1 DEF AccountsStand
  <2>3. Holder(username[p])' = Holder(u)'
    BY <2>1 DEF Holder
  <2> QED
    BY <1>1, <2>1, <2>2, <2>3
<1>5. \A f \in follows' : f[1] # f[2] /\ {f[1], f[2]} \subseteq Members'
  BY <1>1 DEF AccountsStand
<1>6. AccountsStand'
  BY <1>4, <1>5 DEF AccountsStand
<1> QED
  BY <1>1, <1>3, <1>6

LEMMA ProfileSaved ==
    ASSUME ServerTyped, AccountsStand, NEW p \in People, SaveProfile(p)
    PROVE  ServerTyped' /\ AccountsStand' /\ HoldersMove
<1>1. PICK name \in Words, bio \in Words :
        /\ Acceptable(name, bio)
        /\ face' = [face EXCEPT ![p] = [name |-> IF name = "absent" THEN face[p].name ELSE Parsed(name),
                                        bio  |-> IF bio = "absent" THEN face[p].bio ELSE Parsed(bio)]]
  BY DEF SaveProfile
<1>2. account[p] = "live" /\ p \in Members /\ UNCHANGED <<account, username, follows, readable, published>>
  BY DEF SaveProfile, Members
<1>3. face[p].name \in {"blank", "given", "text"} /\ face[p].bio \in {"null", "text"}
  BY <1>2 DEF ServerTyped, Faces, AccountsStand
<1>4. PICK x, y : x = (IF name = "absent" THEN face[p].name ELSE Parsed(name)) /\ y = (IF bio = "absent" THEN face[p].bio ELSE Parsed(bio))
  OBVIOUS
<1>5. x \in {"blank", "given", "text"} /\ y \in {"null", "text"}
  BY <1>1, <1>3, <1>4 DEF Acceptable, Parsed, Words
<1>6. face' = [face EXCEPT ![p] = [name |-> x, bio |-> y]]
  BY <1>1, <1>4
<1>7. [name |-> x, bio |-> y] \in Faces /\ [name |-> x, bio |-> y].name = x
  BY <1>5 DEF Faces
<1>8. face' \in [People -> Faces] /\ face'[p].name = x /\ \A q \in Members : q # p => face'[q] = face[q]
  BY <1>6, <1>7 DEF ServerTyped, Members
<1>9. \A q \in Members : face'[q].name # "null"
  BY <1>5, <1>8 DEF AccountsStand
<1>10. readable' \subseteq Essays /\ published' \subseteq Essays /\ follows' = follows
  BY <1>2 DEF ServerTyped
<1> QED
  BY <1>2, <1>8, <1>9, <1>10, AccountsKept

LEMMA DocumentTurned ==
    ASSUME ServerTyped, AccountsStand, NEW d \in Essays, TurnDocument(d)
    PROVE  ServerTyped' /\ AccountsStand' /\ HoldersMove
<1>1. UNCHANGED <<account, username, face, follows>> /\ readable' \subseteq readable \union {d} /\ published' \subseteq published \union {d}
  BY DEF TurnDocument
<1>2. face' \in [People -> Faces] /\ \A p \in Members : face'[p].name # "null"
  BY <1>1 DEF ServerTyped, AccountsStand
<1>3. readable' \subseteq Essays /\ published' \subseteq Essays
  BY <1>1 DEF ServerTyped
<1> QED
  BY <1>1, <1>2, <1>3, AccountsKept

LEMMA FollowedElsewhere ==
    ASSUME ServerTyped, AccountsStand, NEW p \in People, NEW q \in People, FollowElsewhere(p, q)
    PROVE  ServerTyped' /\ AccountsStand' /\ HoldersMove
<1>1. /\ UNCHANGED <<account, username, face, readable, published>> /\ p \in Members /\ q \in Members /\ p # q
      /\ follows' \subseteq follows \union {<<p, q>>}
  BY DEF FollowElsewhere
<1>2. face' \in [People -> Faces] /\ (\A r \in Members : face'[r].name # "null")
      /\ readable' \subseteq Essays /\ published' \subseteq Essays
  BY <1>1 DEF ServerTyped, AccountsStand
<1>3. \A f \in follows' : f \in follows \/ (f[1] # f[2] /\ f \in Members \X Members)
  BY <1>1
<1> QED
  BY <1>1, <1>2, <1>3, AccountsKept

LEMMA FollowWritten ==
    ASSUME ServerTyped, AccountsStand, NEW s \in Screens, WriteFollow(s), TapSound(s, tap[s])
    PROVE  ServerTyped' /\ AccountsStand' /\ HoldersMove
<1>1. PICK rows : rows = {<<ReaderOf[s], p>> : p \in tap[s].target}
  OBVIOUS
<1>2. /\ tap[s].step = "found" /\ UNCHANGED <<account, username, face, readable, published>>
      /\ \/ tap[s].verb = "PUT" /\ (\A f \in rows : References(f)) /\ follows' = follows \union rows
         \/ follows' \subseteq follows
  BY <1>1 DEF WriteFollow
<1>3. face' \in [People -> Faces] /\ (\A r \in Members : face'[r].name # "null")
      /\ readable' \subseteq Essays /\ published' \subseteq Essays
  BY <1>2 DEF ServerTyped, AccountsStand
<1>4. ASSUME NEW f \in follows', f \notin follows PROVE f[1] # f[2] /\ f \in Members \X Members
  <2>1. tap[s].verb = "PUT" /\ f \in rows /\ References(f)
    BY <1>2, <1>4
  <2>2. PICK p \in tap[s].target : f = <<ReaderOf[s], p>>
    BY <1>1, <2>1
  <2>3. ReaderOf[s] \notin tap[s].target
    BY <1>2, <2>1 DEF TapSound
  <2> QED
    BY <2>1, <2>2, <2>3 DEF References
<1> QED
  BY <1>2, <1>3, <1>4, AccountsKept

-----------------------------------------------------------------------------
\* Profiles: the pages when the server moves

(* What a request or an answer is once the server has moved.                 *)
LEMMA NotedAt ==
    ASSUME PagesTyped, (Visible \subseteq Essays)', NEW own, Noted(own), NEW s \in Screens, NEW k \in Kinds,
           NEW a, a = queries[s][k], NEW e, e = entries[s][k],
           NEW b, b = queries'[s][k], NEW g, g = entries'[s][k]
    PROVE  /\ a \in Requests /\ b \in Requests /\ e \in Entries /\ g \in Entries
           /\ b.step = a.step /\ g.state = e.state /\ g.answer = e.answer
           /\ a.step = "idle" => b = NoAsk
           /\ a.step # "idle" => /\ b.got = a.got /\ b.owner = a.owner /\ b.old = (a.old \/ Outdated(own, s, k))
                                 /\ b.ever = IF k \in Documents THEN a.ever \union Visible' ELSE a.ever
           /\ g.stale = (e.stale \/ Outdated(own, s, k))
<1>1. a \in Requests /\ e \in Entries
  BY DEF PagesTyped
<1>2. PICK o, v : o = Outdated(own, s, k) /\ v = Visible'
  OBVIOUS
<1>3. o \in BOOLEAN /\ v \subseteq Essays
  BY <1>2 DEF Outdated
<1>4. b = IF a.step = "idle" THEN NoAsk
          ELSE [[a EXCEPT !.old = @ \/ o] EXCEPT !.ever = IF k \in Documents THEN @ \union v ELSE @]
  BY <1>2 DEF Noted
<1>5. g = [e EXCEPT !.stale = @ \/ o]
  BY <1>2 DEF Noted
<1>6. g \in Entries /\ g.state = e.state /\ g.answer = e.answer /\ g.stale = (e.stale \/ o)
  BY <1>1, <1>3, <1>5 DEF Entries
<1>7. CASE a.step = "idle"
  <2>1. b = NoAsk /\ NoAsk \in Requests /\ NoAsk.step = "idle"
    BY <1>4, <1>7 DEF NoAsk, Requests
  <2> QED
    BY <1>1, <1>2, <1>6, <1>7, <2>1
<1>8. CASE a.step # "idle"
  <2>1. PICK c : c = [a EXCEPT !.old = @ \/ o]
    OBVIOUS
  <2>2. c \in Requests /\ c.step = a.step /\ c.got = a.got /\ c.owner = a.owner /\ c.ever = a.ever /\ c.old = (a.old \/ o)
    BY <1>1, <1>3, <2>1 DEF Requests
  <2>3. PICK w : w = IF k \in Documents THEN c.ever \union v ELSE c.ever
    OBVIOUS
  <2>4. b = [c EXCEPT !.ever = w] /\ w \in SUBSET Essays
    <3>1. c.ever \in SUBSET Essays
      BY <2>2 DEF Requests
    <3> QED
      BY <1>3, <1>4, <1>8, <2>1, <2>3, <3>1
  <2>5. b \in Requests /\ b.step = c.step /\ b.got = c.got /\ b.owner = c.owner /\ b.ever = w /\ b.old = c.old
    BY <2>2, <2>4 DEF Requests
  <2> QED
    BY <1>1, <1>2, <1>6, <1>8, <2>2, <2>3, <2>5
<1> QED
  BY <1>7, <1>8

LEMMA PagesNoted ==
    ASSUME ProfilesInv, ServerTyped', AccountsStand', HoldersMove, screens' = screens, NEW own, Noted(own),
           tap' \in [Screens -> Taps],
           \A s \in Screens : tap'[s] = tap[s] \/ (tap[s].step = "found" /\ tap'[s].step \in {"done", "refused"}),
           \A s \in own \cap Screens : \A k \in Kinds : Truth(s, k)' = Truth(s, k) \/ tap'[s].step = "done"
    PROVE  ProfilesInv'
<1>0. PagesTyped /\ (\A s \in Screens : PageSound(s)) /\ ServerTyped
  BY DEF ProfilesInv
<1>1. (Visible \subseteq Essays)'
  BY DEF ServerTyped, Visible
<1>2. PagesTyped'
  <2>1. ASSUME NEW s \in Screens, NEW k \in Kinds
        PROVE  queries'[s][k] \in Requests /\ entries'[s][k] \in Entries
    <3>1. PICK a, e, b, g : a = queries[s][k] /\ e = entries[s][k] /\ b = queries'[s][k] /\ g = entries'[s][k]
      OBVIOUS
    <3>2. b \in Requests /\ g \in Entries
      BY <1>0, <1>1, <3>1, NotedAt, ZenonT(60)
    <3> QED
      BY <3>1, <3>2
  <2>2. queries' = [s \in Screens |-> [k \in Kinds |-> queries'[s][k]]]
    BY ZenonT(60) DEF Noted
  <2>3. entries' = [s \in Screens |-> [k \in Kinds |-> entries'[s][k]]]
    BY DEF Noted
  <2>4. queries' \in [Screens -> [Kinds -> Requests]] /\ entries' \in [Screens -> [Kinds -> Entries]]
    BY <2>1, <2>2, <2>3
  <2> QED
    BY <1>0, <2>4 DEF PagesTyped
<1>3. ASSUME NEW s \in Screens PROVE PageSound(s)'
  <2>0. TapSound(s, tap[s]) /\ tap[s] \in Taps /\ tap'[s] \in Taps
    BY <1>0, <1>3 DEF PageSound, PagesTyped
  <2>1. PICK t, step, prior : t = tap'[s] /\ step = t.step /\ prior = tap[s].step
    OBVIOUS
  <2>2. tap'[s] = tap[s] \/ (prior = "found" /\ step \in {"done", "refused"})
    BY <2>1
  <2>3. TapSound(s, tap[s])'
    <3>1. TapSound(s, t)'
      BY <2>0, <2>1, <2>2 DEF TapSound
    <3> QED
      BY <2>1, <3>1 DEF TapSound
  <2>4. ASSUME NEW k \in Kinds PROVE QuerySound(s, k, queries[s][k], entries[s][k], tap[s].step)'
    <3>1. PICK a, e, b, g : a = queries[s][k] /\ e = entries[s][k] /\ b = queries'[s][k] /\ g = entries'[s][k]
      OBVIOUS
    <3>2. /\ a \in Requests /\ b \in Requests /\ e \in Entries /\ g \in Entries
          /\ b.step = a.step /\ g.state = e.state /\ g.answer = e.answer
          /\ a.step = "idle" => b = NoAsk
          /\ a.step # "idle" => /\ b.got = a.got /\ b.owner = a.owner /\ b.old = (a.old \/ Outdated(own, s, k))
                                /\ b.ever = IF k \in Documents THEN a.ever \union Visible' ELSE a.ever
          /\ g.stale = (e.stale \/ Outdated(own, s, k))
      BY <1>0, <1>1, <3>1, NotedAt, SMTT(60)
    <3>3. Kept(s, k, a, e) /\ Asked(s, k, a, prior) /\ Answered(s, k, a, e, prior)
      BY <1>0, <2>1, <3>1 DEF PageSound, QuerySound
    <3>4. Kept(s, k, b, g)'
      <4>1. Showing(s, k)' <=> Showing(s, k)
        BY DEF Showing
      <4>2. CASE a.step = "idle"
        <5>1. b.got = {} /\ b.step = "idle"
          BY <3>2, <4>2 DEF NoAsk
        <5> QED
          BY <3>2, <3>3, <4>1, <4>2, <5>1 DEF Kept
      <4>3. CASE a.step # "idle"
        BY <3>2, <3>3, <4>1, <4>3 DEF Kept
      <4> QED
        BY <4>2, <4>3
    <3>5. ASSUME b.step # "idle" \/ g.state = "data", ~Outdated(own, s, k), step # "done"
          PROVE  Truth(s, k)' = Truth(s, k) /\ prior # "done" /\ (prior = "refreshing" => step = "refreshing")
      <4>1. Showing(s, k)
        BY <3>2, <3>3, <3>5 DEF Kept
      <4>2. s \in own \/ Truth(s, k)' = Truth(s, k)
        BY <3>5, <4>1 DEF Outdated
      <4> QED
        BY <2>1, <2>2, <3>5, <4>2
    <3>6. Asked(s, k, b, step)'
      <4>1. SUFFICES ASSUME ~b.old, step # "done"
                     PROVE  /\ b.step = "done" => b.got = Truth(s, k)'
                            /\ b.step = "rest" /\ k # "paper" => Holder(screens[s].of)' # {}
                            /\ b.step = "row" => b.got = PartOf(s, {})'
                            /\ b.step = "count" => /\ b.owner = Holder(screens[s].of)'
                                                   /\ \E C \in SUBSET Counts : b.got = PartOf(s, C)'
        BY DEF Asked
      <4>2. SUFFICES ASSUME a.step # "idle"
                     PROVE  /\ b.step = "done" => b.got = Truth(s, k)'
                            /\ b.step = "rest" /\ k # "paper" => Holder(screens[s].of)' # {}
                            /\ b.step = "row" => b.got = PartOf(s, {})'
                            /\ b.step = "count" => /\ b.owner = Holder(screens[s].of)'
                                                   /\ \E C \in SUBSET Counts : b.got = PartOf(s, C)'
        BY <3>2
      <4>3. ~a.old /\ ~Outdated(own, s, k) /\ b.got = a.got /\ b.owner = a.owner /\ b.step = a.step
        BY <3>2, <4>1, <4>2
      <4>4. Truth(s, k)' = Truth(s, k) /\ prior # "done"
        BY <3>5, <4>1, <4>2, <4>3
      <4>5. /\ a.step = "done" => a.got = Truth(s, k)
            /\ a.step = "rest" /\ k # "paper" => Holder(screens[s].of) # {}
            /\ a.step = "row" => a.got = PartOf(s, {})
            /\ a.step = "count" => /\ a.owner = Holder(screens[s].of)
                                   /\ \E C \in SUBSET Counts : a.got = PartOf(s, C)
        BY <3>3, <4>3, <4>4 DEF Asked
      <4>6. b.step = "rest" /\ k # "paper" => Holder(screens[s].of)' # {}
        BY <4>3, <4>4, <4>5, FoundIfHeld
      <4>7. ASSUME b.step \in {"row", "count"}
            PROVE  (Holder(screens[s].of) = Holder(screens[s].of)') /\ \A C \in SUBSET Counts : PartOf(s, C)' = PartOf(s, C)
        <5>1. k = "profile"
          BY <3>3, <4>3, <4>7 DEF Kept
        <5>2. Truth(s, "profile")' = Truth(s, "profile") /\ \A u : Holder(u) = {} \/ Holder(u)' = {} \/ Holder(u)' = Holder(u)
          BY <4>4, <5>1 DEF HoldersMove
        <5>3. AccountsStand
          BY DEF ProfilesInv
        <5> QED
          BY <5>2, <5>3, PartsStay
      <4>8. {} \in SUBSET Counts
        OBVIOUS
      <4> QED
        BY <4>3, <4>4, <4>5, <4>6, <4>7, <4>8
    <3>7. Answered(s, k, b, g, step)'
      <4>1. SUFFICES ASSUME g.state = "data", ~g.stale, step # "done", ~(step = "refreshing" /\ b.step # "idle")
                     PROVE  g.answer = Truth(s, k)'
        BY DEF Answered
      <4>2. e.state = "data" /\ ~e.stale /\ ~Outdated(own, s, k)
        BY <3>2, <4>1
      <4>3. Truth(s, k)' = Truth(s, k) /\ prior # "done" /\ (prior = "refreshing" => step = "refreshing")
        BY <3>5, <4>1, <4>2
      <4>4. e.answer = Truth(s, k)
        BY <3>2, <3>3, <4>1, <4>2, <4>3 DEF Answered
      <4> QED
        BY <3>2, <4>3, <4>4
    <3>8. QuerySound(s, k, b, g, step)'
      BY <3>4, <3>6, <3>7 DEF QuerySound
    <3> QED
      BY <2>1, <3>1, <3>8 DEF QuerySound, Kept, Asked, Answered
  <2> QED
    BY <2>3, <2>4 DEF PageSound
<1> QED
  BY <1>2, <1>3 DEF ProfilesInv

-----------------------------------------------------------------------------
\* Profiles: the steps of a page

LEMMA SameTruth ==
    ASSUME UNCHANGED serverVars, NEW s, screens'[s] = screens[s], NEW k
    PROVE  /\ Truth(s, k)' = Truth(s, k) /\ Holder(screens[s].of)' = Holder(screens[s].of)
           /\ (\A C : PartOf(s, C)' = PartOf(s, C)) /\ Members' = Members /\ Visible' = Visible
<1>1. /\ account' = account /\ username' = username /\ face' = face /\ follows' = follows
      /\ readable' = readable /\ published' = published /\ screens'[s] = screens[s]
  BY DEF serverVars
<1>2. Members' = Members /\ Visible' = Visible
  BY <1>1 DEF Members, Visible
<1>3. (\A u : Holder(u)' = Holder(u)) /\ Holder(screens[s].of)' = Holder(screens[s].of)
  BY <1>1, <1>2 DEF Holder
<1>4. \A c, p : Rows(c, p)' = Rows(c, p)
  BY <1>1, <1>2 DEF Rows
<1>5. Truth(s, k)' = Truth(s, k)
  <2>1. \A j, u : Listed(j, u)' = Listed(j, u)
    BY <1>3, <1>4 DEF Listed
  <2>2. \A u : Followed(s, u)' = Followed(s, u) /\ PublicDocument(u)' = PublicDocument(u)
    BY <1>1, <1>2, <1>3 DEF Followed, PublicDocument
  <2>3. Rest(s, k)' = Rest(s, k)
    BY <1>1, <2>1, <2>2 DEF Rest
  <2>4. \A p : PageOf(p)' = PageOf(p)
    BY <1>1, <1>4 DEF PageOf
  <2> QED
    BY <1>3, <2>3, <2>4 DEF Truth
<1>6. \A C : PartOf(s, C)' = PartOf(s, C)
  BY <1>1, <1>3, <1>4 DEF PartOf
<1> QED
  BY <1>2, <1>3, <1>5, <1>6

LEMMA SameServer ==
    ASSUME UNCHANGED serverVars, NEW s, screens'[s] = screens[s], NEW k, NEW a, NEW e, NEW step, NEW t
    PROVE  /\ QuerySound(s, k, a, e, step)' <=> QuerySound(s, k, a, e, step)
           /\ TapSound(s, t)' <=> TapSound(s, t)
<1>1. /\ Truth(s, k)' = Truth(s, k) /\ Holder(screens[s].of)' = Holder(screens[s].of)
      /\ (\A C : PartOf(s, C)' = PartOf(s, C)) /\ Visible' = Visible
  BY SameTruth
<1>2. Kept(s, k, a, e)' <=> Kept(s, k, a, e)
  BY <1>1 DEF Kept, Showing
<1>3. Asked(s, k, a, step)' <=> Asked(s, k, a, step)
  BY <1>1 DEF Asked
<1>4. Answered(s, k, a, e, step)' <=> Answered(s, k, a, e, step)
  BY <1>1 DEF Answered
<1>5. TapSound(s, t)' <=> TapSound(s, t)
  BY DEF TapSound
<1> QED
  BY <1>2, <1>3, <1>4, <1>5 DEF QuerySound

LEMMA SameAccounts ==
    ASSUME ServerTyped, AccountsStand, UNCHANGED serverVars
    PROVE  ServerTyped' /\ AccountsStand'
<1>1. /\ UNCHANGED <<account, username, face, follows, readable, published>>
      /\ face' \in [People -> Faces] /\ (\A p \in Members : face'[p].name # "null")
      /\ readable' \subseteq Essays /\ published' \subseteq Essays
  BY DEF serverVars, ServerTyped, AccountsStand
<1> QED
  BY <1>1, AccountsKept

(* A step of one page, which reads the server and leaves it as it is.        *)
LEMMA OnePage ==
    ASSUME ProfilesInv, UNCHANGED <<serverVars, screens>>, NEW s \in Screens, PagesTyped',
           \A r \in Screens \ {s} : tap'[r] = tap[r] /\ queries'[r] = queries[r] /\ entries'[r] = entries[r],
           NEW t, t = tap'[s], NEW Q, Q = queries'[s], NEW E, E = entries'[s], TapSound(s, t),
           \A k \in Kinds : QuerySound(s, k, Q[k], E[k], t.step)
    PROVE  ProfilesInv'
<1>1. ServerTyped' /\ AccountsStand'
  BY SameAccounts DEF ProfilesInv
<1>2. ASSUME NEW r \in Screens PROVE PageSound(r)'
  <2>1. PICK w, U, V : w = tap'[r] /\ U = queries'[r] /\ V = entries'[r]
    OBVIOUS
  <2>2. TapSound(r, w) /\ \A k \in Kinds : QuerySound(r, k, U[k], V[k], w.step)
    BY <1>2, <2>1 DEF ProfilesInv, PageSound
  <2>3. TapSound(r, w)'
    BY <2>2, SameServer
  <2>4. ASSUME NEW k \in Kinds PROVE QuerySound(r, k, queries[r][k], entries[r][k], tap[r].step)'
    <3>1. PICK a, e, step : a = U[k] /\ e = V[k] /\ step = w.step
      OBVIOUS
    <3>2. QuerySound(r, k, a, e, step)
      BY <2>2, <3>1
    <3>3. QuerySound(r, k, a, e, step)'
      BY <3>2, SameServer
    <3> QED
      BY <2>1, <3>1, <3>3 DEF QuerySound, Kept, Asked, Answered
  <2> QED
    BY <2>1, <2>3, <2>4 DEF PageSound, TapSound
<1> QED
  BY <1>1, <1>2 DEF ProfilesInv

(* A step of one request.                                                    *)
LEMMA OneQuery ==
    ASSUME ProfilesInv, UNCHANGED <<serverVars, screens, tap>>, NEW s \in Screens, NEW k \in Kinds,
           NEW a \in Requests, queries' = [queries EXCEPT ![s][k] = a],
           NEW e \in Entries, entries' = [entries EXCEPT ![s][k] = e] \/ (entries' = entries /\ e = entries[s][k]),
           QuerySound(s, k, a, e, tap[s].step)
    PROVE  ProfilesInv'
<1>1. PagesTyped /\ PageSound(s) /\ queries \in [Screens -> [Kinds -> Requests]] /\ entries \in [Screens -> [Kinds -> Entries]]
  BY DEF ProfilesInv, PagesTyped
<1>2. /\ queries' \in [Screens -> [Kinds -> Requests]] /\ queries'[s][k] = a
      /\ \A j \in Kinds \ {k} : queries'[s][j] = queries[s][j]
      /\ \A r \in Screens \ {s} : queries'[r] = queries[r]
  BY <1>1
<1>3. /\ entries' \in [Screens -> [Kinds -> Entries]] /\ entries'[s][k] = e
      /\ \A j \in Kinds \ {k} : entries'[s][j] = entries[s][j]
      /\ \A r \in Screens \ {s} : entries'[r] = entries[r]
  BY <1>1
<1>4. PICK t, Q, E : t = tap'[s] /\ Q = queries'[s] /\ E = entries'[s]
  OBVIOUS
<1>5. PagesTyped'
  BY <1>1, <1>2, <1>3 DEF PagesTyped
<1>6. TapSound(s, t)
  BY <1>1, <1>4 DEF PageSound
<1>7. ASSUME NEW j \in Kinds PROVE QuerySound(s, j, Q[j], E[j], t.step)
  <2>1. CASE j = k
    BY <1>2, <1>3, <1>4, <2>1
  <2>2. CASE j # k
    BY <1>1, <1>2, <1>3, <1>4, <2>2 DEF PageSound
  <2> QED
    BY <2>1, <2>2
<1>8. \A r \in Screens \ {s} : tap'[r] = tap[r] /\ queries'[r] = queries[r] /\ entries'[r] = entries[r]
  BY <1>2, <1>3
<1> QED
  BY <1>4, <1>5, <1>6, <1>7, <1>8, OnePage

(* A request that begins anew, whatever the page was told before.            *)
LEMMA AskedAnew ==
    ASSUME ServerTyped, NEW s, NEW k \in Kinds, Showing(s, k)
    PROVE  /\ AskFor(s, k) \in Requests /\ AskFor(s, k).step # "idle"
           /\ \A e : Kept(s, k, AskFor(s, k), e)
           /\ \A step : Asked(s, k, AskFor(s, k), step)
           /\ \A b, e, step : Answered(s, k, b, e, step) => Answered(s, k, AskFor(s, k), e, step)
<1>1. PICK a : a = AskFor(s, k)
  OBVIOUS
<1>2. PICK v : v = IF k \in Documents THEN Visible ELSE {}
  OBVIOUS
<1>3. a = [step |-> IF k = "paper" THEN "rest" ELSE "sent", got |-> {}, owner |-> {}, ever |-> v, old |-> FALSE]
  BY <1>1, <1>2 DEF AskFor
<1>4. v \subseteq Essays
  BY <1>2, RowsTyped
<1>5. a \in Requests
  BY <1>3, <1>4 DEF Requests
<1>6. /\ a.step = IF k = "paper" THEN "rest" ELSE "sent"
      /\ a.got = {} /\ a.ever = v
  BY <1>3
<1>7. a.step # "idle" /\ \A e : Kept(s, k, a, e)
  BY <1>2, <1>6 DEF Kept, Documents
<1>8. ASSUME NEW step PROVE Asked(s, k, a, step)
  BY <1>6 DEF Asked
<1>9. ASSUME NEW b, NEW e, NEW step, Answered(s, k, b, e, step) PROVE Answered(s, k, a, e, step)
  BY <1>6, <1>9 DEF Answered
<1> QED
  BY <1>1, <1>5, <1>7, <1>8, <1>9

LEMMA PageOpened ==
    ASSUME ProfilesInv, NEW s \in Screens, OpenPage(s)
    PROVE  ProfilesInv'
<1>0. /\ ServerTyped /\ AccountsStand /\ PagesTyped /\ \A r \in Screens : PageSound(r)
      /\ screens[s].view = "none" /\ UNCHANGED <<serverVars, entries, tap>>
      /\ readable' = readable /\ published' = published
  BY DEF ProfilesInv, OpenPage, serverVars
<1>1. PICK v \in Views, u \in Usernames \union Essays : screens' = [screens EXCEPT ![s] = [view |-> v, of |-> u]]
  BY DEF OpenPage
<1>2. queries' = [queries EXCEPT ![s] = [k \in Kinds |-> IF Showing(s, k)' THEN AskFor(s, k)' ELSE NoAsk]]
  BY DEF OpenPage
<1>3. screens' \in [Screens -> Sights] /\ \A r \in Screens \ {s} : screens'[r] = screens[r]
  BY <1>0, <1>1 DEF PagesTyped, Sights
<1>4. ASSUME NEW k \in Kinds, NEW a, a = IF Showing(s, k)' THEN AskFor(s, k)' ELSE NoAsk,
             NEW e, e.state # "data", NEW step, step = "idle"
      PROVE  a \in Requests /\ QuerySound(s, k, a, e, step)'
  <2>1. PICK w : w = IF k \in Documents THEN Visible' ELSE {}
    OBVIOUS
  <2>2. Visible' = Visible /\ w \subseteq Essays
    BY <1>0, <2>1, RowsTyped DEF Visible
  <2>3. CASE ~Showing(s, k)'
    <3>1. a = NoAsk
      BY <1>4, <2>3
    <3>2. a = [step |-> "idle", got |-> {}, owner |-> {}, ever |-> {}, old |-> FALSE]
      BY <3>1 DEF NoAsk
    <3>3. a.step = "idle" /\ a.got = {}
      BY <3>2
    <3>4. a \in Requests
      BY <3>2 DEF Requests
    <3>5. Kept(s, k, a, e)' /\ Asked(s, k, a, step)' /\ Answered(s, k, a, e, step)'
      BY <1>4, <3>3 DEF Kept, Asked, Answered
    <3> QED
      BY <3>4, <3>5 DEF QuerySound
  <2>4. CASE Showing(s, k)'
    <3>1. a = AskFor(s, k)'
      BY <1>4, <2>4
    <3>2. a = [step |-> IF k = "paper" THEN "rest" ELSE "sent", got |-> {}, owner |-> {}, ever |-> w, old |-> FALSE]
      BY <3>1, <2>1 DEF AskFor
    <3>3. a.step = (IF k = "paper" THEN "rest" ELSE "sent") /\ a.got = {} /\ a.ever = w
      BY <3>2
    <3>4. a \in Requests
      BY <2>2, <3>2 DEF Requests
    <3>5. Kept(s, k, a, e)'
      BY <2>1, <2>4, <3>3 DEF Kept
    <3>6. Asked(s, k, a, step)' /\ Answered(s, k, a, e, step)'
      BY <1>4, <3>3 DEF Asked, Answered
    <3> QED
      BY <3>4, <3>5, <3>6 DEF QuerySound
  <2> QED
    BY <2>3, <2>4
<1>5. tap[s].step = "idle" /\ \A k \in Kinds : entries[s][k].state # "data"
  BY <1>0 DEF PageSound, TapSound, QuerySound, Kept, Showing
<1>6. /\ queries' \in [Screens -> [Kinds -> Requests]] /\ (\A r \in Screens \ {s} : queries'[r] = queries[r])
      /\ \A k \in Kinds : queries'[s][k] = IF Showing(s, k)' THEN AskFor(s, k)' ELSE NoAsk
  <2>1. PICK Q : Q = [k \in Kinds |-> IF Showing(s, k)' THEN AskFor(s, k)' ELSE NoAsk]
    OBVIOUS
  <2>2. ASSUME NEW k \in Kinds PROVE Q[k] \in Requests
    <3>1. PICK a, e, step : a = Q[k] /\ e = entries[s][k] /\ step = "idle"
      OBVIOUS
    <3>2. a = (IF Showing(s, k)' THEN AskFor(s, k)' ELSE NoAsk) /\ e.state # "data"
      BY <1>5, <2>1, <3>1
    <3> QED
      BY <1>4, <3>1, <3>2
  <2>3. Q \in [Kinds -> Requests] /\ queries' = [queries EXCEPT ![s] = Q]
    BY <1>2, <2>1, <2>2
  <2> QED
    BY <1>0, <2>1, <2>3 DEF PagesTyped
<1>7. PagesTyped'
  BY <1>0, <1>3, <1>6 DEF PagesTyped
<1>8. ServerTyped' /\ AccountsStand'
  BY <1>0, SameAccounts
<1>9. ASSUME NEW r \in Screens PROVE PageSound(r)'
  <2>1. PICK t, Q, E : t = tap[r] /\ Q = queries'[r] /\ E = entries[r]
    OBVIOUS
  <2>2. CASE r = s
    <3>1. TapSound(s, t)'
      BY <1>5, <2>1, <2>2 DEF TapSound
    <3>2. ASSUME NEW k \in Kinds PROVE QuerySound(r, k, queries[r][k], entries[r][k], tap[r].step)'
      <4>1. PICK a, e, step : a = Q[k] /\ e = E[k] /\ step = t.step
        OBVIOUS
      <4>2. a = (IF Showing(s, k)' THEN AskFor(s, k)' ELSE NoAsk) /\ e.state # "data" /\ step = "idle"
        BY <1>5, <1>6, <2>1, <2>2, <4>1
      <4>3. QuerySound(s, k, a, e, step)'
        BY <1>4, <4>2
      <4> QED
        BY <1>0, <2>1, <2>2, <4>1, <4>3 DEF QuerySound, Kept, Asked, Answered
    <3> QED
      BY <1>0, <2>1, <2>2, <3>1, <3>2 DEF PageSound, TapSound
  <2>3. CASE r # s
    <3>1. screens'[r] = screens[r] /\ queries'[r] = queries[r] /\ UNCHANGED serverVars
      BY <1>0, <1>3, <1>6, <2>3
    <3>2. TapSound(r, t) /\ \A k \in Kinds : QuerySound(r, k, Q[k], E[k], t.step)
      BY <1>0, <2>1, <3>1 DEF PageSound
    <3>3. TapSound(r, t)'
      BY <3>1, <3>2, SameServer
    <3>4. ASSUME NEW k \in Kinds PROVE QuerySound(r, k, queries[r][k], entries[r][k], tap[r].step)'
      <4>1. PICK a, e, step : a = Q[k] /\ e = E[k] /\ step = t.step
        OBVIOUS
      <4>2. QuerySound(r, k, a, e, step)
        BY <3>2, <4>1
      <4>3. QuerySound(r, k, a, e, step)'
        BY <3>1, <4>2, SameServer
      <4> QED
        BY <1>0, <2>1, <4>1, <4>3 DEF QuerySound, Kept, Asked, Answered
    <3> QED
      BY <1>0, <2>1, <3>3, <3>4 DEF PageSound, TapSound
  <2> QED
    BY <2>2, <2>3
<1> QED
  BY <1>7, <1>8, <1>9 DEF ProfilesInv

LEMMA Refetched ==
    ASSUME ProfilesInv, NEW s \in Screens, NEW k \in Kinds, Refetch(s, k)
    PROVE  ProfilesInv'
<1>0. ServerTyped /\ PagesTyped /\ QuerySound(s, k, queries[s][k], entries[s][k], tap[s].step)
  BY DEF ProfilesInv, PageSound
<1>1. PICK a, b, e, f, step : a = AskFor(s, k) /\ b = queries[s][k] /\ e = entries[s][k] /\ f = NothingYet /\ step = tap[s].step
  OBVIOUS
<1>2. /\ Showing(s, k) /\ queries' = [queries EXCEPT ![s][k] = a] /\ UNCHANGED <<serverVars, screens, tap>>
      /\ entries' = entries \/ entries' = [entries EXCEPT ![s][k] = f]
  BY <1>1 DEF Refetch, SetAsk
<1>3. /\ a \in Requests /\ a.step # "idle" /\ (\A x : Kept(s, k, a, x)) /\ Asked(s, k, a, step)
      /\ \A x, y : Answered(s, k, x, y, step) => Answered(s, k, a, y, step)
  BY <1>0, <1>1, <1>2, AskedAnew
<1>4. e \in Entries /\ f \in Entries /\ f.state # "data"
  BY <1>0, <1>1 DEF PagesTyped, NothingYet, Entries
<1>5. Answered(s, k, b, e, step) /\ Answered(s, k, a, f, step)
  BY <1>0, <1>1, <1>4 DEF QuerySound, Answered
<1>6. QuerySound(s, k, a, e, tap[s].step) /\ QuerySound(s, k, a, f, tap[s].step)
  BY <1>1, <1>3, <1>5 DEF QuerySound
<1> QED
  BY <1>1, <1>2, <1>3, <1>4, <1>6, OneQuery

(* A request takes a step: the answer the page has is not touched.           *)
LEMMA RequestMoves ==
    ASSUME ProfilesInv, NEW s \in Screens, NEW k \in Kinds, NEW a, a = queries[s][k], a.step # "idle",
           NEW b \in Requests, queries' = [queries EXCEPT ![s][k] = b],
           UNCHANGED <<serverVars, screens, tap, entries>>, b.step # "idle",
           k = "profile" => b.got \subseteq Parts /\ b.step # "rest",
           b.step \in {"row", "count"} => k = "profile",
           k \in Documents => UNION b.got \subseteq b.ever /\ b.ever = a.ever,
           Asked(s, k, b, tap[s].step)
    PROVE  ProfilesInv'
<1>0. PagesTyped /\ QuerySound(s, k, a, entries[s][k], tap[s].step)
  BY DEF ProfilesInv, PageSound
<1>1. PICK e : e = entries[s][k]
  OBVIOUS
<1>2. e \in Entries
  BY <1>0, <1>1 DEF PagesTyped
<1>3. Kept(s, k, b, e)
  BY <1>0, <1>1 DEF QuerySound, Kept
<1>4. Answered(s, k, b, e, tap[s].step)
  BY <1>0, <1>1 DEF QuerySound, Answered
<1>5. QuerySound(s, k, b, e, tap[s].step)
  BY <1>3, <1>4 DEF QuerySound
<1> QED
  BY <1>1, <1>2, <1>5, OneQuery

LEMMA ProfileFound ==
    ASSUME ProfilesInv, NEW s \in Screens, NEW k \in Kinds, FindProfile(s, k)
    PROVE  ProfilesInv'
<1>0. ServerTyped /\ PagesTyped /\ Kept(s, k, queries[s][k], entries[s][k])
  BY DEF ProfilesInv, PageSound, QuerySound
<1>1. PICK a, found : a = queries[s][k] /\ found = Holder(screens[s].of)
  OBVIOUS
<1>2. PICK first : first = {[face |-> face[p], rows |-> {}] : p \in found}
  OBVIOUS
<1>3. PICK b : b = IF found = {} \/ (k = "status" /\ ReaderOf[s] \notin Members) THEN [a EXCEPT !.step = "failed"]
                   ELSE IF k # "profile" THEN [a EXCEPT !.step = "rest"]
                   ELSE [[a EXCEPT !.step = "row"] EXCEPT !.got = first]
  OBVIOUS
<1>4. /\ a.step = "sent" /\ queries' = [queries EXCEPT ![s][k] = b]
      /\ UNCHANGED <<serverVars, screens, tap, entries>>
  BY <1>1, <1>2, <1>3 DEF FindProfile, Reading, SetAsk
<1>5. a \in Requests
  BY <1>0, <1>1 DEF PagesTyped
<1>6. first \subseteq Parts
  <2>1. found \subseteq People
    BY <1>0, <1>1, RowsTyped DEF Holder
  <2>2. \A p \in found : face[p] \in Faces
    BY <1>0, <2>1 DEF ServerTyped
  <2> QED
    BY <1>2, <2>2 DEF Parts
<1>7. first = PartOf(s, {})
  BY <1>1, <1>2 DEF PartOf
<1>8. /\ b \in Requests /\ b.ever = a.ever /\ b.old = a.old
      /\ \/ b.step = "failed" /\ b.got = a.got
         \/ b.step = "rest" /\ b.got = a.got /\ k # "profile" /\ found # {}
         \/ b.step = "row" /\ b.got = first /\ k = "profile"
  <2>1. CASE b = [a EXCEPT !.step = "failed"]
    BY <1>5, <2>1 DEF Requests
  <2>2. CASE b = [a EXCEPT !.step = "rest"] /\ k # "profile" /\ found # {}
    BY <1>5, <2>2 DEF Requests
  <2>3. CASE b = [[a EXCEPT !.step = "row"] EXCEPT !.got = first] /\ k = "profile"
    <3>1. PICK c : c = [a EXCEPT !.step = "row"]
      OBVIOUS
    <3>2. c \in Requests /\ c.ever = a.ever /\ c.old = a.old /\ c.step = "row"
      BY <1>5, <3>1 DEF Requests
    <3>3. b = [c EXCEPT !.got = first]
      BY <2>3, <3>1
    <3> QED
      BY <1>6, <2>3, <3>2, <3>3 DEF Requests
  <2> QED
    BY <1>3, <2>1, <2>2, <2>3
<1>9. Asked(s, k, b, tap[s].step)
  BY <1>1, <1>7, <1>8 DEF Asked
<1>10. /\ b.step # "idle"
       /\ k = "profile" => b.got \subseteq Parts /\ b.step # "rest"
       /\ b.step \in {"row", "count"} => k = "profile"
       /\ k \in Documents => UNION b.got \subseteq b.ever /\ b.ever = a.ever
  BY <1>0, <1>1, <1>6, <1>8 DEF Kept, Documents
<1> QED
  BY <1>1, <1>4, <1>8, <1>9, <1>10, RequestMoves

LEMMA OwnerFound ==
    ASSUME ProfilesInv, NEW s \in Screens, FindOwner(s)
    PROVE  ProfilesInv'
<1>0. /\ "profile" \in Kinds /\ "profile" \notin Documents /\ ServerTyped /\ PagesTyped
      /\ QuerySound(s, "profile", queries[s]["profile"], entries[s]["profile"], tap[s].step)
  BY DEF ProfilesInv, PageSound, Kinds, Documents
<1>1. PICK a, found : a = queries[s]["profile"] /\ found = Holder(screens[s].of)
  OBVIOUS
<1>2. PICK b : b = IF found = {} THEN [a EXCEPT !.step = "failed"] ELSE [[a EXCEPT !.step = "count"] EXCEPT !.owner = found]
  OBVIOUS
<1>3. /\ a.step = "row" /\ queries' = [queries EXCEPT ![s]["profile"] = b]
      /\ UNCHANGED <<serverVars, screens, tap, entries>>
  BY <1>1, <1>2 DEF FindOwner, Reading, SetAsk
<1>4. a \in Requests /\ found \subseteq People
  <2>1. found \subseteq People
    BY <1>0, <1>1, RowsTyped DEF Holder
  <2> QED
    BY <1>0, <1>1, <2>1 DEF PagesTyped
<1>5. /\ b \in Requests /\ b.got = a.got /\ b.old = a.old
      /\ b.step = "failed" \/ (b.step = "count" /\ b.owner = found)
  <2>1. CASE b = [a EXCEPT !.step = "failed"]
    BY <1>4, <2>1 DEF Requests
  <2>2. CASE b = [[a EXCEPT !.step = "count"] EXCEPT !.owner = found]
    <3>1. PICK c : c = [a EXCEPT !.step = "count"]
      OBVIOUS
    <3>2. c \in Requests /\ c.got = a.got /\ c.old = a.old /\ c.step = "count" /\ b = [c EXCEPT !.owner = found]
      BY <1>4, <2>2, <3>1 DEF Requests
    <3> QED
      BY <1>4, <3>2 DEF Requests
  <2> QED
    BY <1>2, <2>1, <2>2
<1>6. Asked(s, "profile", b, tap[s].step)
  <2>1. ~a.old /\ tap[s].step # "done" => a.got = PartOf(s, {})
    BY <1>0, <1>1, <1>3 DEF QuerySound, Asked
  <2>2. {} \in SUBSET Counts
    OBVIOUS
  <2> QED
    BY <1>1, <1>5, <2>1, <2>2 DEF Asked
<1>7. b.step # "idle" /\ b.step # "rest" /\ b.got \subseteq Parts
  BY <1>0, <1>1, <1>5 DEF QuerySound, Kept
<1> QED
  BY <1>0, <1>1, <1>3, <1>5, <1>6, <1>7, RequestMoves

Firsts(rows) == {r[1] : r \in rows}
Pairs(D, F) == {<<d, F[d]>> : d \in D}

LEMMA FirstsOfPairs ==
    ASSUME NEW D, NEW F
    PROVE  Firsts(Pairs(D, F)) = D
<1>1. ASSUME NEW d \in D PROVE d \in {r[1] : r \in {<<e, F[e]>> : e \in D}}
  <2>1. <<d, F[d]>> \in {<<e, F[e]>> : e \in D} /\ <<d, F[d]>>[1] = d
    OBVIOUS
  <2> QED
    BY <2>1
<1>2. ASSUME NEW r \in {<<e, F[e]>> : e \in D} PROVE r[1] \in D
  BY <1>2
<1> QED
  BY <1>1, <1>2 DEF Firsts, Pairs

(* One count more of what was read.                                          *)
AllRows(c, H) == UNION {Rows(c, p) : p \in H}
WithCount(got, c, n) == {[g EXCEPT !.rows = @ \union {<<c, n>>}] : g \in got}

LEMMA PartGrows ==
    ASSUME AccountsStand, NEW s, NEW c \in Counts, NEW C \in SUBSET Counts, NEW H, H = Holder(screens[s].of), H # {},
           NEW n, n = AllRows(c, H), NEW more, more = WithCount(PartOf(s, C), c, n)
    PROVE  \E h : more = {h} /\ PartOf(s, C \union {c}) = {h} /\ Firsts(h.rows) = C \union {c}
<1>1. PICK p : H = {p}
  BY OneHolder
<1>2. PICK R, x : R = [d \in Counts |-> Rows(d, p)] /\ x = face[p]
  OBVIOUS
<1>3. n = R[c]
  BY <1>1, <1>2 DEF AllRows
<1>4. ASSUME NEW D \in SUBSET Counts PROVE PartOf(s, D) = {[face |-> x, rows |-> {<<d, R[d]>> : d \in D}]}
  <2>1. {<<d, R[d]>> : d \in D} = {<<d, Rows(d, p)>> : d \in D}
    <3>1. \A d \in D : R[d] = Rows(d, p)
      BY <1>2, <1>4
    <3> QED
      BY <3>1
  <2>2. PartOf(s, D) = {[face |-> face[p], rows |-> {<<d, Rows(d, p)>> : d \in D}]}
    BY <1>1 DEF PartOf
  <2> QED
    BY <1>2, <2>1, <2>2
<1>5. PICK g, h, G, K : /\ G = {<<d, R[d]>> : d \in C} /\ K = {<<d, R[d]>> : d \in C \union {c}}
                        /\ g = [face |-> x, rows |-> G] /\ h = [face |-> x, rows |-> K]
  OBVIOUS
<1>6. PartOf(s, C) = {g} /\ PartOf(s, C \union {c}) = {h}
  <2>1. C \union {c} \in SUBSET Counts
    OBVIOUS
  <2> QED
    BY <1>4, <1>5, <2>1
<1>7. K = G \union {<<c, n>>}
  BY <1>3, <1>5
<1>8. [g EXCEPT !.rows = @ \union {<<c, n>>}] = h
  BY ONLY <1>5, <1>7, SMTT(60)
<1>9. more = {h}
  BY <1>6, <1>8 DEF WithCount
<1>10. Firsts(h.rows) = C \union {c}
  <2>1. h.rows = Pairs(C \union {c}, R)
    BY <1>5 DEF Pairs
  <2> QED
    BY <2>1, FirstsOfPairs
<1> QED
  BY <1>6, <1>9, <1>10

LEMMA RowsCounted ==
    ASSUME ProfilesInv, NEW s \in Screens, NEW c \in Counts, CountRows(s, c)
    PROVE  ProfilesInv'
<1>0. /\ "profile" \in Kinds /\ "profile" \notin Documents /\ ServerTyped /\ AccountsStand /\ PagesTyped
      /\ QuerySound(s, "profile", queries[s]["profile"], entries[s]["profile"], tap[s].step)
  BY DEF ProfilesInv, PageSound, Kinds, Documents
<1>1. PICK a : a = queries[s]["profile"]
  OBVIOUS
<1>2. PICK n : n = AllRows(c, a.owner)
  OBVIOUS
<1>3. PICK more : more = WithCount(a.got, c, n)
  OBVIOUS
<1>4. PICK at : at = IF \A g \in more : Firsts(g.rows) = Counts THEN "done" ELSE "count"
  OBVIOUS
<1>5. PICK b : b = [[a EXCEPT !.got = more] EXCEPT !.step = at]
  OBVIOUS
<1>6. /\ a.step = "count" /\ queries' = [queries EXCEPT ![s]["profile"] = b]
      /\ UNCHANGED <<serverVars, screens, tap, entries>>
  BY <1>1, <1>2, <1>3, <1>4, <1>5 DEF CountRows, Reading, SetAsk, AllRows, WithCount, Firsts
<1>7. a \in Requests /\ a.got \subseteq Parts
  BY <1>0, <1>1 DEF PagesTyped, QuerySound, Kept
<1>8. more \subseteq Parts
  <2>1. n \in Lists
    <3>1. \A p : Rows(c, p) \in Lists
      BY <1>0, RowsTyped
    <3> QED
      BY <1>2, <3>1 DEF Lists, AllRows
  <2>2. ASSUME NEW g \in Parts PROVE [g EXCEPT !.rows = @ \union {<<c, n>>}] \in Parts
    BY <2>1, <2>2 DEF Parts
  <2> QED
    BY <1>3, <1>7, <2>2 DEF WithCount
<1>9. b \in Requests /\ b.got = more /\ b.step = at /\ b.owner = a.owner /\ b.old = a.old
  <2>1. PICK d : d = [a EXCEPT !.got = more]
    OBVIOUS
  <2>2. d \in Requests /\ d.got = more /\ d.owner = a.owner /\ d.old = a.old
    BY <1>7, <1>8, <2>1 DEF Requests
  <2>3. b = [d EXCEPT !.step = at] /\ at \in {"done", "count"}
    BY <1>4, <1>5, <2>1
  <2> QED
    BY <2>2, <2>3 DEF Requests
<1>10. Asked(s, "profile", b, tap[s].step)
  <2>1. SUFFICES ASSUME ~a.old, tap[s].step # "done"
                 PROVE  /\ at = "done" => more = Truth(s, "profile")
                        /\ at = "count" => /\ a.owner = Holder(screens[s].of)
                                           /\ \E C \in SUBSET Counts : more = PartOf(s, C)
    BY <1>4, <1>9 DEF Asked
  <2>2. a.owner = Holder(screens[s].of) /\ \E C \in SUBSET Counts : a.got = PartOf(s, C)
    BY <1>0, <1>1, <1>6, <2>1 DEF QuerySound, Asked
  <2>3. PICK C \in SUBSET Counts : a.got = PartOf(s, C)
    BY <2>2
  <2>4. Truth(s, "profile") = PartOf(s, Counts)
    BY DEF Truth, PageOf, PartOf
  <2>5. CASE a.owner = {}
    <3>1. PartOf(s, C) = {} /\ PartOf(s, Counts) = {}
      BY <2>2, <2>5 DEF PartOf
    <3>2. more = {}
      BY <1>3, <2>3, <3>1 DEF WithCount
    <3>3. at = "done"
      BY <1>4, <3>2
    <3> QED
      BY <2>4, <3>1, <3>2, <3>3
  <2>6. CASE a.owner # {}
    <3>1. PICK H : H = a.owner
      OBVIOUS
    <3>2. H = Holder(screens[s].of) /\ H # {} /\ n = AllRows(c, H)
      BY <1>2, <2>2, <2>6, <3>1
    <3>3. more = WithCount(PartOf(s, C), c, n)
      BY <1>3, <2>3
    <3>4. PICK h : more = {h} /\ PartOf(s, C \union {c}) = {h} /\ Firsts(h.rows) = C \union {c}
      BY ONLY <1>0, c \in Counts, C \in SUBSET Counts, <3>2, <3>3, PartGrows, SMTT(60)
    <3>5. at = "done" => C \union {c} = Counts
      BY <1>4, <3>4
    <3>6. more = PartOf(s, C \union {c}) /\ C \union {c} \in SUBSET Counts
      BY <3>4
    <3> QED
      BY <2>2, <2>4, <3>5, <3>6
  <2> QED
    BY <2>5, <2>6
<1>11. b.step \in {"done", "count"}
  BY <1>4, <1>9
<1> QED
  BY <1>0, <1>1, <1>6, <1>8, <1>9, <1>10, <1>11, RequestMoves

LEMMA RestRead ==
    ASSUME ProfilesInv, NEW s \in Screens, NEW k \in Kinds, ReadRest(s, k)
    PROVE  ProfilesInv'
<1>0. /\ ServerTyped /\ PagesTyped
      /\ Kept(s, k, queries[s][k], entries[s][k]) /\ Asked(s, k, queries[s][k], tap[s].step)
  BY DEF ProfilesInv, PageSound, QuerySound
<1>1. PICK a, rows : a = queries[s][k] /\ rows = Rest(s, k)
  OBVIOUS
<1>2. PICK b : b = IF k = "paper" /\ rows = {} THEN [a EXCEPT !.step = "failed"] ELSE [[a EXCEPT !.step = "done"] EXCEPT !.got = {rows}]
  OBVIOUS
<1>3. /\ a.step = "rest" /\ queries' = [queries EXCEPT ![s][k] = b]
      /\ UNCHANGED <<serverVars, screens, tap, entries>>
  BY <1>1, <1>2 DEF ReadRest, Reading, SetAsk
<1>4. a \in Requests /\ k # "profile" /\ rows \in Lists
  <2>1. k # "profile"
    BY <1>0, <1>1, <1>3 DEF Kept
  <2>2. Rest(s, k) \in Lists
    BY <1>0, <2>1, RowsTyped
  <2> QED
    BY <1>0, <1>1, <2>1, <2>2 DEF PagesTyped
<1>5. /\ b \in Requests /\ b.old = a.old /\ b.ever = a.ever
      /\ \/ b.step = "failed" /\ b.got = a.got
         \/ b.step = "done" /\ b.got = {rows} /\ ~(k = "paper" /\ rows = {})
  <2>1. CASE b = [a EXCEPT !.step = "failed"]
    BY <1>4, <2>1 DEF Requests
  <2>2. CASE b = [[a EXCEPT !.step = "done"] EXCEPT !.got = {rows}] /\ ~(k = "paper" /\ rows = {})
    <3>1. PICK c : c = [a EXCEPT !.step = "done"]
      OBVIOUS
    <3>2. c \in Requests /\ c.ever = a.ever /\ c.old = a.old /\ c.step = "done" /\ b = [c EXCEPT !.got = {rows}]
      BY <1>4, <2>2, <3>1 DEF Requests
    <3> QED
      BY <1>4, <2>2, <3>2 DEF Requests
  <2> QED
    BY <1>2, <2>1, <2>2
<1>6. Asked(s, k, b, tap[s].step)
  <2>1. SUFFICES ASSUME ~a.old, tap[s].step # "done", b.step = "done" PROVE Truth(s, k) = {rows}
    BY <1>5 DEF Asked
  <2>2. CASE k = "paper"
    <3>1. rows # {}
      BY <1>5, <2>1, <2>2
    <3> QED
      BY <1>1, <2>2, <3>1 DEF Truth
  <2>3. CASE k # "paper"
    <3>1. Holder(screens[s].of) # {}
      BY <1>0, <1>1, <1>3, <2>1, <2>3 DEF Asked
    <3>2. Truth(s, k) = {Rest(s, k) : p \in Holder(screens[s].of)}
      BY <1>4, <2>3 DEF Truth
    <3> QED
      BY <1>1, <3>1, <3>2
  <2> QED
    BY <2>2, <2>3
<1>7. k \in Documents => UNION b.got \subseteq b.ever
  <2>1. SUFFICES ASSUME k \in Documents PROVE UNION b.got \subseteq b.ever
    OBVIOUS
  <2>2. rows \subseteq Visible
    BY <1>0, <1>1, <2>1, RowsTyped DEF Documents
  <2>3. Visible \subseteq a.ever /\ UNION a.got \subseteq a.ever
    BY <1>0, <1>1, <1>3, <2>1 DEF Kept
  <2> QED
    BY <1>5, <2>2, <2>3
<1> QED
  BY <1>1, <1>3, <1>4, <1>5, <1>6, <1>7, RequestMoves

LEMMA RequestLost ==
    ASSUME ProfilesInv, NEW s \in Screens, NEW k \in Kinds, LoseAsk(s, k)
    PROVE  ProfilesInv'
<1>0. PagesTyped /\ Kept(s, k, queries[s][k], entries[s][k])
  BY DEF ProfilesInv, PageSound, QuerySound
<1>1. PICK a, b : a = queries[s][k] /\ b = [a EXCEPT !.step = "failed"]
  OBVIOUS
<1>2. a.step = "done" /\ queries' = [queries EXCEPT ![s][k] = b] /\ UNCHANGED <<serverVars, screens, tap, entries>>
  BY <1>1 DEF LoseAsk, SetAsk
<1>3. a \in Requests
  BY <1>0, <1>1 DEF PagesTyped
<1>4. b \in Requests /\ b.step = "failed" /\ b.got = a.got /\ b.ever = a.ever
  BY <1>1, <1>3 DEF Requests
<1>5. Asked(s, k, b, tap[s].step)
  BY <1>4 DEF Asked
<1>6. /\ k = "profile" => b.got \subseteq Parts
      /\ k \in Documents => UNION b.got \subseteq b.ever
  BY <1>0, <1>1, <1>4 DEF Kept
<1> QED
  BY <1>1, <1>2, <1>4, <1>5, <1>6, RequestMoves

LEMMA AnswerHeard ==
    ASSUME ProfilesInv, NEW s \in Screens, NEW k \in Kinds, HearAsk(s, k)
    PROVE  ProfilesInv'
<1>0. ServerTyped /\ PagesTyped /\ QuerySound(s, k, queries[s][k], entries[s][k], tap[s].step)
  BY DEF ProfilesInv, PageSound
<1>1. PICK a, e, none, again : a = queries[s][k] /\ e = entries[s][k] /\ none = NoAsk /\ again = AskFor(s, k)
  OBVIOUS
<1>2. a \in Requests /\ e \in Entries
  BY <1>0, <1>1 DEF PagesTyped
<1>3. none = [step |-> "idle", got |-> {}, owner |-> {}, ever |-> {}, old |-> FALSE]
  BY <1>1 DEF NoAsk
<1>4. none \in Requests /\ none.step = "idle" /\ none.got = {}
  BY <1>3 DEF Requests
<1>5. Kept(s, k, a, e) /\ Asked(s, k, a, tap[s].step) /\ Answered(s, k, a, e, tap[s].step)
  BY <1>0, <1>1 DEF QuerySound
<1>6. ASSUME a.step # "idle", NEW f PROVE Kept(s, k, none, f) /\ Asked(s, k, none, tap[s].step)
  BY <1>4, <1>5, <1>6 DEF Kept, Asked
<1>7. CASE a.step = "done" /\ SetAsk(s, k, NoAsk)
           /\ entries' = [entries EXCEPT ![s][k] = [state |-> "data", answer |-> a.got, had |-> TRUE, stale |-> a.old]]
  <2>1. PICK f : f = [state |-> "data", answer |-> a.got, had |-> TRUE, stale |-> a.old]
    OBVIOUS
  <2>2. f \in Entries /\ f.answer = a.got /\ f.stale = a.old
    BY <1>2, <2>1 DEF Entries, Requests
  <2>3. Answered(s, k, none, f, tap[s].step)
    BY <1>5, <1>7, <2>2 DEF Answered, Asked
  <2>4. QuerySound(s, k, none, f, tap[s].step)
    BY <1>6, <1>7, <2>3 DEF QuerySound
  <2>5. queries' = [queries EXCEPT ![s][k] = none] /\ UNCHANGED <<serverVars, screens, tap>> /\ entries' = [entries EXCEPT ![s][k] = f]
    BY <1>1, <1>7, <2>1 DEF SetAsk
  <2> QED
    BY <1>4, <2>2, <2>4, <2>5, OneQuery
<1>8. CASE a.step = "failed" /\ SetAsk(s, k, AskFor(s, k)) /\ UNCHANGED entries
  <2>1. Showing(s, k)
    BY <1>5, <1>8 DEF Kept
  <2>2. /\ again \in Requests /\ Kept(s, k, again, e) /\ Asked(s, k, again, tap[s].step)
        /\ Answered(s, k, again, e, tap[s].step)
    BY <1>0, <1>1, <1>5, <2>1, AskedAnew
  <2>3. QuerySound(s, k, again, e, tap[s].step)
    BY <2>2 DEF QuerySound
  <2>4. queries' = [queries EXCEPT ![s][k] = again] /\ UNCHANGED <<serverVars, screens, tap, entries>>
    BY <1>1, <1>8 DEF SetAsk
  <2> QED
    BY <1>1, <1>2, <2>2, <2>3, <2>4, OneQuery
<1>9. CASE a.step = "failed" /\ SetAsk(s, k, NoAsk) /\ entries' = [entries EXCEPT ![s][k].state = "error"]
  <2>1. PICK f : f = [e EXCEPT !.state = "error"]
    OBVIOUS
  <2>2. f \in Entries /\ f.state = "error"
    BY <1>2, <2>1 DEF Entries
  <2>3. entries' = [entries EXCEPT ![s][k] = f]
    BY <1>0, <1>1, <1>9, <2>1 DEF PagesTyped
  <2>4. QuerySound(s, k, none, f, tap[s].step)
    BY <1>6, <1>9, <2>2 DEF QuerySound, Answered
  <2>5. queries' = [queries EXCEPT ![s][k] = none] /\ UNCHANGED <<serverVars, screens, tap>>
    BY <1>1, <1>9 DEF SetAsk
  <2> QED
    BY <1>4, <2>2, <2>3, <2>4, <2>5, OneQuery
<1> QED
  BY <1>1, <1>7, <1>8, <1>9 DEF HearAsk

(* The call of the button moves, but for what the page does when it is done. *)
LEMMA TapMoves ==
    ASSUME ProfilesInv, UNCHANGED <<serverVars, screens, queries, entries>>, NEW s \in Screens,
           NEW t \in Taps, tap' = [tap EXCEPT ![s] = t], TapSound(s, t), tap[s].step # "done",
           tap[s].step = "refreshing" => \A k \in {"status", "profile"} : queries[s][k].step = "idle"
    PROVE  ProfilesInv'
<1>1. PagesTyped /\ PageSound(s)
  BY DEF ProfilesInv
<1>2. tap' \in [Screens -> Taps] /\ tap'[s] = t /\ \A r \in Screens \ {s} : tap'[r] = tap[r]
  BY <1>1 DEF PagesTyped
<1>3. PagesTyped'
  BY <1>1, <1>2 DEF PagesTyped
<1>4. PICK Q, E : Q = queries'[s] /\ E = entries'[s]
  OBVIOUS
<1>5. ASSUME NEW k \in Kinds PROVE QuerySound(s, k, Q[k], E[k], t.step)
  <2>1. PICK a, e : a = Q[k] /\ e = E[k]
    OBVIOUS
  <2>2. Kept(s, k, a, e) /\ Asked(s, k, a, tap[s].step) /\ Answered(s, k, a, e, tap[s].step)
    BY <1>1, <1>4, <2>1 DEF PageSound, QuerySound
  <2>3. Asked(s, k, a, t.step)
    BY <2>2 DEF Asked
  <2>4. Answered(s, k, a, e, t.step)
    <3>1. SUFFICES ASSUME e.state = "data", ~e.stale PROVE e.answer = Truth(s, k)
      BY DEF Answered
    <3>2. ASSUME tap[s].step = "refreshing" PROVE a.step = "idle"
      <4>1. screens[s].view = "profile" /\ Showing(s, k)
        BY <1>1, <2>2, <3>1, <3>2 DEF PageSound, TapSound, Kept
      <4>2. k \in {"status", "profile"}
        BY <4>1 DEF Showing, QueriesOf
      <4> QED
        BY <1>4, <2>1, <3>2, <4>2
    <3> QED
      BY <2>2, <3>1, <3>2 DEF Answered
  <2> QED
    BY <2>1, <2>2, <2>3, <2>4 DEF QuerySound
<1>6. \A r \in Screens \ {s} : tap'[r] = tap[r] /\ queries'[r] = queries[r] /\ entries'[r] = entries[r]
  BY <1>2
<1> QED
  BY <1>2, <1>3, <1>4, <1>5, <1>6, OnePage

LEMMA TapSteps ==
    ASSUME ProfilesInv, NEW s \in Screens, TapFollow(s) \/ LookUpTarget(s)
    PROVE  ProfilesInv'
<1>0. ServerTyped /\ AccountsStand /\ PagesTyped /\ TapSound(s, tap[s]) /\ tap[s] \in Taps
  BY DEF ProfilesInv, PageSound, PagesTyped
<1>1. CASE TapFollow(s)
  <2>1. PICK verb : verb = IF FollowsShown(s) THEN "DELETE" ELSE "PUT"
    OBVIOUS
  <2>2. PICK t : t = [step |-> "sent", verb |-> verb, target |-> {}]
    OBVIOUS
  <2>3. /\ screens[s].view = "profile" /\ tap[s].step = "idle" /\ tap' = [tap EXCEPT ![s] = t]
        /\ UNCHANGED <<serverVars, screens, queries, entries>>
    BY <1>1, <2>1, <2>2 DEF TapFollow
  <2>4. t \in Taps /\ t.step = "sent"
    BY <2>1, <2>2 DEF Taps
  <2>5. TapSound(s, t)
    BY <2>3, <2>4 DEF TapSound
  <2> QED
    BY <2>3, <2>4, <2>5, TapMoves
<1>2. CASE LookUpTarget(s)
  <2>1. PICK target : target = Holder(screens[s].of)
    OBVIOUS
  <2>2. PICK refuse : refuse = (target = {} \/ ReaderOf[s] \notin Members \/ (tap[s].verb = "PUT" /\ target = {ReaderOf[s]}))
    OBVIOUS
  <2>3. PICK t, u : /\ t = [tap[s] EXCEPT !.step = "refused"]
                    /\ u = [step |-> "found", verb |-> tap[s].verb, target |-> target]
    OBVIOUS
  <2>4. /\ tap[s].step = "sent" /\ UNCHANGED <<serverVars, screens, queries, entries>>
        /\ \/ tap' = [tap EXCEPT ![s] = t]
           \/ ~refuse /\ tap' = [tap EXCEPT ![s] = u]
    BY <1>2, <2>1, <2>2, <2>3 DEF LookUpTarget, TapTo
  <2>5. screens[s].view = "profile"
    BY <1>0, <2>4 DEF TapSound
  <2>6. t \in Taps /\ t.step = "refused"
    BY <1>0, <2>3 DEF Taps
  <2>7. TapSound(s, t)
    BY <2>5, <2>6 DEF TapSound
  <2>8. target \subseteq People
    BY <1>0, <2>1, RowsTyped DEF Holder
  <2>9. u \in Taps /\ u.step = "found" /\ u.verb = tap[s].verb /\ u.target = target
    BY <1>0, <2>3, <2>8 DEF Taps
  <2>10. ASSUME ~refuse PROVE TapSound(s, u)
    <3>1. u.verb = "PUT" => ReaderOf[s] \notin target
      BY <1>0, <2>1, <2>2, <2>9, <2>10, OneHolder
    <3> QED
      BY <2>5, <2>9, <3>1 DEF TapSound
  <2> QED
    BY <2>4, <2>6, <2>7, <2>9, <2>10, TapMoves
<1> QED
  BY <1>1, <1>2

LEMMA TapHeard ==
    ASSUME ProfilesInv, NEW s \in Screens, HearTap(s)
    PROVE  ProfilesInv'
<1>0. /\ ServerTyped /\ PagesTyped /\ PageSound(s) /\ TapSound(s, tap[s]) /\ tap[s] \in Taps
      /\ queries \in [Screens -> [Kinds -> Requests]] /\ entries[s] \in [Kinds -> Entries]
  BY DEF ProfilesInv, PageSound, PagesTyped
<1>1. CASE tap[s].step = "done" /\ TapTo(s, "refreshing")
           /\ queries' = [queries EXCEPT ![s] = [k \in Kinds |-> IF k \in QueriesOf["profile"] THEN Anew(s, k) ELSE @[k]]]
           /\ UNCHANGED <<serverVars, entries>>
  <2>1. PICK t : t = [tap[s] EXCEPT !.step = "refreshing"]
    OBVIOUS
  <2>2. PICK Q, E : Q = [k \in Kinds |-> IF k \in {"profile", "status"} THEN Anew(s, k) ELSE queries[s][k]] /\ E = entries[s]
    OBVIOUS
  <2>3. /\ tap' = [tap EXCEPT ![s] = t] /\ queries' = [queries EXCEPT ![s] = Q] /\ UNCHANGED <<serverVars, screens, entries>>
    BY <1>1, <2>1, <2>2 DEF TapTo, QueriesOf
  <2>4. t \in Taps /\ t.step = "refreshing"
    BY <1>0, <2>1 DEF Taps
  <2>5. screens[s].view = "profile"
    BY <1>0, <1>1 DEF TapSound
  <2>6. TapSound(s, t)
    BY <2>4, <2>5 DEF TapSound
  <2>7. ASSUME NEW k \in Kinds PROVE Q[k] \in Requests /\ QuerySound(s, k, Q[k], E[k], t.step)
    <3>1. PICK a, b, e, step : a = queries[s][k] /\ b = Q[k] /\ e = E[k] /\ step = t.step
      OBVIOUS
    <3>2. a \in Requests /\ Kept(s, k, a, e) /\ step = "refreshing"
      BY <1>0, <2>2, <2>4, <3>1 DEF PageSound, QuerySound
    <3>3. CASE k \notin {"profile", "status"}
      <4>1. b = a /\ ~Showing(s, k)
        BY <2>2, <2>5, <3>1, <3>3 DEF Showing, QueriesOf
      <4>2. a.step = "idle" /\ e.state # "data"
        BY <3>2, <4>1 DEF Kept
      <4>3. Asked(s, k, b, step) /\ Answered(s, k, b, e, step)
        BY <4>1, <4>2 DEF Asked, Answered
      <4> QED
        BY <3>1, <3>2, <4>1, <4>3 DEF QuerySound
    <3>4. CASE k \in {"profile", "status"}
      <4>1. Showing(s, k)
        BY <2>5, <3>4 DEF Showing, QueriesOf
      <4>2. b = AskFor(s, k) \/ (a.step # "idle" /\ b = [a EXCEPT !.old = TRUE])
        BY <2>2, <3>1, <3>4 DEF Anew
      <4>3. CASE b = AskFor(s, k)
        <5>1. b \in Requests /\ b.step # "idle" /\ Kept(s, k, b, e) /\ Asked(s, k, b, step)
          BY <1>0, <4>1, <4>3, AskedAnew
        <5>2. Answered(s, k, b, e, step)
          BY <3>2, <5>1 DEF Answered
        <5> QED
          BY <3>1, <5>1, <5>2 DEF QuerySound
      <4>4. CASE a.step # "idle" /\ b = [a EXCEPT !.old = TRUE]
        <5>1. b \in Requests /\ b.step = a.step /\ b.got = a.got /\ b.ever = a.ever /\ b.old
          BY <3>2, <4>4 DEF Requests
        <5>2. Kept(s, k, b, e) /\ Asked(s, k, b, step) /\ Answered(s, k, b, e, step)
          BY <3>2, <4>4, <5>1 DEF Kept, Asked, Answered
        <5> QED
          BY <3>1, <5>1, <5>2 DEF QuerySound
      <4> QED
        BY <4>2, <4>3, <4>4
    <3> QED
      BY <3>3, <3>4
  <2>8. Q \in [Kinds -> Requests]
    <3>1. Q = [k \in Kinds |-> Q[k]]
      BY <2>2
    <3> QED
      BY <2>7, <3>1
  <2>9. /\ tap'[s] = t /\ queries'[s] = Q /\ entries'[s] = E /\ PagesTyped'
        /\ \A r \in Screens \ {s} : tap'[r] = tap[r] /\ queries'[r] = queries[r] /\ entries'[r] = entries[r]
    BY <1>0, <2>2, <2>3, <2>4, <2>8 DEF PagesTyped
  <2>10. \A k \in Kinds : QuerySound(s, k, Q[k], E[k], t.step)
    BY <2>7
  <2> QED
    BY <2>3, <2>6, <2>9, <2>10, OnePage
<1>2. CASE /\ tap[s].step = "refused" \/ (tap[s].step = "refreshing" /\ \A k \in {"status", "profile"} : queries[s][k].step = "idle")
           /\ TapTo(s, "idle") /\ UNCHANGED <<serverVars, queries, entries>>
  <2>1. PICK t : t = NoTap
    OBVIOUS
  <2>2. tap' = [tap EXCEPT ![s] = t] /\ UNCHANGED screens
    BY <1>2, <2>1 DEF TapTo
  <2>3. t \in Taps /\ t.step = "idle"
    BY <2>1 DEF NoTap, Taps
  <2>4. TapSound(s, t)
    BY <2>3 DEF TapSound
  <2> QED
    BY <1>2, <2>2, <2>3, <2>4, TapMoves
<1> QED
  BY <1>1, <1>2 DEF HearTap

LEMMA TapLost ==
    ASSUME ProfilesInv, NEW s \in Screens, LoseTap(s)
    PROVE  ProfilesInv'
<1>0. /\ ServerTyped /\ PagesTyped /\ PageSound(s) /\ tap[s] \in Taps
      /\ queries \in [Screens -> [Kinds -> Requests]] /\ entries \in [Screens -> [Kinds -> Entries]]
  BY DEF ProfilesInv, PagesTyped
<1>1. PICK t : t = NoTap
  OBVIOUS
<1>2. PICK Q, E : /\ Q = [k \in Kinds |-> [queries[s][k] EXCEPT !.old = queries[s][k].step # "idle"]]
                  /\ E = [k \in Kinds |-> [entries[s][k] EXCEPT !.stale = TRUE]]
  OBVIOUS
<1>3. /\ tap' = [tap EXCEPT ![s] = t] /\ queries' = [queries EXCEPT ![s] = Q] /\ entries' = [entries EXCEPT ![s] = E]
      /\ UNCHANGED <<serverVars, screens>>
  BY <1>0, <1>1, <1>2 DEF LoseTap, TapTo
<1>4. t \in Taps /\ t.step = "idle"
  BY <1>1 DEF NoTap, Taps
<1>5. TapSound(s, t)
  BY <1>4 DEF TapSound
<1>6. ASSUME NEW k \in Kinds PROVE Q[k] \in Requests /\ E[k] \in Entries /\ QuerySound(s, k, Q[k], E[k], t.step)
  <2>1. PICK a, b, e, f : a = queries[s][k] /\ b = Q[k] /\ e = entries[s][k] /\ f = E[k]
    OBVIOUS
  <2>2. a \in Requests /\ e \in Entries /\ Kept(s, k, a, e)
    BY <1>0, <2>1 DEF PageSound, QuerySound
  <2>3. b = [a EXCEPT !.old = a.step # "idle"] /\ f = [e EXCEPT !.stale = TRUE]
    BY <1>2, <2>1
  <2>4. b \in Requests /\ b.step = a.step /\ b.got = a.got /\ b.ever = a.ever /\ b.old = (a.step # "idle")
    BY <2>2, <2>3 DEF Requests
  <2>5. f \in Entries /\ f.state = e.state /\ f.stale
    BY <2>2, <2>3 DEF Entries
  <2>6. Kept(s, k, b, f) /\ Asked(s, k, b, t.step) /\ Answered(s, k, b, f, t.step)
    BY <2>2, <2>4, <2>5 DEF Kept, Asked, Answered
  <2> QED
    BY <2>1, <2>4, <2>5, <2>6 DEF QuerySound
<1>7. Q \in [Kinds -> Requests] /\ E \in [Kinds -> Entries]
  <2>1. Q = [k \in Kinds |-> Q[k]] /\ E = [k \in Kinds |-> E[k]]
    BY <1>2
  <2> QED
    BY <1>6, <2>1
<1>8. /\ tap'[s] = t /\ queries'[s] = Q /\ entries'[s] = E /\ PagesTyped'
      /\ \A r \in Screens \ {s} : tap'[r] = tap[r] /\ queries'[r] = queries[r] /\ entries'[r] = entries[r]
  BY <1>0, <1>3, <1>4, <1>7 DEF PagesTyped
<1>9. \A k \in Kinds : QuerySound(s, k, Q[k], E[k], t.step)
  BY <1>6
<1> QED
  BY <1>3, <1>5, <1>8, <1>9, OnePage

-----------------------------------------------------------------------------
\* Profiles: the steps of the server

LEMMA ServerMoves ==
    ASSUME ProfilesInv, ServerTyped', AccountsStand', HoldersMove, Noted({}), UNCHANGED <<screens, tap>>
    PROVE  ProfilesInv'
<1>1. /\ screens' = screens /\ tap' \in [Screens -> Taps]
      /\ (\A s \in Screens : tap'[s] = tap[s] \/ (tap[s].step = "found" /\ tap'[s].step \in {"done", "refused"}))
      /\ \A s \in {} \cap Screens : \A k \in Kinds : Truth(s, k)' = Truth(s, k) \/ tap'[s].step = "done"
  BY DEF ProfilesInv, PagesTyped
<1> QED
  BY <1>1, PagesNoted

LEMMA WritingFollow ==
    ASSUME ProfilesInv, NEW s \in Screens, WriteFollow(s)
    PROVE  ProfilesInv'
<1>0. /\ ServerTyped /\ AccountsStand /\ PagesTyped /\ TapSound(s, tap[s]) /\ tap[s] \in Taps
  BY DEF ProfilesInv, PageSound, PagesTyped
<1>1. ServerTyped' /\ AccountsStand' /\ HoldersMove
  BY <1>0, FollowWritten
<1>2. PICK t, u : t = [tap[s] EXCEPT !.step = "done"] /\ u = [tap[s] EXCEPT !.step = "refused"]
  OBVIOUS
<1>3. /\ tap[s].step = "found" /\ UNCHANGED <<account, username, face, readable, published, screens>> /\ Noted({s})
      /\ \/ tap' = [tap EXCEPT ![s] = t]
         \/ tap' = [tap EXCEPT ![s] = u] /\ follows' = follows
  BY <1>2 DEF WriteFollow, TapTo
<1>4. t \in Taps /\ t.step = "done" /\ u \in Taps /\ u.step = "refused"
  BY <1>0, <1>2 DEF Taps
<1>5. /\ tap' \in [Screens -> Taps] /\ (\A r \in Screens \ {s} : tap'[r] = tap[r])
      /\ tap'[s].step = "done" \/ (tap'[s].step = "refused" /\ follows' = follows)
  BY <1>0, <1>3, <1>4 DEF PagesTyped
<1>6. ASSUME follows' = follows, NEW k \in Kinds PROVE Truth(s, k)' = Truth(s, k)
  <2>1. UNCHANGED serverVars /\ screens'[s] = screens[s]
    BY <1>3, <1>6 DEF serverVars
  <2> QED
    BY <2>1, SameTruth
<1>7. \A r \in Screens : tap'[r] = tap[r] \/ (tap[r].step = "found" /\ tap'[r].step \in {"done", "refused"})
  BY <1>3, <1>5
<1>8. \A r \in {s} \cap Screens : \A k \in Kinds : Truth(r, k)' = Truth(r, k) \/ tap'[r].step = "done"
  <2>1. ASSUME NEW k \in Kinds PROVE Truth(s, k)' = Truth(s, k) \/ tap'[s].step = "done"
    BY <1>5, <1>6
  <2>2. SUFFICES ASSUME NEW r \in {s} \cap Screens, NEW k \in Kinds PROVE Truth(r, k)' = Truth(r, k) \/ tap'[r].step = "done"
    OBVIOUS
  <2>3. r = s
    OBVIOUS
  <2> QED
    BY <2>1, <2>3
<1> QED
  BY <1>1, <1>3, <1>5, <1>7, <1>8, PagesNoted

LEMMA ProfilesStep ==
    ASSUME ProfilesInv, ProfilesNext
    PROVE  ProfilesInv'
<1>0. ServerTyped /\ AccountsStand
  BY DEF ProfilesInv
<1>1. CASE \E p \in People : SignUpProfile(p)
  <2>1. PICK p \in People : SignUpProfile(p)
    BY <1>1
  <2>2. Noted({}) /\ UNCHANGED <<screens, tap>>
    BY <2>1 DEF SignUpProfile
  <2> QED
    BY <1>0, <2>1, <2>2, SignedUp, ServerMoves
<1>2. CASE \E p \in People : Erase(p)
  <2>1. PICK p \in People : Erase(p)
    BY <1>2
  <2>2. Noted({}) /\ UNCHANGED <<screens, tap>>
    BY <2>1 DEF Erase
  <2> QED
    BY <1>0, <2>1, <2>2, Erased, ServerMoves
<1>3. CASE \E p \in People : SaveProfile(p)
  <2>1. PICK p \in People : SaveProfile(p)
    BY <1>3
  <2>2. Noted({}) /\ UNCHANGED <<screens, tap>>
    BY <2>1 DEF SaveProfile
  <2> QED
    BY <1>0, <2>1, <2>2, ProfileSaved, ServerMoves
<1>4. CASE \E p, q \in People : FollowElsewhere(p, q)
  <2>1. PICK p \in People, q \in People : FollowElsewhere(p, q)
    BY <1>4
  <2>2. Noted({}) /\ UNCHANGED <<screens, tap>>
    BY <2>1 DEF FollowElsewhere
  <2> QED
    BY <1>0, <2>1, <2>2, FollowedElsewhere, ServerMoves
<1>5. CASE \E d \in Essays : TurnDocument(d)
  <2>1. PICK d \in Essays : TurnDocument(d)
    BY <1>5
  <2>2. Noted({}) /\ UNCHANGED <<screens, tap>>
    BY <2>1 DEF TurnDocument
  <2> QED
    BY <1>0, <2>1, <2>2, DocumentTurned, ServerMoves
<1>6. CASE \E s \in Screens :
             \/ OpenPage(s) \/ TapFollow(s) \/ LookUpTarget(s) \/ WriteFollow(s) \/ HearTap(s) \/ LoseTap(s)
             \/ FindOwner(s)
             \/ \E c \in Counts : CountRows(s, c)
             \/ \E k \in Kinds : Refetch(s, k) \/ FindProfile(s, k) \/ ReadRest(s, k)
                                 \/ LoseAsk(s, k) \/ HearAsk(s, k)
  BY <1>6, PageOpened, TapSteps, WritingFollow, TapHeard, TapLost, OwnerFound, RowsCounted,
     Refetched, ProfileFound, RestRead, RequestLost, AnswerHeard
<1> QED
  BY <1>1, <1>2, <1>3, <1>4, <1>5, <1>6 DEF ProfilesNext

-----------------------------------------------------------------------------
\* Profiles: the beginning, and what the pages tell

LEMMA ProfilesBegin ==
    ASSUME ProfilesInit
    PROVE  ProfilesInv
<1>0. /\ screens = [s \in Screens |-> [view |-> "none"]] /\ tap = [s \in Screens |-> NoTap]
      /\ queries = [s \in Screens |-> [k \in Kinds |-> NoAsk]]
      /\ entries = [s \in Screens |-> [k \in Kinds |-> NothingYet]]
  BY DEF ProfilesInit
<1>1. Face("null") \in Faces /\ \A p \in People : Face(FirstName(p)) \in Faces /\ Face(FirstName(p)).name # "null"
  BY DEF Face, FirstName, Faces
<1>2. ServerTyped /\ AccountsStand
  <2>1. CASE /\ account = [p \in People |-> "none"] /\ username = [p \in People |-> NoUsername]
             /\ face = [p \in People |-> Face("null")] /\ follows = {} /\ readable = {} /\ published = {}
    <3>1. Members = {}
      BY <2>1 DEF Members
    <3> QED
      BY <1>1, <2>1, <3>1 DEF ServerTyped, AccountsStand
  <2>2. CASE /\ account = [p \in People |-> "live"] /\ username = Named
             /\ face = [p \in People |-> Face(FirstName(p))]
             /\ follows \in {{}, {f \in People \X People : f[1] # f[2]}}
             /\ readable \in {{}, Essays} /\ published = readable
    <3>1. Members = People
      BY <2>2 DEF Members
    <3>2. username \in [People -> Usernames] /\ IsInjective(username)
      <4>1. \E f \in [People -> Usernames] : IsInjective(f)
        BY ProfileAssumption
      <4> QED
        BY <2>2, <4>1 DEF Named
    <3>3. \A p, q \in People : username[p] = username[q] => p = q
      BY <3>2 DEF IsInjective
    <3>4. ServerTyped
      BY <1>1, <2>2, <3>2 DEF ServerTyped
    <3>5. ASSUME NEW p \in Members PROVE username[p] # NoUsername /\ Holder(username[p]) = {p} /\ face[p].name # "null"
      <4>1. username[p] # NoUsername
        BY <3>1, <3>2, ProfileAssumption
      <4>2. Holder(username[p]) = {p}
        BY <3>1, <3>3 DEF Holder
      <4>3. face[p] = Face(FirstName(p))
        BY <2>2, <3>1
      <4> QED
        BY <1>1, <3>1, <4>1, <4>2, <4>3
    <3>6. \A f \in follows : f[1] # f[2] /\ {f[1], f[2]} \subseteq Members
      BY <2>2, <3>1
    <3> QED
      BY <3>4, <3>5, <3>6 DEF AccountsStand
  <2> QED
    BY <2>1, <2>2 DEF ProfilesInit
<1>3. PICK a, e, t : a = NoAsk /\ e = NothingYet /\ t = NoTap
  OBVIOUS
<1>4. /\ a = [step |-> "idle", got |-> {}, owner |-> {}, ever |-> {}, old |-> FALSE]
      /\ e = [state |-> "pending", answer |-> {}, had |-> FALSE, stale |-> FALSE]
      /\ t = [step |-> "idle", verb |-> "PUT", target |-> {}]
  BY <1>3 DEF NoAsk, NothingYet, NoTap
<1>5. a \in Requests /\ a.step = "idle" /\ a.got = {} /\ e \in Entries /\ e.state = "pending" /\ t \in Taps /\ t.step = "idle"
  BY <1>4 DEF Requests, Entries, Taps
<1>6. PagesTyped
  <2>1. [view |-> "none"] \in Sights
    BY DEF Sights
  <2> QED
    BY <1>0, <1>3, <1>5, <2>1 DEF PagesTyped
<1>7. ASSUME NEW s \in Screens PROVE PageSound(s)
  <2>1. tap[s] = t /\ \A k \in Kinds : queries[s][k] = a /\ entries[s][k] = e
    BY <1>0, <1>3
  <2>2. TapSound(s, t)
    BY <1>5 DEF TapSound
  <2>3. ASSUME NEW k \in Kinds PROVE QuerySound(s, k, a, e, t.step)
    <3>1. Kept(s, k, a, e)
      BY <1>5 DEF Kept
    <3>2. Asked(s, k, a, t.step) /\ Answered(s, k, a, e, t.step)
      BY <1>5 DEF Asked, Answered
    <3> QED
      BY <3>1, <3>2 DEF QuerySound
  <2> QED
    BY <2>1, <2>2, <2>3 DEF PageSound
<1> QED
  BY <1>2, <1>6, <1>7 DEF ProfilesInv

LEMMA ProfilesStay ==
    ASSUME ProfilesInv, UNCHANGED profileVars
    PROVE  ProfilesInv'
<1>1. UNCHANGED <<serverVars, screens, queries, entries, tap>>
  BY DEF profileVars, pageVars
<1>2. screens' = screens /\ tap' = tap /\ queries' = queries /\ entries' = entries
  BY <1>1
<1>3. ServerTyped' /\ AccountsStand' /\ PagesTyped'
  BY <1>1, <1>2, SameAccounts DEF ProfilesInv, PagesTyped
<1>4. ASSUME NEW s \in Screens PROVE PageSound(s)'
  <2>1. TapSound(s, tap[s]) /\ \A k \in Kinds : QuerySound(s, k, queries[s][k], entries[s][k], tap[s].step)
    BY DEF ProfilesInv, PageSound
  <2>2. TapSound(s, tap[s])'
    BY <1>2, <2>1 DEF TapSound
  <2>3. ASSUME NEW k \in Kinds PROVE QuerySound(s, k, queries[s][k], entries[s][k], tap[s].step)'
    <3>1. PICK a, e, step : a = queries[s][k] /\ e = entries[s][k] /\ step = tap[s].step
      OBVIOUS
    <3>2. QuerySound(s, k, a, e, step)'
      BY <1>1, <1>2, <2>1, <3>1, SameServer
    <3> QED
      BY <1>2, <3>1, <3>2 DEF QuerySound, Kept, Asked, Answered
  <2> QED
    BY <2>2, <2>3 DEF PageSound
<1> QED
  BY <1>3, <1>4 DEF ProfilesInv

LEMMA ProfilesShow ==
    ASSUME ProfilesInv
    PROVE  ProfilesSound
<1>1. ProfilesTypeOK
  BY DEF ProfilesInv, ServerTyped, PagesTyped, Taps, ProfilesTypeOK
<1>2. ASSUME NEW s \in Screens, NEW k \in Kinds PROVE QuerySound(s, k, queries[s][k], entries[s][k], tap[s].step)
  BY DEF ProfilesInv, PageSound
<1>3. PagesTell
  BY <1>2 DEF PagesTell, QuerySound, Answered
<1>4. Documents \subseteq Kinds
  BY DEF Documents, Kinds
<1>5. NothingHidden
  BY <1>2, <1>4 DEF NothingHidden, QuerySound, Kept
<1> QED
  BY <1>1, <1>3, <1>5 DEF ProfilesSound, ProfilesInv

-----------------------------------------------------------------------------
\* The pages side by side

(* The reader shows the document of its newest link and draws a page that is *)
(* near; a highlight stays stored unless tabs overwrite each other or the    *)
(* storage is full; and the public pages at rest tell the truth, list        *)
(* nothing hidden, and let nobody follow themselves or nobody                *)
(* (use-pdf-document.ts, pdf-page.tsx, use-pdf-highlights.ts,                *)
(* use-public-profile.ts, profile.repository.ts).                            *)
THEOREM WebPagesAlwaysSound == WebPagesSpec => []WebPagesSound
<1> DEFINE Inv == PdfInv /\ MarksInv /\ ProfilesInv
<1>1. WebPagesInit => Inv
  BY PdfBegins, MarksBegin, ProfilesBegin DEF WebPagesInit
<1>2. Inv /\ [WebPagesNext]_webPagesVars => Inv'
  <2> SUFFICES ASSUME Inv, [WebPagesNext]_webPagesVars PROVE Inv'
    OBVIOUS
  <2>1. PdfNext \/ UNCHANGED pdfVars
    BY DEF WebPagesNext, webPagesVars
  <2>2. HighlightNext \/ UNCHANGED highlightVars
    BY DEF WebPagesNext, webPagesVars
  <2>3. ProfilesNext \/ UNCHANGED profileVars
    BY DEF WebPagesNext, webPagesVars
  <2>4. PdfInv'
    BY <2>1, PdfLinked, PdfLoaded, PdfMoved, PdfDrawn, PdfStays DEF PdfNext
  <2>5. MarksInv'
    BY <2>2, MarksStep, MarksStay
  <2>6. ProfilesInv'
    BY <2>3, ProfilesStep, ProfilesStay
  <2> QED
    BY <2>4, <2>5, <2>6
<1>3. Inv => WebPagesSound
  BY PdfShows, MarksShow, ProfilesShow DEF WebPagesSound
<1> QED
  BY <1>1, <1>2, <1>3, PTL DEF WebPagesSpec
=============================================================================
