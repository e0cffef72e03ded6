---------------------- MODULE ArticleSubmissionProofs ----------------------
(***************************************************************************)
(* Theorems about ParseArticle: an article is sent to be scraped once, and *)
(* unless something goes wrong every article a user has saved is.          *)
(***************************************************************************)
EXTENDS ArticlePipelineProofs

----------------------------------------------------------------------------
(* What a step does to rows, streams and requests *)

\* A row, once inserted, is there for good: nothing deletes articles.
LEMMA RowStays ==
    ASSUME TypeOK, [Next]_vars, NEW a \in Article, HasRow(a)
    PROVE  HasRow(a)'
<1>1. RowsStep /\ rows \in [Article -> Row]
    BY NextRowsStep DEF TypeOK, StoreOK
<1>2. CASE rows' = rows
    BY <1>2 DEF HasRow
<1>3. ASSUME NEW b \in Article,
             \/ /\ rows[b].status = Absent
                /\ rows' = [rows EXCEPT ![b] = [NoRow EXCEPT !.status = "processing"]]
             \/ ApplyScrapeResult(b)
             \/ ApplyPhonemizerResult(b)
             \/ \E row \in Row : UpdateArticle(b, [row EXCEPT !.status = "failed"])
      PROVE  rows'[a].status # Absent
    BY <1>1, <1>3
    DEF ApplyScrapeResult, ApplyPhonemizerResult, UpdateArticle, Row, Absent, HasRow
<1>4. QED
    BY <1>1, <1>2, <1>3 DEF RowsStep, HasRow

\* What is in a stream after an XADD is what was there before and the new entry.
LEMMA PublishedAfter ==
    ASSUME StreamsOK, NEW s \in Stream, NEW a \in Article, NEW k \in Kind, XAdd(s, a, k),
           NEW t \in Stream, NEW b, NEW kinds, Published(t, b, kinds)'
    PROVE  Published(t, b, kinds) \/ (t = s /\ b = a /\ k \in kinds)
<1>1. PICK i \in 1..Len(log'[t]) : log'[t][i].art = b /\ log'[t][i].kind \in kinds
    BY DEF Published
<1>2. CASE t # s
    BY <1>1, <1>2, XAddAppends DEF Published
<1>3. CASE t = s
    <2>1. /\ Len(log[s]) \in Nat /\ Len(log'[s]) = Len(log[s]) + 1
          /\ \A j \in 1..Len(log[s]) : log'[s][j] = log[s][j]
          /\ log'[s][Len(log[s]) + 1] = [art |-> a, kind |-> k]
        BY XAddAppends DEF StreamsOK
    <2>2. CASE i \in 1..Len(log[s])
        BY <1>1, <1>3, <2>1, <2>2 DEF Published
    <2>3. CASE i = Len(log[s]) + 1
        BY <1>1, <1>3, <2>1, <2>3
    <2>4. QED
        BY <1>1, <1>3, <2>1, <2>2, <2>3
<1>4. QED
    BY <1>2, <1>3

\* Only a submission, a worker's result or a worker's report is published, each
\* in its own stream, about an article that has a row, and nothing else happens
\* to the table meanwhile.
Publication(s, a, k) ==
    /\ XAdd(s, a, k) /\ k \in Carried(s) /\ HasRow(a) /\ rows' = rows
    /\ s = "jobs" => \E r \in Request : ReqSubmit(r) /\ a = req[r].art
LogStepOK == log' = log \/ \E s \in Stream, a \in Article, k \in Kind : Publication(s, a, k)

LEMMA NextPublication ==
    ASSUME SubmissionInv, [Next]_vars
    PROVE  LogStepOK
<1>1. /\ TypeOK /\ "jobs" \in Stream /\ {"job", "error"} \subseteq Kind
      /\ "job" \in Carried("jobs")
    BY DEF SubmissionInv, Stream, Kind, Carried
<1>2. ASSUME NEW r \in Request, ReqNext(r)
      PROVE  LogStepOK
    <2>1. req[r].art \in Article
        BY <1>1 DEF TypeOK, StoreOK
    <2>2. CASE ReqSubmit(r)
        <3>1. HasRow(req[r].art)
            BY <2>2 DEF ReqSubmit, At, SubmissionInv, InsertedFirst, Submitting, RowExists, HasRow
        <3>2. Publication("jobs", req[r].art, "job")
            BY <1>1, <2>2, <3>1 DEF ReqSubmit, Publication, store
        <3>3. QED
            BY <1>1, <2>1, <3>2 DEF LogStepOK
    <2>3. ~ReqSubmit(r) => log' = log
        BY <1>2 DEF ReqNext, ReqStart, ReqCheck, ReqFind, ReqLink, ReqCreate, ReqRelate,
                    ReqFail, streams
    <2>4. QED
        BY <2>2, <2>3 DEF LogStepOK
<1>3. ASSUME NEW w \in Worker, WorkerNext(w)
      PROVE  LogStepOK
    <2>1. /\ Out(w) \in Stream \ {"jobs"} /\ Success(w) \in Kind /\ w \in Reader
          /\ {Success(w), "error"} \subseteq Carried(Out(w)) /\ Source(w) \in Stream
          /\ rows' = rows
        BY <1>3, StreamOfWorker, WorkerFrame DEF Success, Kind, Out, Carried, Worker, Stream
    <2>2. ASSUME NEW i \in 1..cursor[w]
          PROVE  EntryAt(w, i).art \in Article /\ HasRow(EntryAt(w, i).art)
        BY <1>1, <2>1, DeliveredEntry
        DEF TypeOK, Entry, SubmissionInv, EntriesHaveRows, EntryAt
    <2>3. CASE Consume(w)
        BY <2>3 DEF Consume, LogStepOK
    <2>4. CASE SweepNext(w)
        <3>1. CASE SweepGiveUp(w)
            <4>1. PICK i \in sweep[w].todo : XAdd(Out(w), EntryAt(w, i).art, "error")
                BY <3>1 DEF SweepGiveUp
            <4>2. i \in 1..cursor[w]
                BY <1>1 DEF TypeOK, WorkersOK
            <4>3. Publication(Out(w), EntryAt(w, i).art, "error")
                BY <2>1, <2>2, <4>1, <4>2 DEF Publication
            <4>4. QED
                BY <1>1, <2>1, <2>2, <4>2, <4>3 DEF LogStepOK
        <3>2. ~SweepGiveUp(w) => log' = log
            BY <2>4 DEF SweepNext, SweepClaim, SweepCount, SweepRetry, SweepEnd, streams
        <3>3. QED
            BY <3>1, <3>2 DEF LogStepOK
    <2>5. CASE WorkerCrash(w)
        BY <2>5 DEF WorkerCrash, LogStepOK, streams
    <2>6. ASSUME NEW p \in procs[w], ProcNext(w, p)
          PROVE  LogStepOK
        <3>1. Task(w, p).art \in Article /\ HasRow(Task(w, p).art)
            BY <1>1, <2>2 DEF TypeOK, WorkersOK, Task
        <3>2. CASE Publish(w, p)
            <4>1. Publication(Out(w), Task(w, p).art, Success(w))
                BY <2>1, <3>1, <3>2 DEF Publish, Publication
            <4>2. QED
                BY <2>1, <3>1, <4>1 DEF LogStepOK
        <3>3. CASE Report(w, p)
            <4>1. Publication(Out(w), Task(w, p).art, "error")
                BY <2>1, <3>1, <3>3 DEF Report, Publication
            <4>2. QED
                BY <1>1, <2>1, <3>1, <4>1 DEF LogStepOK
        <3>4. ~Publish(w, p) /\ ~Report(w, p) => log' = log
            BY <2>6 DEF ProcNext, AckInput, ProcessFails, AckFails, Reject, Abort, SweepDrop, streams
        <3>5. QED
            BY <3>2, <3>3, <3>4 DEF LogStepOK
    <2>7. QED
        BY <1>3, <2>3, <2>4, <2>5, <2>6 DEF WorkerNext
<1>4. CASE BffNext
    BY <1>4, BackendFrame DEF LogStepOK
<1>5. CASE UNCHANGED vars
    BY <1>5 DEF vars, LogStepOK
<1>6. QED
    BY <1>2, <1>3, <1>4, <1>5 DEF Next

\* A call is made by one user about one article; its steps are its own, but for
\* the crash of the backend, which ends it.
LEMMA RequestStep ==
    ASSUME TypeOK, [Next]_vars, NEW r \in Request
    PROVE  /\ req'[r].user = req[r].user /\ req'[r].art = req[r].art
           /\ \/ req'[r] = req[r]
              \/ ReqNext(r) /\ \A q \in Request \ {r} : req'[q] = req[q]
              \/ req'[r].pc = "error" /\ trouble' = trouble + 1
<1>1. req \in [Request -> [pc : ReqPC, user : User, art : Article]]
    BY DEF TypeOK, StoreOK
<1>2. ASSUME NEW q \in Request, ReqNext(q)
      PROVE  \E pc : Goto(q, pc)
    BY <1>2 DEF ReqNext, ReqStart, ReqCheck, ReqFind, ReqLink, ReqCreate, ReqRelate, ReqSubmit,
                ReqFail
<1>3. CASE \E q \in Request : ReqNext(q)
    BY <1>1, <1>2, <1>3 DEF Goto
<1>4. CASE \E w \in Worker : WorkerNext(w)
    BY <1>4, WorkerFrame
<1>5. CASE BffCrash
    BY <1>1, <1>5 DEF BffCrash, Trouble
<1>6. CASE BffNext /\ ~BffCrash
    BY <1>6, HandlerFrame DEF BffNext, Listen, BffStart, ReclaimNext, ReclaimEnd
<1>7. CASE UNCHANGED vars
    BY <1>7 DEF vars
<1>8. QED
    BY <1>3, <1>4, <1>5, <1>6, <1>7 DEF Next

\* A call comes to stand between INSERT and XADD by inserting its article's row.
LEMMA StartsSubmitting ==
    ASSUME TypeOK, [Next]_vars, NEW r \in Request, Submitting(r)', ~Submitting(r)
    PROVE  /\ ReqCreate(r) /\ ~RowExists(r) /\ RowExists(r)' /\ log' = log
           /\ \A q \in Request \ {r} : req'[q] = req[q]
<1>1. /\ req \in [Request -> [pc : ReqPC, user : User, art : Article]]
      /\ rows \in [Article -> Row]
    BY DEF TypeOK, StoreOK
<1>2. ReqNext(r) /\ \A q \in Request \ {r} : req'[q] = req[q]
    BY RequestStep DEF Submitting
<1>3. ~(ReqStart(r) \/ ReqCheck(r) \/ ReqFind(r) \/ ReqLink(r) \/ ReqSubmit(r) \/ ReqFail(r))
    BY <1>1 DEF ReqStart, ReqCheck, ReqFind, ReqLink, ReqSubmit, ReqFail, Goto, Submitting
<1>4. ~ReqRelate(r)
    BY DEF ReqRelate, At, Submitting
<1>5. ReqCreate(r)
    BY <1>2, <1>3, <1>4 DEF ReqNext
<1>6. ~RowExists(r)
    BY <1>1, <1>5 DEF ReqCreate, Goto, Submitting
<1>7. RowExists(r)'
    <2>1. req'[r].art = req[r].art /\ req[r].art \in Article
        BY <1>1, RequestStep
    <2>2. rows' = [rows EXCEPT ![req[r].art] = [NoRow EXCEPT !.status = "processing"]]
        BY <1>5, <1>6 DEF ReqCreate
    <2>3. rows'[req[r].art].status = "processing"
        BY <1>1, <2>1, <2>2 DEF NoRow
    <2>4. QED
        BY <2>1, <2>3 DEF RowExists, Absent
<1>8. QED
    BY <1>2, <1>5, <1>6, <1>7 DEF ReqCreate, streams

----------------------------------------------------------------------------
(* The invariant *)

LEMMA EntriesHaveRowsStep ==
    ASSUME SubmissionInv, [Next]_vars
    PROVE  EntriesHaveRows'
<1>1. SUFFICES ASSUME NEW t \in Stream, NEW i \in 1..Len(log'[t])
               PROVE  log'[t][i].kind \in Carried(t) /\ rows'[log'[t][i].art].status # Absent
    BY DEF EntriesHaveRows, HasRow
<1>2. TypeOK /\ log[t] \in Seq(Entry) /\ Len(log[t]) \in Nat
    BY DEF SubmissionInv, TypeOK, StreamsOK
<1>3. ASSUME i \in 1..Len(log[t]), log'[t][i] = log[t][i]
      PROVE  log'[t][i].kind \in Carried(t) /\ rows'[log'[t][i].art].status # Absent
    <2>1. log[t][i] \in Entry
        BY <1>2, <1>3
    <2>2. PICK a \in Article : a = log[t][i].art
        BY <2>1 DEF Entry
    <2>3. HasRow(a) /\ log[t][i].kind \in Carried(t)
        BY <1>3, <2>2 DEF SubmissionInv, EntriesHaveRows
    <2>4. HasRow(a)'
        BY <1>2, <2>3, RowStays
    <2>5. QED
        BY <1>3, <2>2, <2>3, <2>4 DEF HasRow
<1>4. CASE log' = log
    BY <1>3, <1>4
<1>5. ASSUME NEW s \in Stream, NEW a \in Article, NEW k \in Kind, Publication(s, a, k)
      PROVE  log'[t][i].kind \in Carried(t) /\ rows'[log'[t][i].art].status # Absent
    <2>1. /\ XAdd(s, a, k) /\ k \in Carried(s) /\ HasRow(a)
          /\ \A u \in Stream \ {s} : log'[u] = log[u]
          /\ Len(log'[s]) = Len(log[s]) + 1
          /\ \A j \in 1..Len(log[s]) : log'[s][j] = log[s][j]
          /\ log'[s][Len(log[s]) + 1] = [art |-> a, kind |-> k]
        BY <1>2, <1>5, XAddAppends DEF Publication, TypeOK
    <2>2. HasRow(a)'
        BY <1>2, <2>1, RowStays
    <2>3. CASE t = s /\ i = Len(log[s]) + 1
        BY <2>1, <2>2, <2>3 DEF HasRow
    <2>4. CASE ~(t = s /\ i = Len(log[s]) + 1)
        BY <1>1, <1>2, <1>3, <2>1, <2>4
    <2>5. QED
        BY <2>3, <2>4
<1>6. QED
    BY <1>4, <1>5, NextPublication DEF LogStepOK

\* Nobody submits the article a call is about to submit but the call itself.
LEMMA InsertedFirstStep ==
    ASSUME SubmissionInv, [Next]_vars
    PROVE  InsertedFirst'
<1>1. SUFFICES ASSUME NEW r \in Request, Submitting(r)'
               PROVE  RowExists(r)' /\ ~Published("jobs", req[r].art, {"job"})'
    <2>1. \A r \in Request : req'[r].art = req[r].art
        BY RequestStep DEF SubmissionInv
    <2>2. QED
        BY <2>1 DEF InsertedFirst, Published
<1> PICK a \in Article : a = req[r].art
    BY DEF SubmissionInv, TypeOK, StoreOK
<1>2. /\ TypeOK /\ "jobs" \in Stream /\ req'[r].art = a
      /\ req \in [Request -> [pc : ReqPC, user : User, art : Article]]
    BY RequestStep DEF SubmissionInv, TypeOK, StoreOK, Stream
<1>3. CASE ~Submitting(r)
    <2>1. ~RowExists(r) /\ RowExists(r)' /\ log' = log
        BY <1>1, <1>2, <1>3, StartsSubmitting
    <2>2. ~Published("jobs", a, {"job"})
        BY <1>2, <2>1 DEF RowExists, HasRow, Published, SubmissionInv, EntriesHaveRows
    <2>3. QED
        BY <1>2, <2>1, <2>2 DEF Published
<1>4. CASE Submitting(r)
    <2>1. RowExists(r) /\ ~Published("jobs", a, {"job"})
        BY <1>4 DEF SubmissionInv, InsertedFirst
    <2>2. RowExists(r)'
        BY <1>2, <2>1, RowStays DEF RowExists, HasRow
    <2>3. ASSUME Published("jobs", a, {"job"})'
          PROVE  FALSE
        <3>1. log' # log
            BY <2>1, <2>3 DEF Published
        <3>2. PICK s \in Stream, b \in Article, k \in Kind : Publication(s, b, k)
            BY <3>1, NextPublication DEF LogStepOK
        <3>3. s = "jobs" /\ b = a
            BY <1>2, <2>1, <2>3, <3>2, PublishedAfter DEF Publication, TypeOK
        <3>4. PICK q \in Request : ReqSubmit(q) /\ req[q].art = a
            BY <3>2, <3>3 DEF Publication
        <3>5. Submitting(q)
            BY <3>4 DEF ReqSubmit, At, Submitting
        <3>6. q = r
            BY <1>4, <3>4, <3>5 DEF SubmissionInv, OneSubmitter
        <3>7. req'[r].pc = "ok"
            BY <1>2, <3>4, <3>6 DEF ReqSubmit, Goto
        <3>8. QED
            BY <1>1, <3>7 DEF Submitting
    <2>4. QED
        BY <1>2, <2>2, <2>3
<1>5. QED
    BY <1>3, <1>4

LEMMA OneSubmitterStep ==
    ASSUME SubmissionInv, [Next]_vars
    PROVE  OneSubmitter'
<1>1. SUFFICES ASSUME NEW q \in Request, NEW r \in Request, q # r,
                      Submitting(q)', Submitting(r)', req'[q].art = req'[r].art
               PROVE  FALSE
    BY DEF OneSubmitter
<1>2. TypeOK /\ req[q].art = req[r].art
    BY <1>1, RequestStep DEF SubmissionInv
<1>3. ASSUME NEW u \in Request, NEW v \in Request, u # v, req[u].art = req[v].art,
             ~Submitting(u), Submitting(u)', Submitting(v)'
      PROVE  FALSE
    <2>1. ~RowExists(u) /\ req'[v] = req[v]
        BY <1>2, <1>3, StartsSubmitting
    <2>2. Submitting(v)
        BY <1>3, <2>1 DEF Submitting
    <2>3. RowExists(v)
        BY <2>2 DEF SubmissionInv, InsertedFirst
    <2>4. QED
        BY <1>3, <2>1, <2>3 DEF RowExists
<1>4. CASE Submitting(q) /\ Submitting(r)
    BY <1>1, <1>2, <1>4 DEF SubmissionInv, OneSubmitter
<1>5. QED
    BY <1>1, <1>2, <1>3, <1>4

LEMMA SubmittedOnceStep ==
    ASSUME SubmissionInv, [Next]_vars
    PROVE  SubmittedOnce'
<1>1. /\ TypeOK /\ "jobs" \in Stream /\ log["jobs"] \in Seq(Entry) /\ Len(log["jobs"]) \in Nat
      /\ \A i, j \in 1..Len(log["jobs"]) : log["jobs"][i].art = log["jobs"][j].art => i = j
    BY DEF SubmissionInv, TypeOK, StreamsOK, Stream, SubmittedOnce
<1>2. CASE log'["jobs"] = log["jobs"]
    BY <1>1, <1>2 DEF SubmittedOnce
<1>3. CASE log'["jobs"] # log["jobs"]
    <2>1. PICK s \in Stream, a \in Article, k \in Kind : Publication(s, a, k)
        BY <1>3, NextPublication DEF LogStepOK
    <2>2. XAdd(s, a, k) /\ s = "jobs"
        BY <1>1, <1>3, <2>1, XAddAppends DEF Publication, TypeOK
    <2>3. PICK r \in Request : ReqSubmit(r) /\ a = req[r].art
        BY <2>1, <2>2 DEF Publication
    <2>4. ~Published("jobs", a, {"job"})
        BY <2>3 DEF ReqSubmit, At, Submitting, SubmissionInv, InsertedFirst
    <2>5. \A i \in 1..Len(log["jobs"]) : log["jobs"][i].art # a
        BY <1>1, <2>4 DEF Published, SubmissionInv, EntriesHaveRows, Carried
    <2>6. /\ Len(log'[s]) = Len(log[s]) + 1
          /\ \A i \in 1..Len(log[s]) : log'[s][i] = log[s][i]
          /\ log'[s][Len(log[s]) + 1] = [art |-> a, kind |-> k]
        BY <1>1, <2>2, XAddAppends DEF TypeOK
    <2>7. PICK n \in Nat : n = Len(log["jobs"])
        BY <1>1
    <2>8. /\ Len(log'["jobs"]) = n + 1 /\ log'["jobs"][n + 1].art = a
          /\ \A i \in 1..n : log'["jobs"][i] = log["jobs"][i] /\ log["jobs"][i].art # a
        BY <2>2, <2>5, <2>6, <2>7
    <2>9. \A i \in 1..(n + 1) : i \in 1..n \/ i = n + 1
        BY <2>7
    <2>10. QED
        BY <1>1, <2>7, <2>8, <2>9 DEF SubmittedOnce
<1>4. QED
    BY <1>2, <1>3

\* A link is made to a row that was seen or inserted before.
LEMMA LinksStep ==
    ASSUME TypeOK, [Next]_vars
    PROVE  \/ links' = links
           \/ \E r \in Request : /\ ReqLink(r) \/ ReqRelate(r)
                                 /\ links' = links \cup {<<req[r].user, req[r].art>>}
<1>1. ASSUME NEW r \in Request, ReqNext(r), ~ReqLink(r), ~ReqRelate(r)
      PROVE  links' = links
    BY <1>1 DEF ReqNext, ReqStart, ReqCheck, ReqFind, ReqCreate, ReqSubmit, ReqFail, store
<1>2. ASSUME NEW w \in Worker, WorkerNext(w)
      PROVE  links' = links
    BY <1>2, WorkerFrame
<1>3. CASE BffNext
    BY <1>3, BackendFrame
<1>4. CASE UNCHANGED vars
    BY <1>4 DEF vars
<1>5. QED
    BY <1>1, <1>2, <1>3, <1>4 DEF Next, ReqLink, ReqRelate

LEMMA LinksHaveRowsStep ==
    ASSUME SubmissionInv, [Next]_vars
    PROVE  LinksHaveRows'
<1>1. /\ TypeOK /\ links \subseteq User \X Article
      /\ req \in [Request -> [pc : ReqPC, user : User, art : Article]]
    BY DEF SubmissionInv, TypeOK, StoreOK
<1>2. ASSUME NEW l \in links'
      PROVE  HasRow(l[2])'
    <2>1. CASE l \in links
        <3>1. PICK a \in Article : a = l[2]
            BY <1>1, <2>1
        <3>2. HasRow(a)
            BY <2>1, <3>1 DEF SubmissionInv, LinksHaveRows
        <3>3. HasRow(a)'
            BY <1>1, <3>2, RowStays
        <3>4. QED
            BY <3>1, <3>3
    <2>2. CASE l \notin links
        <3>1. PICK r \in Request : /\ ReqLink(r) \/ ReqRelate(r)
                                   /\ l = <<req[r].user, req[r].art>>
            BY <1>1, <1>2, <2>2, LinksStep
        <3>2. PICK a \in Article : a = req[r].art
            BY <1>1
        <3>3. HasRow(a)
            BY <3>1, <3>2
            DEF ReqLink, ReqRelate, At, SubmissionInv, LinksHaveRows, InsertedFirst, Submitting,
                RowExists, HasRow
        <3>4. HasRow(a)'
            BY <1>1, <3>3, RowStays
        <3>5. QED
            BY <3>1, <3>2, <3>4
    <2>3. QED
        BY <2>1, <2>2
<1>3. ASSUME NEW r \in Request, req'[r].pc = "link"
      PROVE  RowExists(r)'
    <2>1. req[r].art \in Article /\ req'[r].art = req[r].art
        BY <1>1, RequestStep
    <2>2. RowExists(r)
        <3>1. CASE req'[r] = req[r]
            BY <1>3, <3>1 DEF SubmissionInv, LinksHaveRows
        <3>2. CASE ReqNext(r)
            <4>1. ~(ReqStart(r) \/ ReqCheck(r) \/ ReqLink(r) \/ ReqCreate(r) \/ ReqRelate(r)
                    \/ ReqSubmit(r) \/ ReqFail(r))
                BY <1>1, <1>3
                DEF ReqStart, ReqCheck, ReqLink, ReqCreate, ReqRelate, ReqSubmit, ReqFail, Goto
            <4>2. ReqFind(r)
                BY <3>2, <4>1 DEF ReqNext
            <4>3. QED
                BY <1>1, <1>3, <4>2 DEF ReqFind, Goto
        <3>3. QED
            BY <1>1, <1>3, <3>1, <3>2, RequestStep
    <2>3. QED
        BY <1>1, <2>1, <2>2, RowStays DEF RowExists, HasRow
<1>4. QED
    BY <1>2, <1>3 DEF LinksHaveRows

----------------------------------------------------------------------------
(* When nothing goes wrong *)

\* Trouble is never forgotten, and the calls stay what they are.
LEMMA TroubleStays ==
    ASSUME TypeOK, [Next]_vars, trouble' = 0, DistinctSubmitters'
    PROVE  trouble = 0 /\ DistinctSubmitters
<1>1. trouble \in Nat
    BY DEF TypeOK
<1>2. ASSUME NEW r \in Request, ReqNext(r)
      PROVE  trouble' = trouble \/ trouble' = trouble + 1
    BY <1>2 DEF ReqNext, ReqStart, ReqCheck, ReqFind, ReqLink, ReqCreate, ReqRelate, ReqSubmit,
                ReqFail, Trouble
<1>3. ASSUME NEW w \in Worker, WorkerNext(w)
      PROVE  trouble' = trouble \/ trouble' = trouble + 1
    BY <1>3 DEF WorkerNext, Consume, SweepNext, SweepClaim, SweepCount, SweepRetry, SweepGiveUp,
                SweepEnd, WorkerCrash, ProcNext, Publish, AckInput, ProcessFails, AckFails,
                Reject, Report, Abort, SweepDrop, Trouble
<1>4. ASSUME BffNext
      PROVE  trouble' = trouble \/ trouble' = trouble + 1
    BY <1>4 DEF BffNext, Listen, BffCrash, BffStart, ReclaimNext, ReclaimEnd, HandlerNext,
                HandleScrapeResult, HandleRefused, HandlePhonemizerResult, HandleErrorRead,
                HandleErrorWrite, HubAck, HubFail, Trouble
<1>5. UNCHANGED vars => trouble' = trouble
    BY DEF vars
<1>6. trouble = 0
    BY <1>1, <1>2, <1>3, <1>4, <1>5 DEF Next
<1>7. QED
    BY <1>6, RequestStep DEF DistinctSubmitters

LEMMA LinksLastStep ==
    ASSUME SubmissionInv, [Next]_vars, trouble' = 0, DistinctSubmitters'
    PROVE  LinksLast'
<1>1. SUFFICES ASSUME NEW r \in Request, req'[r].pc \notin {"submit", "ok", "error"}
               PROVE  ~Linked(r)'
    BY DEF LinksLast
<1>2. TypeOK /\ DistinctSubmitters /\ LinksLast
    BY TroubleStays DEF SubmissionInv
<1>3. /\ req \in [Request -> [pc : ReqPC, user : User, art : Article]]
      /\ req'[r].user = req[r].user /\ req'[r].art = req[r].art
    BY <1>2, RequestStep DEF TypeOK, StoreOK
<1>4. req[r].pc \notin {"submit", "ok", "error"}
    <2>1. CASE req'[r] = req[r]
        BY <1>1, <2>1
    <2>2. CASE ReqNext(r)
        BY <1>1, <1>3, <2>2
        DEF ReqNext, ReqStart, ReqCheck, ReqFind, ReqLink, ReqCreate, ReqRelate, ReqSubmit,
            ReqFail, At, Goto
    <2>3. QED
        BY <1>1, <1>2, <2>1, <2>2, RequestStep
<1>5. ~Linked(r)
    BY <1>2, <1>4 DEF LinksLast
<1>6. ASSUME NEW q \in Request, ReqLink(q) \/ ReqRelate(q),
             <<req[q].user, req[q].art>> = <<req[r].user, req[r].art>>
      PROVE  FALSE
    <2>1. q = r
        BY <1>2, <1>6 DEF DistinctSubmitters
    <2>2. QED
        BY <1>1, <1>3, <1>6, <2>1 DEF ReqLink, ReqRelate, Goto
<1>7. QED
    BY <1>2, <1>3, <1>5, <1>6, LinksStep DEF Linked

\* A row is inserted by a call that then stands between INSERT and XADD.
LEMMA RowAppears ==
    ASSUME SubmissionInv, [Next]_vars, NEW a \in Article, ~HasRow(a), HasRow(a)'
    PROVE  \E r \in Request : Submitting(r)' /\ req'[r].art = a
<1>1. /\ TypeOK /\ rows \in [Article -> Row]
      /\ req \in [Request -> [pc : ReqPC, user : User, art : Article]]
    BY DEF SubmissionInv, TypeOK, StoreOK
<1>2. ASSUME NEW r \in Request, ReqNext(r)
      PROVE  Submitting(r)' /\ req'[r].art = a
    <2>1. ReqCreate(r)
        BY <1>2 DEF HasRow, ReqNext, ReqStart, ReqCheck, ReqFind, ReqLink, ReqRelate, ReqSubmit,
                    ReqFail, store
    <2>2. /\ rows' = [rows EXCEPT ![req[r].art] = [NoRow EXCEPT !.status = "processing"]]
          /\ Goto(r, "relate")
        BY <2>1 DEF ReqCreate, HasRow
    <2>3. QED
        BY <1>1, <2>2 DEF Goto, Submitting, HasRow
<1>3. ASSUME NEW w \in Worker, WorkerNext(w)
      PROVE  FALSE
    BY <1>3, WorkerFrame DEF HasRow
<1>4. ASSUME NEW g \in hub, NEW i \in g.todo, HandlerNext(g, i)
      PROVE  FALSE
    <2>1. g.reader \in Reader /\ i \in 1..cursor[g.reader]
        BY <1>1 DEF TypeOK, BackendOK, Goroutine, Reader, BffReader
    <2>2. Source(g.reader) \in Stream
        BY <2>1 DEF Reader, BffReader, Worker, Source, Stream
    <2>3. HasRow(EntryAt(g.reader, i).art)
        BY <1>1, <2>1, <2>2, DeliveredEntry DEF TypeOK, SubmissionInv, EntriesHaveRows, EntryAt
    <2>4. PICK b : b = EntryAt(g.reader, i).art
        OBVIOUS
    <2>5. a # b
        BY <2>3, <2>4
    <2>6. rows'[a] = rows[a]
        BY <1>1, <1>4, <2>4, <2>5
        DEF HandlerNext, HandleScrapeResult, HandleRefused, HandlePhonemizerResult,
            HandleErrorRead, HandleErrorWrite, HubAck, HubFail, store,
            ApplyScrapeResult, ApplyPhonemizerResult, UpdateArticle
    <2>7. QED
        BY <2>6 DEF HasRow
<1>5. CASE Listen \/ BffCrash \/ BffStart \/ ReclaimNext \/ ReclaimEnd
    BY <1>5 DEF Listen, BffCrash, BffStart, ReclaimNext, ReclaimEnd, store, HasRow
<1>6. CASE UNCHANGED vars
    BY <1>6 DEF vars, HasRow
<1>7. QED
    BY <1>2, <1>3, <1>4, <1>5, <1>6 DEF Next, BffNext

LEMMA RowsSubmittedStep ==
    ASSUME SubmissionInv, [Next]_vars, trouble' = 0, DistinctSubmitters'
    PROVE  RowsSubmitted'
<1>1. SUFFICES ASSUME NEW a \in Article, HasRow(a)'
               PROVE  \/ Published("jobs", a, {"job"})'
                      \/ \E r \in Request : Submitting(r)' /\ req'[r].art = a
    BY DEF RowsSubmitted
<1>2. /\ TypeOK /\ LinksLast /\ RowsSubmitted /\ "jobs" \in Stream /\ "job" \in Kind
      /\ trouble = 0
      /\ req \in [Request -> [pc : ReqPC, user : User, art : Article]]
    BY TroubleStays DEF SubmissionInv, TypeOK, StoreOK, Stream, Kind
<1>3. CASE ~HasRow(a)
    BY <1>1, <1>3, RowAppears
<1>4. CASE Published("jobs", a, {"job"})
    BY <1>2, <1>4, PublishedStays
<1>5. ASSUME NEW r \in Request, Submitting(r), req[r].art = a, ~Submitting(r)'
      PROVE  Published("jobs", a, {"job"})'
    <2>1. ReqNext(r)
        BY <1>2, <1>5, RequestStep DEF Submitting
    <2>2. ~ReqFail(r)
        BY <1>2 DEF ReqFail, Trouble
    <2>3. ~Linked(r) \/ req[r].pc = "submit"
        BY <1>2, <1>5 DEF LinksLast, Submitting
    <2>4. ReqSubmit(r)
        BY <1>2, <1>5, <2>1, <2>2, <2>3
        DEF ReqNext, ReqStart, ReqCheck, ReqFind, ReqLink, ReqCreate, ReqRelate, At, Goto,
            Submitting
    <2>5. QED
        BY <1>2, <1>5, <2>4, XAddPublishes DEF ReqSubmit, TypeOK
<1>6. ASSUME NEW r \in Request, Submitting(r), req[r].art = a
      PROVE  \/ Published("jobs", a, {"job"})'
             \/ Submitting(r)' /\ req'[r].art = a
    BY <1>2, <1>5, <1>6, RequestStep
<1>7. QED
    BY <1>2, <1>3, <1>4, <1>6 DEF RowsSubmitted

----------------------------------------------------------------------------
(* The theorems *)

LEMMA InitSubmission == Init => SubmissionInv
<1>1. SUFFICES ASSUME Init PROVE SubmissionInv
    OBVIOUS
<1>2. /\ \A r \in Request : req[r].pc = "idle" /\ ~Submitting(r) /\ ~Linked(r)
      /\ \A s \in Stream : Len(log[s]) = 0
      /\ \A a \in Article : ~HasRow(a)
    BY <1>1 DEF Init, Submitting, Linked, HasRow, NoRow
<1>3. EntriesHaveRows /\ InsertedFirst /\ OneSubmitter /\ LinksLast /\ RowsSubmitted
    BY <1>2 DEF EntriesHaveRows, InsertedFirst, OneSubmitter, LinksLast, RowsSubmitted
<1>4. SubmittedOnce
    BY <1>2 DEF SubmittedOnce, Stream
<1>5. LinksHaveRows
    BY <1>1, <1>2 DEF Init, LinksHaveRows
<1>6. QED
    BY <1>1, <1>3, <1>4, <1>5, InitType DEF SubmissionInv

\* Between its INSERT and its XADD a call is alone with its article, everything
\* on the streams belongs to a row, and while nothing goes wrong every row is
\* submitted or about to be: what makes the two theorems that follow inductive.
THEOREM SubmissionInvAlways == Spec => []SubmissionInv
<1>1. Init => SubmissionInv
    BY InitSubmission
<1>2. SubmissionInv /\ [Next]_vars => SubmissionInv'
    <2>1. SUFFICES ASSUME SubmissionInv, [Next]_vars PROVE SubmissionInv'
        OBVIOUS
    <2>2. TypeOK'
        BY <2>1, NextType DEF SubmissionInv
    <2>3. QED
        BY <2>1, <2>2, EntriesHaveRowsStep, InsertedFirstStep, OneSubmitterStep,
           SubmittedOnceStep, LinksHaveRowsStep, LinksLastStep, RowsSubmittedStep
        DEF SubmissionInv
<1>3. QED
    BY <1>1, <1>2, PTL DEF Spec

\* However many users submit an article at once, and whatever crashes or fails
\* meanwhile, one job is sent to the scraper for it.
THEOREM SubmittedOnceAlways == Spec => []SubmittedOnce
<1>1. SubmissionInv => SubmittedOnce
    BY DEF SubmissionInv
<1>2. QED
    BY <1>1, SubmissionInvAlways, PTL

\* An article somebody has saved was submitted once ParseArticle has returned to
\* everyone, but for a failure half way or one user submitting it twice at once.
THEOREM SubmittedUnlessTroubledAlways == Spec => []SubmittedUnlessTroubled
<1>1. SubmissionInv => SubmittedUnlessTroubled
    <2>1. SUFFICES ASSUME SubmissionInv, trouble = 0, DistinctSubmitters,
                          \A r \in Request : req[r].pc \in {"idle", "ok", "error"},
                          NEW l \in links
                   PROVE  Published("jobs", l[2], {"job"})
        BY DEF SubmittedUnlessTroubled, LinkedIsSubmitted
    <2>2. l[2] \in Article /\ HasRow(l[2])
        BY <2>1 DEF SubmissionInv, LinksHaveRows, TypeOK, StoreOK
    <2>3. \A r \in Request : ~Submitting(r)
        BY <2>1 DEF Submitting
    <2>4. QED
        BY <2>1, <2>2, <2>3 DEF SubmissionInv, RowsSubmitted
<1>2. QED
    BY <1>1, SubmissionInvAlways, PTL
=============================================================================
