----------------------- MODULE ArticleContentProofs -----------------------
(***************************************************************************)
(* Theorems about what the articles table says: its status matches its     *)
(* content, what it lacks is on its way, and the pipeline implements the   *)
(* life of an article that ArticleLifecycle states.                        *)
(***************************************************************************)
EXTENDS ArticleSubmissionProofs

----------------------------------------------------------------------------
(* What was produced *)

LEMMA ReaderStream ==
    ASSUME NEW r \in Reader
    PROVE  Source(r) \in Stream
BY DEF Reader, BffReader, Worker, Source, Stream

\* A message the backend is at belongs to a row and is there to stay.
LEMMA MessageAtHand ==
    ASSUME SubmissionInv, [Next]_vars, NEW r \in BffReader, NEW i \in 1..cursor[r]
    PROVE  /\ r \in Reader /\ EntryAt(r, i) \in Entry /\ EntryAt(r, i)' = EntryAt(r, i)
           /\ EntryAt(r, i).art \in Article /\ HasRow(EntryAt(r, i).art)
           /\ EntryAt(r, i).kind \in Carried(Source(r))
           /\ EntryAt(r, i).kind \in Produced(EntryAt(r, i).art)
<1>1. r \in Reader /\ Source(r) \in {"scraped", "phonemized"} /\ Source(r) \in Stream
    BY DEF Reader, BffReader, Source, Stream
<1>2. TypeOK /\ StreamsOK
    BY DEF SubmissionInv, TypeOK
<1>3. /\ i \in 1..Len(log[Source(r)]) /\ EntryAt(r, i) \in Entry
      /\ EntryAt(r, i)' = EntryAt(r, i)
    BY <1>1, <1>2, DeliveredEntry, EntryStays
<1>4. /\ EntryAt(r, i).art \in Article /\ HasRow(EntryAt(r, i).art)
      /\ EntryAt(r, i).kind \in Carried(Source(r))
    BY <1>1, <1>3 DEF SubmissionInv, EntriesHaveRows, EntryAt, Entry
<1>5. EntryAt(r, i).kind \in {"text", "phonemes", "error"}
    BY <1>1, <1>4 DEF Carried
<1>6. EntryAt(r, i).kind \in Produced(EntryAt(r, i).art)
    BY <1>1, <1>3, <1>5 DEF Produced, Published, EntryAt
<1>7. QED
    BY <1>1, <1>3, <1>4, <1>6

LEMMA ErrorProduced ==
    ASSUME NEW a
    PROVE  "error" \in Produced(a) <=> Errored(a)
BY DEF Produced, Errored

\* Outcomes only add up.
LEMMA ProducedGrows ==
    ASSUME TypeOK, [Next]_vars, NEW a
    PROVE  Produced(a) \subseteq Produced(a)'
<1>1. "scraped" \in Stream /\ "phonemized" \in Stream
    BY DEF Stream
<1>2. ASSUME NEW o \in Produced(a)
      PROVE  o \in Produced(a)'
    <2>1. o \in {"text", "phonemes", "error"}
        BY DEF Produced
    <2>2. CASE Published("scraped", a, {o})
        <3>1. Published("scraped", a, {o})'
            BY <1>1, <2>2, PublishedStays
        <3>2. QED
            BY <2>1, <3>1 DEF Produced
    <2>3. CASE Published("phonemized", a, {o})
        <3>1. Published("phonemized", a, {o})'
            BY <1>1, <2>3, PublishedStays
        <3>2. QED
            BY <2>1, <3>1 DEF Produced
    <2>4. QED
        BY <2>2, <2>3 DEF Produced
<1>3. QED
    BY <1>2

LEMMA ErroredStays ==
    ASSUME TypeOK, [Next]_vars, NEW a, Errored(a)
    PROVE  Errored(a)'
<1>1. "error" \in Produced(a)'
    BY ProducedGrows, ErrorProduced
<1>2. QED
    BY <1>1 DEF Produced, Errored

LEMMA HoldsStays ==
    ASSUME TypeOK, [Next]_vars, NEW a, NEW row, Holds(a, row)
    PROVE  Holds(a, row)'
BY ProducedGrows DEF Holds

----------------------------------------------------------------------------
(* What happens to a row, and why *)

RowStepOK ==
    \/ rows' = rows
    \/ /\ log' = log
       /\ \E a \in Article :
            \/ ~HasRow(a) /\ rows' = [rows EXCEPT ![a] = [NoRow EXCEPT !.status = "processing"]]
            \/ HasRow(a) /\ "text" \in Produced(a) /\ ApplyScrapeResult(a)
            \/ HasRow(a) /\ "phonemes" \in Produced(a) /\ ApplyPhonemizerResult(a)
            \/ /\ HasRow(a) /\ "error" \in Produced(a)
               /\ \E row \in Row : /\ Holds(a, row)
                                   /\ UpdateArticle(a, [row EXCEPT !.status = "failed"])

LEMMA NextRow ==
    ASSUME SubmissionInv, FailsOnError, [Next]_vars
    PROVE  RowStepOK
<1>1. TypeOK
    BY DEF SubmissionInv
<1>2. ASSUME NEW r \in Request, ReqNext(r)
      PROVE  RowStepOK
    <2>1. req[r].art \in Article
        BY <1>1 DEF TypeOK, StoreOK
    <2>2. CASE ReqCreate(r)
        BY <2>1, <2>2 DEF ReqCreate, RowExists, HasRow, streams, RowStepOK
    <2>3. CASE ~ReqCreate(r)
        BY <1>2, <2>3 DEF ReqNext, ReqStart, ReqCheck, ReqFind, ReqLink, ReqRelate, ReqSubmit,
                          ReqFail, store, RowStepOK
    <2>4. QED
        BY <2>2, <2>3
<1>3. ASSUME NEW w \in Worker, WorkerNext(w)
      PROVE  RowStepOK
    BY <1>3, WorkerFrame DEF RowStepOK
<1>4. ASSUME NEW g \in hub, NEW i \in g.todo, HandlerNext(g, i)
      PROVE  RowStepOK
    <2>1. g.reader \in BffReader /\ i \in 1..cursor[g.reader] /\ g.seen \in Row
        BY <1>1 DEF TypeOK, BackendOK, Goroutine
    <2>2. PICK e : e = EntryAt(g.reader, i)
        OBVIOUS
    <2>3. /\ e.art \in Article /\ HasRow(e.art) /\ e.kind \in Produced(e.art)
          /\ log' = log
        BY <1>4, <2>1, <2>2, MessageAtHand, HandlerFrame
    <2>4. CASE HandleErrorWrite(g, i)
        <3>1. e.kind = "error" /\ Holds(e.art, g.seen)
            BY <2>2, <2>4 DEF HandleErrorWrite, Handling, FailsOnError
        <3>2. UpdateArticle(e.art, [g.seen EXCEPT !.status = "failed"])
            BY <2>2, <2>4 DEF HandleErrorWrite
        <3>3. QED
            BY <2>1, <2>3, <3>1, <3>2 DEF RowStepOK
    <2>5. CASE HandleScrapeResult(g, i)
        BY <2>2, <2>3, <2>5 DEF HandleScrapeResult, RowStepOK
    <2>6. CASE HandlePhonemizerResult(g, i)
        BY <2>2, <2>3, <2>6 DEF HandlePhonemizerResult, RowStepOK
    <2>7. CASE HandleRefused(g, i) \/ HandleErrorRead(g, i) \/ HubAck(g, i) \/ HubFail(g, i)
        BY <2>7 DEF HandleRefused, HandleErrorRead, HubAck, HubFail, store, RowStepOK
    <2>8. QED
        BY <1>4, <2>4, <2>5, <2>6, <2>7 DEF HandlerNext
<1>5. CASE Listen \/ BffCrash \/ BffStart \/ ReclaimNext \/ ReclaimEnd
    BY <1>5 DEF Listen, BffCrash, BffStart, ReclaimNext, ReclaimEnd, store, RowStepOK
<1>6. CASE UNCHANGED vars
    BY <1>6 DEF vars, RowStepOK
<1>7. QED
    BY <1>2, <1>3, <1>4, <1>5, <1>6 DEF Next, BffNext

\* The same, told for one row: it stays, or it is inserted, completed or failed.
LEMMA OneRow ==
    ASSUME SubmissionInv, FailsOnError, [Next]_vars, NEW a \in Article
    PROVE  \/ rows'[a] = rows[a]
           \/ /\ ~HasRow(a) /\ rows'[a].status = "processing"
              /\ ~rows'[a].html /\ ~rows'[a].phonemes
           \/ /\ "text" \in Produced(a)
              /\ rows'[a].status = IF rows[a].phonemes THEN "ready" ELSE "text-ready"
              /\ rows'[a].html = TRUE /\ rows'[a].phonemes = rows[a].phonemes
           \/ /\ "phonemes" \in Produced(a)
              /\ rows'[a].status = IF rows[a].html THEN "ready" ELSE "phonemes-ready"
              /\ rows'[a].html = rows[a].html /\ rows'[a].phonemes = TRUE
           \/ Errored(a) /\ Holds(a, rows'[a])
<1>1. rows \in [Article -> Row] /\ rows[a] \in Row
    BY DEF SubmissionInv, TypeOK, StoreOK
<1>2. CASE rows' = rows
    BY <1>2
<1>3. CASE rows' # rows
    <2>1. PICK b \in Article :
            \/ ~HasRow(b) /\ rows' = [rows EXCEPT ![b] = [NoRow EXCEPT !.status = "processing"]]
            \/ HasRow(b) /\ "text" \in Produced(b) /\ ApplyScrapeResult(b)
            \/ HasRow(b) /\ "phonemes" \in Produced(b) /\ ApplyPhonemizerResult(b)
            \/ /\ HasRow(b) /\ "error" \in Produced(b)
               /\ \E row \in Row : /\ Holds(b, row)
                                   /\ UpdateArticle(b, [row EXCEPT !.status = "failed"])
        BY <1>3, NextRow DEF RowStepOK
    <2>2. CASE a # b
        BY <1>1, <2>1, <2>2 DEF ApplyScrapeResult, ApplyPhonemizerResult, UpdateArticle
    <2>3. CASE a = b
        <3>1. CASE ~HasRow(a) /\ rows' = [rows EXCEPT ![a] = [NoRow EXCEPT !.status = "processing"]]
            BY <1>1, <3>1 DEF NoRow
        <3>2. CASE "text" \in Produced(a) /\ ApplyScrapeResult(a)
            BY <1>1, <3>2 DEF ApplyScrapeResult, Row
        <3>3. CASE "phonemes" \in Produced(a) /\ ApplyPhonemizerResult(a)
            BY <1>1, <3>3 DEF ApplyPhonemizerResult, Row
        <3>4. ASSUME "error" \in Produced(a), NEW row \in Row, Holds(a, row),
                     UpdateArticle(a, [row EXCEPT !.status = "failed"])
              PROVE  Errored(a) /\ Holds(a, rows'[a])
            <4>1. Errored(a)
                BY <3>4, ErrorProduced
            <4>2. rows'[a].html = row.html /\ rows'[a].phonemes = row.phonemes
                BY <1>1, <3>4 DEF UpdateArticle, Row
            <4>3. QED
                BY <3>4, <4>1, <4>2 DEF Holds
        <3>5. QED
            BY <2>1, <2>3, <3>1, <3>2, <3>3, <3>4
    <2>4. QED
        BY <2>2, <2>3
<1>4. QED
    BY <1>2, <1>3

----------------------------------------------------------------------------
(* The invariant *)

LEMMA ContentProducedStep ==
    ASSUME SubmissionInv, ContentInv, [Next]_vars
    PROVE  ContentProduced'
<1>1. SUFFICES ASSUME NEW a \in Article
               PROVE  /\ rows'[a].html => "text" \in Produced(a)'
                      /\ rows'[a].phonemes => "phonemes" \in Produced(a)'
    BY DEF ContentProduced, Holds
<1>2. TypeOK /\ FailsOnError /\ Holds(a, rows[a])
    BY DEF SubmissionInv, ContentInv, ContentProduced
<1>3. Produced(a) \subseteq Produced(a)'
    BY <1>2, ProducedGrows
<1>4. QED
    BY <1>2, <1>3, OneRow DEF Holds

\* A goroutine that is about to mark a row failed has an error at hand, and what
\* it read of the row.
LEMMA NewlyFailing ==
    ASSUME SubmissionInv, [Next]_vars, NEW h \in hub', h \notin hub, h.pc = "fail",
           NEW i \in h.todo, IsLeast(i, h.todo)
    PROVE  /\ h.reader \in BffReader /\ i \in 1..cursor[h.reader]
           /\ EntryAt(h.reader, i).kind = "error" /\ h.seen = rows[EntryAt(h.reader, i).art]
<1>1. TypeOK
    BY DEF SubmissionInv
<1>2. \E g \in hub : \E j \in g.todo : HandlerNext(g, j)
    <2>1. \A r, idle : Batch(r, idle).pc # "fail"
        BY DEF Batch
    <2>2. ~Listen
        BY <2>1 DEF Listen
    <2>3. \A r \in BffReader : ~Reclaim(r)
        BY <2>1 DEF Reclaim
    <2>4. ~BffCrash /\ ~BffStart /\ ~ReclaimNext /\ ~ReclaimEnd /\ ~UNCHANGED vars
        BY <2>3 DEF BffCrash, BffStart, ReclaimNext, ReclaimEnd, BffReader, vars
    <2>5. \A r \in Request : ~ReqNext(r)
        BY RequestFrame
    <2>6. \A w \in Worker : ~WorkerNext(w)
        BY WorkerFrame
    <2>7. QED
        BY <2>2, <2>4, <2>5, <2>6 DEF Next, BffNext
<1> PICK g \in hub : \E j \in g.todo : HandlerNext(g, j)
    BY <1>2
<1>3. PICK j \in g.todo : HandlerNext(g, j)
    OBVIOUS
<1>4. g \in Goroutine /\ g.reader \in BffReader /\ g.todo \subseteq 1..cursor[g.reader]
    BY <1>1 DEF TypeOK, BackendOK, Goroutine
<1>5. ~HandleRefused(g, j) /\ ~HubAck(g, j) /\ ~HubFail(g, j)
    BY DEF HandleRefused, HubAck, HubFail, Advance, Become, Batch
<1>6. ~HandleScrapeResult(g, j) /\ ~HandlePhonemizerResult(g, j) /\ ~HandleErrorWrite(g, j)
    <2>1. [g EXCEPT !.pc = "ack"].pc = "ack"
        BY <1>4 DEF Goroutine
    <2>2. QED
        BY <2>1 DEF HandleScrapeResult, HandlePhonemizerResult, HandleErrorWrite, Become
<1>7. /\ EntryAt(g.reader, j).kind = "error" /\ IsLeast(j, g.todo)
      /\ h = [g EXCEPT !.pc = "fail", !.seen = rows[EntryAt(g.reader, j).art]]
    BY <1>3, <1>5, <1>6 DEF HandlerNext, HandleErrorRead, Become, Handling
<1>8. h.reader = g.reader /\ h.todo = g.todo /\ h.seen = rows[EntryAt(g.reader, j).art]
    BY <1>4, <1>7 DEF Goroutine
<1>9. i = j /\ i \in 1..cursor[g.reader]
    BY <1>4, <1>7, <1>8 DEF IsLeast
<1>10. QED
    BY <1>4, <1>7, <1>8, <1>9

LEMMA FailsOnErrorStep ==
    ASSUME SubmissionInv, ContentInv, [Next]_vars
    PROVE  FailsOnError'
<1>1. SUFFICES ASSUME NEW h \in hub', NEW i \in h.todo, h.pc = "fail", IsLeast(i, h.todo)
               PROVE  /\ EntryAt(h.reader, i).kind' = "error"
                      /\ Holds(EntryAt(h.reader, i).art, h.seen)'
    BY DEF FailsOnError
<1>2. TypeOK
    BY DEF SubmissionInv
<1>3. /\ h.reader \in BffReader /\ i \in 1..cursor[h.reader]
      /\ EntryAt(h.reader, i).kind = "error" /\ Holds(EntryAt(h.reader, i).art, h.seen)
    <2>1. CASE h \in hub
        BY <1>1, <1>2, <2>1 DEF TypeOK, BackendOK, Goroutine, ContentInv, FailsOnError
    <2>2. CASE h \notin hub
        <3>1. /\ h.reader \in BffReader /\ i \in 1..cursor[h.reader]
              /\ EntryAt(h.reader, i).kind = "error" /\ h.seen = rows[EntryAt(h.reader, i).art]
            BY <1>1, <2>2, NewlyFailing
        <3>2. EntryAt(h.reader, i).art \in Article
            BY <3>1, MessageAtHand
        <3>3. QED
            BY <3>1, <3>2 DEF ContentInv, ContentProduced
    <2>3. QED
        BY <2>1, <2>2
<1>4. EntryAt(h.reader, i)' = EntryAt(h.reader, i)
    BY <1>3, MessageAtHand
<1>5. PICK a : a = EntryAt(h.reader, i).art
    OBVIOUS
<1>6. Holds(a, h.seen)'
    BY <1>2, <1>3, <1>5, HoldsStays
<1>7. QED
    BY <1>3, <1>4, <1>5, <1>6 DEF Holds, Produced, Published

LEMMA StatusMatchesContentStep ==
    ASSUME SubmissionInv, ContentInv, [Next]_vars
    PROVE  StatusMatchesContent'
<1>1. SUFFICES ASSUME NEW a \in Article, rows'[a].status # Absent, ~Errored(a)'
               PROVE  rows'[a].status = Derived(rows'[a])
    BY DEF StatusMatchesContent, Derived
<1>2. TypeOK /\ FailsOnError /\ StatusMatchesContent
    BY DEF SubmissionInv, ContentInv
<1>3. ~Errored(a) /\ rows[a] \in Row
    BY <1>1, <1>2, ErroredStays DEF TypeOK, StoreOK
<1>4. CASE rows'[a] = rows[a]
    BY <1>1, <1>2, <1>3, <1>4 DEF StatusMatchesContent
<1>5. CASE rows'[a] # rows[a]
    BY <1>2, <1>3, <1>5, OneRow DEF Derived, Row
<1>6. QED
    BY <1>4, <1>5

\* Phonemes that are in the row stay there, unless an error is reported.
LEMMA StoredStays ==
    ASSUME SubmissionInv, ContentInv, [Next]_vars, NEW i \in 1..cursor["bffPhonemized"],
           Stored(i)
    PROVE  Stored(i)'
<1>1. "bffPhonemized" \in BffReader /\ TypeOK /\ FailsOnError
    BY DEF BffReader, SubmissionInv, ContentInv
<1>2. PICK a \in Article : a = EntryAt("bffPhonemized", i).art
    BY <1>1, MessageAtHand
<1>3. EntryAt("bffPhonemized", i)' = EntryAt("bffPhonemized", i) /\ HasRow(a)
    BY <1>1, <1>2, MessageAtHand
<1>4. rows[a].phonemes \/ Errored(a)
    BY <1>2 DEF Stored
<1>5. rows'[a].phonemes \/ Errored(a)'
    <2>1. CASE Errored(a)
        BY <1>1, <2>1, ErroredStays
    <2>2. CASE ~Errored(a)
        BY <1>1, <1>3, <1>4, <2>2, OneRow
    <2>3. QED
        BY <2>1, <2>2
<1>6. QED
    BY <1>2, <1>3, <1>5 DEF Stored, Errored, Published

LEMMA StoredBeforeAckingStep ==
    ASSUME SubmissionInv, ContentInv, [Next]_vars
    PROVE  StoredBeforeAcking'
<1>1. SUFFICES ASSUME NEW h \in hub', NEW i \in h.todo, h.reader = "bffPhonemized",
                      h.pc = "ack", IsLeast(i, h.todo)
               PROVE  Stored(i)'
    BY DEF StoredBeforeAcking
<1>2. TypeOK /\ FailsOnError
    BY DEF SubmissionInv, ContentInv
<1>3. CASE h \in hub
    <2>1. i \in 1..cursor["bffPhonemized"]
        BY <1>1, <1>2, <1>3 DEF TypeOK, BackendOK
    <2>2. Stored(i)
        BY <1>1, <1>3 DEF ContentInv, StoredBeforeAcking
    <2>3. QED
        BY <2>1, <2>2, StoredStays
<1>4. CASE h \notin hub
    <2>1. PICK g \in hub :
            /\ g.reader = "bffPhonemized" /\ g.reader \in BffReader
            /\ i \in 1..cursor["bffPhonemized"] /\ Handling(g, i, g.pc)
            /\ HandleScrapeResult(g, i) \/ HandlePhonemizerResult(g, i) \/ HandleErrorWrite(g, i)
        BY <1>1, <1>2, <1>4, NewlyHandled
    <2>2. PICK e \in Entry : e = EntryAt("bffPhonemized", i)
        BY <2>1, MessageAtHand
    <2>3. /\ e.art \in Article /\ e.kind \in {"phonemes", "error"}
          /\ EntryAt("bffPhonemized", i)' = e /\ e.kind \in Produced(e.art)
        BY <2>1, <2>2, MessageAtHand DEF Carried, Source
    <2>4. CASE HandleScrapeResult(g, i)
        BY <2>1, <2>2, <2>3, <2>4 DEF HandleScrapeResult
    <2>5. CASE HandlePhonemizerResult(g, i)
        <3>1. ApplyPhonemizerResult(e.art)
            BY <2>1, <2>2, <2>5 DEF HandlePhonemizerResult
        <3>2. rows'[e.art].phonemes
            BY <1>2, <2>3, <3>1 DEF ApplyPhonemizerResult, TypeOK, StoreOK, Row
        <3>3. QED
            BY <2>3, <3>2 DEF Stored
    <2>6. CASE HandleErrorWrite(g, i)
        <3>1. e.kind = "error"
            BY <1>2, <2>1, <2>2, <2>6 DEF HandleErrorWrite, Handling, IsLeast, FailsOnError
        <3>2. Errored(e.art)'
            BY <1>2, <2>3, <3>1, ErrorProduced, ErroredStays
        <3>3. PICK a : a = e.art
            OBVIOUS
        <3>4. QED
            BY <2>3, <3>2, <3>3 DEF Stored, Errored, Published
    <2>7. QED
        BY <2>1, <2>4, <2>5, <2>6
<1>5. QED
    BY <1>3, <1>4

LEMMA StoredBeforeAckedStep ==
    ASSUME SubmissionInv, ContentInv, [Next]_vars
    PROVE  StoredBeforeAcked'
<1>1. SUFFICES ASSUME NEW i \in 1..cursor'["bffPhonemized"], IsAcked("bffPhonemized", i)'
               PROVE  Stored(i)'
    BY DEF StoredBeforeAcked
<1>2. TypeOK /\ "bffPhonemized" \in BffReader
    BY DEF SubmissionInv, BffReader
<1>3. i \in 1..cursor["bffPhonemized"] /\ Stored(i)
    BY <1>1, <1>2, ListenerAcks DEF ContentInv, StoredBeforeAcked, StoredBeforeAcking
<1>4. QED
    BY <1>3, StoredStays

LEMMA InitContent == Init => ContentInv
<1>1. SUFFICES ASSUME Init PROVE ContentInv
    OBVIOUS
<1>2. ContentProduced
    BY <1>1 DEF Init, ContentProduced, Holds, NoRow
<1>3. FailsOnError /\ StoredBeforeAcking
    BY <1>1 DEF Init, FailsOnError, StoredBeforeAcking
<1>4. StatusMatchesContent
    BY <1>1 DEF Init, StatusMatchesContent, NoRow
<1>5. StoredBeforeAcked
    BY <1>1 DEF Init, StoredBeforeAcked, Reader, BffReader
<1>6. QED
    BY <1>2, <1>3, <1>4, <1>5 DEF ContentInv

\* What the table holds was produced, errors alone make a row fail, and phonemes
\* are stored before they are acknowledged: the invariant behind what follows.
THEOREM ContentInvAlways == Spec => []ContentInv
<1>1. Init => ContentInv
    BY InitContent
<1>2. SubmissionInv /\ ContentInv /\ [Next]_vars => ContentInv'
    <2>1. SUFFICES ASSUME SubmissionInv, ContentInv, [Next]_vars PROVE ContentInv'
        OBVIOUS
    <2>2. QED
        BY <2>1, ContentProducedStep, FailsOnErrorStep, StatusMatchesContentStep,
           StoredBeforeAckingStep, StoredBeforeAckedStep DEF ContentInv
<1>3. QED
    BY <1>1, <1>2, SubmissionInvAlways, PTL DEF Spec

----------------------------------------------------------------------------
(* The theorems *)

\* However the two handlers' updates interleave, repeat or swap, the status of an
\* article nobody reported an error for says which content the row holds.
THEOREM StatusMatchesContentAlways == Spec => []StatusMatchesContent
<1>1. ContentInv => StatusMatchesContent
    BY DEF ContentInv
<1>2. QED
    BY <1>1, ContentInvAlways, PTL

\* An article that waits for its phonemes, and for which no error was reported,
\* has them on their way: its text is with the phonemizer, or its phonemes are
\* with the backend.
THEOREM TextAwaitsPhonemesAlways == Spec => []TextAwaitsPhonemes
<1>1. PipelineInv /\ SubmissionInv /\ ContentInv => TextAwaitsPhonemes
    <2>1. SUFFICES ASSUME PipelineInv, SubmissionInv, ContentInv, NEW a \in Article,
                          rows[a].status = "text-ready", ~Errored(a),
                          \A i \in 1..Len(log["scraped"]) :
                            log["scraped"][i].art = a => IsAcked("phonemizer", i),
                          \A i \in 1..Len(log["phonemized"]) :
                            log["phonemized"][i].art = a => IsAcked("bffPhonemized", i)
                   PROVE  FALSE
        BY DEF TextAwaitsPhonemes
    <2>2. rows[a].html /\ ~rows[a].phonemes
        BY <2>1 DEF ContentInv, StatusMatchesContent, Derived, Absent
    <2>3. Published("scraped", a, {"text"})
        <3>1. "text" \in Produced(a)
            BY <2>1, <2>2 DEF ContentInv, ContentProduced, Holds
        <3>2. "phonemized" \in Stream
            BY DEF Stream
        <3>3. ~Published("phonemized", a, {"text"})
            BY <2>1, <3>2 DEF Published, SubmissionInv, EntriesHaveRows, Carried
        <3>4. QED
            BY <3>1, <3>3 DEF Produced
    <2>4. Published("phonemized", a, {"phonemes"})
        <3>1. PICK i \in 1..Len(log["scraped"]) :
                log["scraped"][i].art = a /\ log["scraped"][i].kind = "text"
            BY <2>3 DEF Published
        <3>2. /\ "phonemizer" \in Worker /\ In("phonemizer") = "scraped"
              /\ Out("phonemizer") = "phonemized" /\ Success("phonemizer") = "phonemes"
            BY DEF Worker, In, Out, Success
        <3>3. Published("phonemized", a, {"phonemes", "error"})
            BY <2>1, <3>1, <3>2 DEF PipelineInv, AnsweredBeforeAcked
        <3>4. QED
            BY <2>1, <3>3 DEF Published, Errored
    <2>5. PICK i \in 1..Len(log["phonemized"]) : log["phonemized"][i].art = a
        BY <2>4 DEF Published
    <2>6. IsAcked("bffPhonemized", i)
        BY <2>1, <2>5
    <2>7. "bffPhonemized" \in Reader /\ Source("bffPhonemized") = "phonemized"
        BY DEF Reader, BffReader, Source
    <2>8. i \in 1..cursor["bffPhonemized"]
        BY <2>1, <2>6, <2>7 DEF IsAcked, Acked, SubmissionInv, TypeOK, StreamsOK
    <2>9. Stored(i)
        BY <2>1, <2>6, <2>8 DEF ContentInv, StoredBeforeAcked
    <2>10. QED
        BY <2>1, <2>2, <2>5, <2>7, <2>9 DEF Stored, EntryAt
<1>2. QED
    BY <1>1, PipelineInvAlways, SubmissionInvAlways, ContentInvAlways, PTL

----------------------------------------------------------------------------
(* The refinement *)

\* Publishing a result is the abstract Produce; publishing a job is a stutter.
LEMMA PublicationProduces ==
    ASSUME SubmissionInv, NEW s \in Stream, NEW a \in Article, NEW k \in Kind,
           Publication(s, a, k), NEW b \in Article
    PROVE  Produced(b)' = IF s # "jobs" /\ b = a THEN Produced(b) \cup {k} ELSE Produced(b)
<1>1. StreamsOK /\ XAdd(s, a, k) /\ k \in Carried(s)
    BY DEF SubmissionInv, TypeOK, Publication
<1>2. "scraped" \in Stream /\ "phonemized" \in Stream
    BY DEF Stream
<1>3. ASSUME NEW o, NEW t \in Stream
      PROVE  Published(t, b, {o})' <=> Published(t, b, {o}) \/ (t = s /\ b = a /\ o = k)
    <2>1. Published(t, b, {o})' => Published(t, b, {o}) \/ (t = s /\ b = a /\ o = k)
        BY <1>1, PublishedAfter
    <2>2. t = s /\ b = a /\ o = k => Published(t, b, {o})'
        BY <1>1, XAddPublishes
    <2>3. Published(t, b, {o}) => Published(t, b, {o})'
        <3>1. Len(log[t]) \in Nat
            BY <1>1 DEF StreamsOK
        <3>2. /\ \A u \in Stream \ {s} : log'[u] = log[u]
              /\ Len(log'[s]) = Len(log[s]) + 1
              /\ \A i \in 1..Len(log[s]) : log'[s][i] = log[s][i]
            BY <1>1, XAddAppends
        <3>3. QED
            <4>1. CASE t = s
                BY <3>1, <3>2, <4>1 DEF Published
            <4>2. CASE t # s
                BY <3>2, <4>2 DEF Published
            <4>3. QED
                BY <4>1, <4>2
    <2>4. QED
        BY <2>1, <2>2, <2>3
<1>4. \A o : o \in Produced(b)' <=>
        /\ o \in {"text", "phonemes", "error"}
        /\ \/ o \in Produced(b)
           \/ s \in {"scraped", "phonemized"} /\ b = a /\ o = k
    BY <1>2, <1>3 DEF Produced
<1>5. CASE s = "jobs"
    BY <1>4, <1>5 DEF Produced
<1>6. CASE s # "jobs"
    <2>1. s \in {"scraped", "phonemized"} /\ k \in {"text", "phonemes", "error"}
        BY <1>1, <1>6 DEF Stream, Carried
    <2>2. QED
        BY <1>4, <1>6, <2>1 DEF Produced
<1>7. QED
    BY <1>5, <1>6

\* A row is its columns, and a table that differs in one row is written by Put.
LEMMA PutsRow ==
    ASSUME rows \in [Article -> Row], rows' \in [Article -> Row], NEW a \in Article,
           NEW st, NEW html, NEW phonemes,
           \A b \in Article \ {a} : rows'[b] = rows[b],
           rows'[a].status = st, rows'[a].html = html, rows'[a].phonemes = phonemes
    PROVE  Lifecycle!Put(a, st, html, phonemes)
<1>1. rows'[a] = [status |-> rows'[a].status, html |-> rows'[a].html,
                  phonemes |-> rows'[a].phonemes]
    <2>1. rows'[a] \in Row
        OBVIOUS
    <2>2. QED
        BY <2>1 DEF Row
<1>2. rows'[a] = [status |-> st, html |-> html, phonemes |-> phonemes]
    BY <1>1
<1>3. QED
    BY <1>2 DEF Lifecycle!Put

LEMMA ImplementsInit == Init => Lifecycle!Init
<1>1. SUFFICES ASSUME Init PROVE Lifecycle!Init
    OBVIOUS
<1>2. \A a \in Article : Produced(a) = {}
    BY <1>1 DEF Init, Produced, Published, Stream
<1>3. rows = [a \in Article |-> Lifecycle!NoRow]
    BY <1>1 DEF Init, NoRow, Absent, Lifecycle!NoRow, Lifecycle!Absent
<1>4. QED
    BY <1>2, <1>3 DEF Lifecycle!Init

LEMMA ImplementsNext ==
    ASSUME SubmissionInv, ContentInv, [Next]_vars
    PROVE  [Lifecycle!Next]_(Lifecycle!vars)
<1> DEFINE produced == [a \in Article |-> Produced(a)]
<1>1. TypeOK /\ rows \in [Article -> Row] /\ FailsOnError
    BY DEF SubmissionInv, TypeOK, StoreOK, ContentInv
<1>2. log' = log => produced' = produced
    BY DEF Produced, Published
<1>3. CASE log' # log
    <2>1. PICK s \in Stream, a \in Article, k \in Kind : Publication(s, a, k)
        BY <1>3, NextPublication DEF LogStepOK
    <2>2. rows' = rows /\ HasRow(a) /\ k \in Carried(s)
        BY <2>1 DEF Publication
    <2>3. CASE s = "jobs"
        <3>1. produced' = produced
            BY <2>1, <2>3, PublicationProduces
        <3>2. QED
            BY <2>2, <3>1 DEF Lifecycle!vars
    <2>4. CASE s # "jobs"
        <3>1. k \in Lifecycle!Outcome
            BY <2>2, <2>4 DEF Carried, Stream, Lifecycle!Outcome
        <3>2. produced' = [produced EXCEPT ![a] = produced[a] \cup {k}]
            BY <2>1, <2>4, PublicationProduces
        <3>3. Lifecycle!Produce(a, k)
            BY <2>2, <3>2 DEF Lifecycle!Produce, Lifecycle!Exists, Lifecycle!Absent, HasRow, Absent
        <3>4. QED
            BY <3>1, <3>3 DEF Lifecycle!Next
    <2>5. QED
        BY <2>3, <2>4
<1>4. CASE log' = log /\ rows' = rows
    BY <1>2, <1>4 DEF Lifecycle!vars
<1>5. CASE log' = log /\ rows' # rows
    <2>1. PICK a \in Article :
            \/ ~HasRow(a) /\ rows' = [rows EXCEPT ![a] = [NoRow EXCEPT !.status = "processing"]]
            \/ HasRow(a) /\ "text" \in Produced(a) /\ ApplyScrapeResult(a)
            \/ HasRow(a) /\ "phonemes" \in Produced(a) /\ ApplyPhonemizerResult(a)
            \/ /\ HasRow(a) /\ "error" \in Produced(a)
               /\ \E row \in Row : /\ Holds(a, row)
                                   /\ UpdateArticle(a, [row EXCEPT !.status = "failed"])
        BY <1>1, <1>5, NextRow DEF RowStepOK
    <2>2. /\ produced' = produced /\ produced[a] = Produced(a) /\ rows[a] \in Row
          /\ HasRow(a) <=> Lifecycle!Exists(a)
        BY <1>1, <1>2, <1>5 DEF HasRow, Absent, Lifecycle!Exists, Lifecycle!Absent
    <2>3. rows' \in [Article -> Row]
        BY <1>1, NextType DEF TypeOK, StoreOK
    <2> HIDE DEF produced
    <2>4. CASE ~HasRow(a) /\ rows' = [rows EXCEPT ![a] = [NoRow EXCEPT !.status = "processing"]]
        <3>1. /\ \A b \in Article \ {a} : rows'[b] = rows[b]
              /\ rows'[a].status = "processing"
              /\ rows'[a].html = FALSE /\ rows'[a].phonemes = FALSE
            BY <1>1, <2>4 DEF NoRow
        <3>2. Lifecycle!Create(a)
            BY <1>1, <2>2, <2>3, <2>4, <3>1, PutsRow DEF Lifecycle!Create, produced
        <3>3. QED
            BY <3>2 DEF Lifecycle!Next
    <2>5. CASE HasRow(a) /\ "text" \in Produced(a) /\ ApplyScrapeResult(a)
        <3>1. /\ \A b \in Article \ {a} : rows'[b] = rows[b]
              /\ rows'[a].status = IF rows[a].phonemes THEN "ready" ELSE "text-ready"
              /\ rows'[a].html = TRUE /\ rows'[a].phonemes = rows[a].phonemes
            BY <1>1, <2>2, <2>5 DEF ApplyScrapeResult, Row
        <3>2. Lifecycle!TextArrives(a)
            BY <1>1, <2>2, <2>3, <2>5, <3>1, PutsRow DEF Lifecycle!TextArrives, produced
        <3>3. QED
            BY <3>2 DEF Lifecycle!Next
    <2>6. CASE HasRow(a) /\ "phonemes" \in Produced(a) /\ ApplyPhonemizerResult(a)
        <3>1. /\ \A b \in Article \ {a} : rows'[b] = rows[b]
              /\ rows'[a].status = IF rows[a].html THEN "ready" ELSE "phonemes-ready"
              /\ rows'[a].html = rows[a].html /\ rows'[a].phonemes = TRUE
            BY <1>1, <2>2, <2>6 DEF ApplyPhonemizerResult, Row
        <3>2. Lifecycle!PhonemesArrive(a)
            BY <1>1, <2>2, <2>3, <2>6, <3>1, PutsRow DEF Lifecycle!PhonemesArrive, produced
        <3>3. QED
            BY <3>2 DEF Lifecycle!Next
    <2>7. ASSUME HasRow(a), "error" \in Produced(a), NEW row \in Row, Holds(a, row),
                 UpdateArticle(a, [row EXCEPT !.status = "failed"])
          PROVE  Lifecycle!Next
        <3>1. /\ \A b \in Article \ {a} : rows'[b] = rows[b]
              /\ rows'[a].status = "failed"
              /\ rows'[a].html = row.html /\ rows'[a].phonemes = row.phonemes
              /\ row.html \in BOOLEAN /\ row.phonemes \in BOOLEAN
            BY <1>1, <2>7 DEF UpdateArticle, Row
        <3>2. Lifecycle!Put(a, "failed", row.html, row.phonemes)
            BY <1>1, <2>3, <3>1, PutsRow
        <3>3. Lifecycle!Fails(a)
            BY <2>2, <2>7, <3>1, <3>2 DEF Lifecycle!Fails, produced, Holds
        <3>4. QED
            BY <3>3 DEF Lifecycle!Next
    <2>8. QED
        BY <2>1, <2>4, <2>5, <2>6, <2>7
<1>6. QED
    BY <1>3, <1>4, <1>5

\* The pipeline, with its streams, groups, retries and crashes, implements the
\* life of an article: every step of it is one of ArticleLifecycle, or changes
\* neither the table nor what was produced.
THEOREM ImplementsLifecycleAlways == Spec => ImplementsLifecycle
<1>1. Init => Lifecycle!Init
    BY ImplementsInit
<1>2. SubmissionInv /\ ContentInv /\ [Next]_vars => [Lifecycle!Next]_(Lifecycle!vars)
    BY ImplementsNext
<1>3. QED
    BY <1>1, <1>2, SubmissionInvAlways, ContentInvAlways, PTL
    DEF Spec, ImplementsLifecycle, Lifecycle!Spec
=============================================================================
