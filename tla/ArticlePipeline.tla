-------------------------- MODULE ArticlePipeline --------------------------
(***************************************************************************)
(* The life of a submitted article: the backend's ParseArticle, the        *)
(* scraper and the phonemizer working on Redis Streams, and the backend's  *)
(* listener that folds their results into the articles table.              *)
(*                                                                         *)
(*   ParseArticle --scrape:jobs--> scraper --scrape:results--> phonemizer  *)
(*                                             |                   |       *)
(*                                             v            phonemize:     *)
(*                                         backend <--------- results      *)
(*                                                                         *)
(* One action is one round trip to Postgres or to Redis, so requests,      *)
(* worker threads, retry sweeps and listener goroutines interleave between *)
(* any two of them.  An article is its URL (articles.url is UNIQUE and no  *)
(* row is ever deleted).  Time is abstracted: an entry may turn idle for   *)
(* MIN_IDLE_TIME whenever it is pending.                                   *)
(***************************************************************************)
EXTENDS RedisStreams

CONSTANTS
    Article,        \* URLs users submit
    User,
    Request,        \* ParseArticle calls; each is made at most once
    Unstorable,     \* articles whose scrape result Postgres refuses to store
    MaxRetries,     \* Config.max_retries of both workers
    BatchSize,      \* COUNT of every XREADGROUP
    ScraperThreads, \* Config.max_workers of the scraper
    MayFail,        \* what may go wrong: see Trouble
    MaxTrouble      \* bound: how many times something goes wrong

Worker == {"scraper", "phonemizer"}
Stream == {"jobs", "scraped", "phonemized"}
\* A consumer group on a stream; the backend's one group reads two streams.
Reader == Worker \cup {"bffScraped", "bffPhonemized"}
BffReader == {"bffScraped", "bffPhonemized"}

ASSUME PipelineAssumption ==
    /\ Unstorable \subseteq Article
    /\ MaxRetries \in Nat /\ BatchSize \in Nat \ {0} /\ ScraperThreads \in Nat \ {0}
    /\ MayFail \subseteq Worker \cup {"bff", "call", "overrun"}
    /\ MaxTrouble \in Nat

VARIABLES
    rows,    \* the articles table: status and which content columns are set
    links,   \* the user_articles table
    req,     \* ParseArticle calls in progress
    log,     \* the three streams
    cursor,  \* per group, the last entry delivered
    pel,     \* per group, its pending entries and their delivery counts
    procs,   \* per worker, the process_event calls in progress or queued
    sweep,   \* per worker, what its retry thread has claimed
    hub,     \* the listener's publishToListeners goroutines
    bff,     \* where the listener is: "listen", or reclaiming, or "down"
    trouble  \* how many times something went wrong

vars == <<rows, links, req, log, cursor, pel, procs, sweep, hub, bff, trouble>>
store == <<rows, links>>
streams == <<log, cursor, pel>>
workers == <<procs, sweep>>
backend == <<hub, bff>>

----------------------------------------------------------------------------
(* Data *)

Absent == "absent"
Status == {"processing", "text-ready", "phonemes-ready", "ready", "failed"}
Row == [status : Status \cup {Absent}, html : BOOLEAN, phonemes : BOOLEAN]
NoRow == [status |-> Absent, html |-> FALSE, phonemes |-> FALSE]

Kind == {"job", "text", "phonemes", "error"}
Entry == [art : Article, kind : Kind]

In(w) == IF w = "scraper" THEN "jobs" ELSE "scraped"
Out(w) == IF w = "scraper" THEN "scraped" ELSE "phonemized"
Success(w) == IF w = "scraper" THEN "text" ELSE "phonemes"
Threads(w) == IF w = "scraper" THEN ScraperThreads ELSE 1

Source(r) ==
    CASE r = "scraper"       -> "jobs"
      [] r = "phonemizer"    -> "scraped"
      [] r = "bffScraped"    -> "scraped"
      [] r = "bffPhonemized" -> "phonemized"

EntryAt(r, i) == log[Source(r)][i]
Published(s, a, kinds) ==
    \E i \in 1..Len(log[s]) : log[s][i].art = a /\ log[s][i].kind \in kinds
IsAcked(r, i) == Acked(cursor[r], pel[r], i)

Thread == {"main", "retry"}
\* A process_event call: not answered yet, answered and to be acknowledged,
\* acknowledged and to be answered with an error, or given up.
Proc == [by : Thread, i : Nat, pc : {"run", "ack", "report", "drop"}]
Sweep == [counted : BOOLEAN, todo : SUBSET Nat, over : SUBSET Nat]
NoSweep == [counted |-> FALSE, todo |-> {}, over |-> {}]

\* A goroutine in publishToListeners: its batch and the message at hand.
Goroutine == [reader : BffReader, todo : SUBSET Nat,
              pc : {"handle", "fail", "ack"}, seen : Row]

ReqPC == {"idle", "check", "find", "link", "create", "relate", "submit", "ok", "error"}

IsLeast(i, S) == i \in S /\ \A j \in S : i <= j

StoreOK ==
    /\ rows \in [Article -> Row]
    /\ links \subseteq User \X Article
    /\ req \in [Request -> [pc : ReqPC, user : User, art : Article]]

\* What is pending was delivered, and what was delivered was published.
StreamsOK ==
    /\ log \in [Stream -> Seq(Entry)]
    /\ cursor \in [Reader -> Nat]
    /\ DOMAIN pel = Reader
    /\ \A r \in Reader : /\ cursor[r] <= Len(log[Source(r)])
                         /\ DOMAIN pel[r] \subseteq 1..cursor[r]
                         /\ pel[r] \in [DOMAIN pel[r] -> Nat]

\* Workers and listener only work on entries that were delivered to them.
WorkersOK ==
    /\ procs \in [Worker -> SUBSET Proc]
    /\ sweep \in [Worker -> Sweep]
    /\ \A w \in Worker : /\ \A p \in procs[w] : p.i \in 1..cursor[w]
                         /\ sweep[w].todo \subseteq 1..cursor[w]

BackendOK ==
    /\ hub \subseteq Goroutine
    /\ \A g \in hub : g.todo \subseteq 1..cursor[g.reader]
    /\ bff \in {"down", "reclaimScraped", "reclaimPhonemized", "listen"}

TypeOK == StoreOK /\ StreamsOK /\ WorkersOK /\ BackendOK /\ trouble \in Nat

Init ==
    /\ rows = [a \in Article |-> NoRow]
    /\ links = {}
    /\ req \in [Request -> [pc : {"idle"}, user : User, art : Article]]
    /\ log = [s \in Stream |-> <<>>]
    /\ cursor = [r \in Reader |-> 0]
    /\ pel = [r \in Reader |-> <<>>]
    /\ procs = [w \in Worker |-> {}]
    /\ sweep = [w \in Worker |-> NoSweep]
    /\ hub = {}
    /\ bff = "listen"
    /\ trouble = 0

\* Something goes wrong: a process dies, a "call" to Postgres or to Redis
\* fails, or an "overrun": an entry turns idle while it is being processed.
Trouble(what) ==
    what \in MayFail /\ trouble < MaxTrouble /\ trouble' = trouble + 1

XAdd(s, a, k) == log' = [log EXCEPT ![s] = Append(@, [art |-> a, kind |-> k])]
Ack(r, i) == pel' = [pel EXCEPT ![r] = XAck(@, i)]

----------------------------------------------------------------------------
(* Service.ParseArticle: one action per query. *)

At(r, pc) == bff # "down" /\ req[r].pc = pc
Goto(r, pc) == req' = [req EXCEPT ![r].pc = pc]
Linked(r) == <<req[r].user, req[r].art>> \in links
RowExists(r) == rows[req[r].art].status # Absent

ReqStart(r) ==
    /\ At(r, "idle")
    /\ Goto(r, "check")
    /\ UNCHANGED <<store, streams, workers, backend, trouble>>

\* GetArticleForUserWithURL: the user already has it, nothing to do.
ReqCheck(r) ==
    /\ At(r, "check")
    /\ Goto(r, IF Linked(r) THEN "ok" ELSE "find")
    /\ UNCHANGED <<store, streams, workers, backend, trouble>>

\* GetArticleWithURL: somebody has submitted it before, reuse the row.
ReqFind(r) ==
    /\ At(r, "find")
    /\ Goto(r, IF RowExists(r) THEN "link" ELSE "create")
    /\ UNCHANGED <<store, streams, workers, backend, trouble>>

\* AddArticleForUser: the primary key (user_id, article_id) may be taken.
ReqLink(r) ==
    /\ At(r, "link")
    /\ Goto(r, IF Linked(r) THEN "error" ELSE "ok")
    /\ links' = links \cup {<<req[r].user, req[r].art>>}
    /\ UNCHANGED <<rows, streams, workers, backend, trouble>>

\* Mutant: without UNIQUE, a second look that came too early inserts again.
ReqCreate_NotUnique(r) ==
    /\ At(r, "create")
    /\ Goto(r, "relate")
    /\ rows' = [rows EXCEPT ![req[r].art] = [NoRow EXCEPT !.status = "processing"]]
    /\ UNCHANGED <<links, streams, workers, backend, trouble>>

\* CreateInitialArticle's second look and INSERT: url is UNIQUE.
ReqCreate(r) ==
    /\ At(r, "create")
    /\ IF RowExists(r)
       THEN Goto(r, "error") /\ UNCHANGED rows
       ELSE /\ Goto(r, "relate")
            /\ rows' = [rows EXCEPT ![req[r].art] = [NoRow EXCEPT !.status = "processing"]]
    /\ UNCHANGED <<links, streams, workers, backend, trouble>>

\* Mutant: the call returns after the INSERT and the job is never sent.
ReqRelate_NotSubmitted(r) ==
    /\ At(r, "relate")
    /\ Goto(r, IF Linked(r) THEN "error" ELSE "ok")
    /\ links' = links \cup {<<req[r].user, req[r].art>>}
    /\ UNCHANGED <<rows, streams, workers, backend, trouble>>

\* CreateInitialArticle's INSERT INTO user_articles, a statement of its own.
ReqRelate(r) ==
    /\ At(r, "relate")
    /\ Goto(r, IF Linked(r) THEN "error" ELSE "submit")
    /\ links' = links \cup {<<req[r].user, req[r].art>>}
    /\ UNCHANGED <<rows, streams, workers, backend, trouble>>

\* SubmitArticle: XADD scrape:jobs.
ReqSubmit(r) ==
    /\ At(r, "submit")
    /\ Goto(r, "ok")
    /\ XAdd("jobs", req[r].art, "job")
    /\ UNCHANGED <<store, cursor, pel, workers, backend, trouble>>

\* The query or XADD of the current step fails and ParseArticle returns its
\* error; only a failed GetArticleWithURL is taken for "no such article".
ReqFail(r) ==
    /\ \E pc \in ReqPC \ {"idle", "ok", "error"} :
         At(r, pc) /\ Goto(r, IF pc = "find" THEN "create" ELSE "error")
    /\ Trouble("call")
    /\ UNCHANGED <<store, streams, workers, backend>>

----------------------------------------------------------------------------
(* event_consumer.py of the scraper and of the phonemizer. *)

MainTasks(w) == {p \in procs[w] : p.by = "main"}
Task(w, p) == EntryAt(w, p.i)

\* XREADGROUP ">" and one process_event per entry: queued on the scraper's
\* thread pool, called in turn by the phonemizer, which reads its next batch
\* only when it is through with this one.
Consume(w) ==
    LET new == Undelivered(log[In(w)], cursor[w], BatchSize)
    IN  /\ new # {}
        /\ w = "phonemizer" => MainTasks(w) = {}
        /\ cursor' = [cursor EXCEPT ![w] = @ + Cardinality(new)]
        /\ pel' = [pel EXCEPT ![w] = XReadGroup(@, new)]
        /\ procs' = [procs EXCEPT ![w] = @ \cup [by : {"main"}, i : new, pc : {"run"}]]
        /\ UNCHANGED <<store, req, log, sweep, backend, trouble>>

\* The pools are first in, first out: a queued task has started once fewer
\* than Threads(w) earlier ones are unfinished.
Running(w, p) ==
    /\ p \in procs[w]
    /\ p.by = "main" =>
         Cardinality({q \in MainTasks(w) : q.i < p.i}) < Threads(w)

\* The phonemizer also receives the scraper's errors, which hold no pure_text.
Malformed(w, p) == w = "phonemizer" /\ Task(w, p).kind = "error"

Step(w, p, pc) == procs' = [procs EXCEPT ![w] = (@ \ {p}) \cup {[p EXCEPT !.pc = pc]}]
\* A retry call that returns also leaves the sweep's list.
SweepDone(w, p) ==
    IF p.by = "retry" THEN [sweep EXCEPT ![w].todo = @ \ {p.i}] ELSE sweep
Return(w, p) ==
    /\ procs' = [procs EXCEPT ![w] = @ \ {p}]
    /\ sweep' = SweepDone(w, p)

\* The content was extracted (or phonemized): XADD the result.
Publish(w, p) ==
    /\ Running(w, p) /\ p.pc = "run" /\ ~Malformed(w, p)
    /\ XAdd(Out(w), Task(w, p).art, Success(w))
    /\ Step(w, p, "ack")
    /\ UNCHANGED <<store, req, cursor, pel, sweep, backend, trouble>>

\* ... and XACK the input.
AckInput(w, p) ==
    /\ p \in procs[w] /\ p.pc = "ack"
    /\ Ack(w, p.i)
    /\ Return(w, p)
    /\ UNCHANGED <<store, req, log, cursor, backend, trouble>>

\* Mutant: XACK in a finally block.
ProcessFails_Acks(w, p) ==
    /\ Running(w, p) /\ p.pc = "run" /\ ~Malformed(w, p)
    /\ Ack(w, p.i)
    /\ Return(w, p)
    /\ UNCHANGED <<store, req, log, cursor, backend, trouble>>

\* Extraction, phonemizing or XADD raised: the entry stays pending.
ProcessFails(w, p) ==
    /\ Running(w, p) /\ p.pc = "run" /\ ~Malformed(w, p)
    /\ Return(w, p)
    /\ UNCHANGED <<store, req, streams, backend, trouble>>

\* XACK raised after the result went out: the entry stays pending too.
AckFails(w, p) ==
    /\ p \in procs[w] /\ p.pc = "ack"
    /\ Return(w, p)
    /\ Trouble("call")
    /\ UNCHANGED <<store, req, streams, backend>>

\* A malformed input is acknowledged first ...
Reject(w, p) ==
    /\ Running(w, p) /\ p.pc = "run" /\ Malformed(w, p)
    /\ Ack(w, p.i)
    /\ Step(w, p, "report")
    /\ UNCHANGED <<store, req, log, cursor, sweep, backend, trouble>>

\* ... and answered with an error next.
Report(w, p) ==
    /\ p \in procs[w] /\ p.pc = "report"
    /\ XAdd(Out(w), Task(w, p).art, "error")
    /\ Return(w, p)
    /\ UNCHANGED <<store, req, cursor, pel, backend, trouble>>

\* A Redis call outside process_event's try raised: the loop of this thread
\* over its batch ends, what it has not processed stays pending.
Abort(w, p) ==
    /\ Running(w, p)
    /\ p.pc \in {"report", "drop"} \/ (p.pc = "run" /\ Malformed(w, p))
    /\ procs' = [procs EXCEPT ![w] = {q \in @ : q.by # p.by}]
    /\ sweep' = IF p.by = "retry" THEN [sweep EXCEPT ![w] = NoSweep] ELSE sweep
    /\ Trouble("call")
    /\ UNCHANGED <<store, req, streams, backend>>

\* _retry_pending_events: XAUTOCLAIM what has been idle for MIN_IDLE_TIME.
\* Nothing tells an entry that was left behind from one a thread is slow to
\* finish, or has not started on yet.
SweepClaim(w) ==
    /\ sweep[w] = NoSweep
    /\ \E idle \in (SUBSET DOMAIN pel[w]) \ {{}} :
         /\ IF \E p \in procs[w] : p.i \in idle
            THEN Trouble("overrun")
            ELSE UNCHANGED trouble
         /\ pel' = [pel EXCEPT ![w] = XAutoClaim(@, idle)]
         /\ sweep' = [sweep EXCEPT ![w] = [NoSweep EXCEPT !.todo = idle]]
    /\ UNCHANGED <<store, req, log, cursor, procs, backend>>

\* XPENDING over the claimed range, limited to as many entries as claimed:
\* an entry it does not return counts as delivered 0 times.
SweepCount(w) ==
    LET claimed == sweep[w].todo
        returned(first, last) ==
            XPendingRange(pel[w], first, last, Cardinality(claimed))
    IN  /\ ~sweep[w].counted /\ claimed # {}
        /\ \E first, last \in claimed :
             /\ \A i \in claimed : first <= i /\ i <= last
             /\ sweep' = [sweep EXCEPT
                  ![w].counted = TRUE,
                  ![w].over = {i \in claimed \cap returned(first, last) :
                                 pel[w][i] >= MaxRetries}]
        /\ UNCHANGED <<store, req, streams, procs, backend, trouble>>

Sweeping(w, i) ==
    /\ sweep[w].counted /\ IsLeast(i, sweep[w].todo)
    /\ \A p \in procs[w] : p.by = "main"

\* Under max_retries: process_event again, on the sweep's own thread.
SweepRetry(w) ==
    \E i \in sweep[w].todo :
        /\ Sweeping(w, i) /\ i \notin sweep[w].over
        /\ procs' = [procs EXCEPT ![w] = @ \cup {[by |-> "retry", i |-> i, pc |-> "run"]}]
        /\ UNCHANGED <<store, req, streams, sweep, backend, trouble>>

\* Mutant: give up without telling anyone.
SweepGiveUp_Silent(w) ==
    \E i \in sweep[w].todo :
        /\ Sweeping(w, i) /\ i \in sweep[w].over
        /\ procs' = [procs EXCEPT ![w] = @ \cup {[by |-> "retry", i |-> i, pc |-> "drop"]}]
        /\ UNCHANGED <<store, req, streams, sweep, backend, trouble>>

\* At max_retries: XADD "max retries exceeded" ...
SweepGiveUp(w) ==
    \E i \in sweep[w].todo :
        /\ Sweeping(w, i) /\ i \in sweep[w].over
        /\ XAdd(Out(w), EntryAt(w, i).art, "error")
        /\ procs' = [procs EXCEPT ![w] = @ \cup {[by |-> "retry", i |-> i, pc |-> "drop"]}]
        /\ UNCHANGED <<store, req, cursor, pel, sweep, backend, trouble>>

\* ... and XACK.
SweepDrop(w, p) ==
    /\ p \in procs[w] /\ p.pc = "drop"
    /\ Ack(w, p.i)
    /\ Return(w, p)
    /\ UNCHANGED <<store, req, log, cursor, backend, trouble>>

\* The sweep has gone through what it claimed and sleeps.
SweepEnd(w) ==
    /\ sweep[w].counted /\ sweep[w].todo = {}
    /\ sweep' = [sweep EXCEPT ![w] = NoSweep]
    /\ UNCHANGED <<store, req, streams, procs, backend, trouble>>

\* The process dies and is restarted; its pending entries survive in Redis.
WorkerCrash(w) ==
    /\ Trouble(w)
    /\ procs' = [procs EXCEPT ![w] = {}]
    /\ sweep' = [sweep EXCEPT ![w] = NoSweep]
    /\ UNCHANGED <<store, req, streams, backend>>

----------------------------------------------------------------------------
(* The backend's ArticlesHub and the service's two result handlers. *)

Batch(r, new) == [reader |-> r, todo |-> new, pc |-> "handle", seen |-> NoRow]

\* One XREADGROUP on both streams, one goroutine per stream with messages.
Listen ==
    LET new(r) == Undelivered(log[Source(r)], cursor[r], BatchSize)
        some == {r \in BffReader : new(r) # {}}
    IN  /\ bff = "listen" /\ some # {}
        /\ cursor' = [r \in Reader |->
             IF r \in some THEN cursor[r] + Cardinality(new(r)) ELSE cursor[r]]
        /\ pel' = [r \in Reader |->
             IF r \in some THEN XReadGroup(pel[r], new(r)) ELSE pel[r]]
        /\ hub' = hub \cup {Batch(r, new(r)) : r \in some}
        /\ UNCHANGED <<store, req, log, workers, bff, trouble>>

Handling(g, i, pc) == g \in hub /\ g.pc = pc /\ IsLeast(i, g.todo)
Become(g, h) == hub' = (hub \ {g}) \cup {h}
\* publishToListeners moves on to the next message of the batch, or returns.
Advance(g, i) ==
    IF g.todo = {i} THEN hub' = hub \ {g}
    ELSE Become(g, Batch(g.reader, g.todo \ {i}))

\* Mutant: the status an article has right after its scrape, come what may.
ApplyScrapeResult_Blind(a) ==
    rows' = [rows EXCEPT ![a].html = TRUE, ![a].status = "text-ready"]

\* ApplyScrapeResult: one UPDATE that derives the status from the row itself.
ApplyScrapeResult(a) ==
    rows' = [rows EXCEPT ![a].html = TRUE,
                         ![a].status = IF rows[a].phonemes THEN "ready" ELSE "text-ready"]

\* Mutant: the phonemizer is the last stage, so the article must be ready.
ApplyPhonemizerResult_Last(a) ==
    rows' = [rows EXCEPT ![a].phonemes = TRUE, ![a].status = "ready"]

\* ApplyPhonemizerResult: likewise.
ApplyPhonemizerResult(a) ==
    rows' = [rows EXCEPT ![a].phonemes = TRUE,
                         ![a].status = IF rows[a].html THEN "ready" ELSE "phonemes-ready"]

\* UpdateArticle writes every column of the article that was read.
UpdateArticle(a, row) == rows' = [rows EXCEPT ![a] = row]

HandleScrapeResult(g, i) ==
    LET e == EntryAt(g.reader, i)
    IN  /\ Handling(g, i, "handle") /\ e.kind = "text" /\ e.art \notin Unstorable
        /\ ApplyScrapeResult(e.art)
        /\ Become(g, [g EXCEPT !.pc = "ack"])
        /\ UNCHANGED <<links, req, streams, workers, bff, trouble>>

\* Mutant: a result that cannot be stored is logged and counts as handled.
HandleRefused_Handled(g, i) ==
    LET e == EntryAt(g.reader, i)
    IN  /\ Handling(g, i, "handle") /\ e.kind = "text" /\ e.art \in Unstorable
        /\ Become(g, [g EXCEPT !.pc = "ack"])
        /\ UNCHANGED <<store, req, streams, workers, bff, trouble>>

\* Mutant: a result that cannot be stored marks the article failed.
HandleRefused_MarksFailed(g, i) ==
    LET e == EntryAt(g.reader, i)
    IN  /\ Handling(g, i, "handle") /\ e.kind = "text" /\ e.art \in Unstorable
        /\ UpdateArticle(e.art, [rows[e.art] EXCEPT !.status = "failed"])
        /\ Advance(g, i)
        /\ UNCHANGED <<links, req, streams, workers, bff, trouble>>

\* Postgres refuses the UPDATE: a title over VARCHAR(255), or a description cut
\* in the middle of a UTF-8 sequence by GenerateDescriptionIfNone.
HandleRefused(g, i) ==
    LET e == EntryAt(g.reader, i)
    IN  /\ Handling(g, i, "handle") /\ e.kind = "text" /\ e.art \in Unstorable
        /\ Advance(g, i)
        /\ UNCHANGED <<store, req, streams, workers, bff, trouble>>

HandlePhonemizerResult(g, i) ==
    LET e == EntryAt(g.reader, i)
    IN  /\ Handling(g, i, "handle") /\ e.kind = "phonemes"
        /\ ApplyPhonemizerResult(e.art)
        /\ Become(g, [g EXCEPT !.pc = "ack"])
        /\ UNCHANGED <<links, req, streams, workers, bff, trouble>>

\* handleScrapeError, for errors of either worker: read the article ...
HandleErrorRead(g, i) ==
    LET e == EntryAt(g.reader, i)
    IN  /\ Handling(g, i, "handle") /\ e.kind = "error"
        /\ Become(g, [g EXCEPT !.pc = "fail", !.seen = rows[e.art]])
        /\ UNCHANGED <<store, req, streams, workers, bff, trouble>>

\* ... and write it back as failed.
HandleErrorWrite(g, i) ==
    /\ Handling(g, i, "fail")
    /\ UpdateArticle(EntryAt(g.reader, i).art, [g.seen EXCEPT !.status = "failed"])
    /\ Become(g, [g EXCEPT !.pc = "ack"])
    /\ UNCHANGED <<links, req, streams, workers, bff, trouble>>

\* The listener returned nil: XACK.
HubAck(g, i) ==
    /\ Handling(g, i, "ack")
    /\ Ack(g.reader, i)
    /\ Advance(g, i)
    /\ UNCHANGED <<store, req, log, cursor, workers, bff, trouble>>

\* Mutant: XACK whether or not the listener returned an error.
HubFail_Acks(g, i) ==
    /\ \E pc \in {"handle", "fail", "ack"} : Handling(g, i, pc)
    /\ Ack(g.reader, i)
    /\ Advance(g, i)
    /\ Trouble("call")
    /\ UNCHANGED <<store, req, log, cursor, workers, bff>>

\* A query of the handler or the XACK fails: the message stays pending.
HubFail(g, i) ==
    /\ \E pc \in {"handle", "fail", "ack"} : Handling(g, i, pc)
    /\ Advance(g, i)
    /\ Trouble("call")
    /\ UNCHANGED <<store, req, streams, workers, bff>>

\* The backend stops: calls in progress are cut off, goroutines are lost.
BffCrash ==
    /\ bff # "down" /\ Trouble("bff")
    /\ bff' = "down"
    /\ hub' = {}
    /\ req' = [r \in Request |->
         IF req[r].pc \in {"idle", "ok", "error"} THEN req[r]
         ELSE [req[r] EXCEPT !.pc = "error"]]
    /\ UNCHANGED <<store, streams, workers>>

\* reclaimPending, before the read loop: take over what is already idle.
Reclaim(r) ==
    \E idle \in SUBSET DOMAIN pel[r] :
        /\ pel' = [pel EXCEPT ![r] = XAutoClaim(@, idle)]
        /\ hub' = IF idle = {} THEN hub ELSE hub \cup {Batch(r, idle)}

BffStart ==
    /\ bff = "down"
    /\ bff' = "reclaimScraped"
    /\ Reclaim("bffScraped")
    /\ UNCHANGED <<store, req, log, cursor, workers, trouble>>

\* ... on one stream and then on the other, each batch to its end.
ReclaimNext ==
    /\ bff = "reclaimScraped" /\ hub = {}
    /\ bff' = "reclaimPhonemized"
    /\ Reclaim("bffPhonemized")
    /\ UNCHANGED <<store, req, log, cursor, workers, trouble>>

ReclaimEnd ==
    /\ bff = "reclaimPhonemized" /\ hub = {}
    /\ bff' = "listen"
    /\ UNCHANGED <<store, req, streams, workers, hub, trouble>>

----------------------------------------------------------------------------

ReqNext(r) ==
    \/ ReqStart(r) \/ ReqCheck(r) \/ ReqFind(r) \/ ReqLink(r)
    \/ ReqCreate(r) \/ ReqRelate(r) \/ ReqSubmit(r) \/ ReqFail(r)

ProcNext(w, p) ==
    \/ Publish(w, p) \/ AckInput(w, p) \/ ProcessFails(w, p) \/ AckFails(w, p)
    \/ Reject(w, p) \/ Report(w, p) \/ Abort(w, p) \/ SweepDrop(w, p)

SweepNext(w) ==
    SweepClaim(w) \/ SweepCount(w) \/ SweepRetry(w) \/ SweepGiveUp(w) \/ SweepEnd(w)

WorkerNext(w) ==
    Consume(w) \/ SweepNext(w) \/ WorkerCrash(w) \/ \E p \in procs[w] : ProcNext(w, p)

HandlerNext(g, i) ==
    \/ HandleScrapeResult(g, i) \/ HandleRefused(g, i) \/ HandlePhonemizerResult(g, i)
    \/ HandleErrorRead(g, i) \/ HandleErrorWrite(g, i) \/ HubAck(g, i) \/ HubFail(g, i)

BffNext ==
    \/ Listen \/ BffCrash \/ BffStart \/ ReclaimNext \/ ReclaimEnd
    \/ \E g \in hub : \E i \in g.todo : HandlerNext(g, i)

Next ==
    \/ \E r \in Request : ReqNext(r)
    \/ \E w \in Worker : WorkerNext(w)
    \/ BffNext

Spec == Init /\ [][Next]_vars

\* Fairness: the processes run, their threads are scheduled, a stopped backend
\* is restarted.  Users, crashes, failing calls and the outcome of an
\* extraction are not fair.
Fairness ==
    /\ \A r \in Request : WF_vars(req[r].pc # "idle" /\ ReqNext(r))
    /\ \A w \in Worker :
         /\ WF_vars(Consume(w))
         /\ WF_vars(\E p \in procs[w] : ProcNext(w, p))
         /\ WF_vars(SweepNext(w))
    /\ WF_vars(Listen)
    /\ WF_vars(\E g \in hub : \E i \in g.todo : HandlerNext(g, i))
    /\ WF_vars(BffStart \/ ReclaimNext \/ ReclaimEnd)

FairSpec == Spec /\ Fairness

----------------------------------------------------------------------------
(* Properties *)

Errored(a) == Published("scraped", a, {"error"}) \/ Published("phonemized", a, {"error"})

\* The status a row should have by the content it holds.
Derived(row) ==
    IF row.html THEN IF row.phonemes THEN "ready" ELSE "text-ready"
    ELSE IF row.phonemes THEN "phonemes-ready" ELSE "processing"

\* However the two result handlers interleave, repeat or swap, the status of an
\* article nobody reported an error for says exactly which content is stored:
\* ApplyScrapeResult and ApplyPhonemizerResult commute and are idempotent.
StatusMatchesContent ==
    \A a \in Article :
        rows[a].status # Absent /\ ~Errored(a) => rows[a].status = Derived(rows[a])

\* "ready" is never shown for an article that lacks its text or its phonemes,
\* with errors, duplicates and lost updates too.
ReadyHasBoth ==
    \A a \in Article : rows[a].status = "ready" => rows[a].html /\ rows[a].phonemes

\* Whatever users submit concurrently, an article is sent to be scraped once.
SubmittedOnce ==
    \A i, j \in 1..Len(log["jobs"]) : log["jobs"][i].art = log["jobs"][j].art => i = j

\* A worker forgets an input only once an answer for it is in its output
\* stream, through crashes, reclaims and give-ups (a result the phonemizer
\* cannot read is rejected before it is answered: Reject).
AnsweredBeforeAcked ==
    \A w \in Worker : \A i \in 1..Len(log[In(w)]) :
        IsAcked(w, i) /\ log[In(w)][i].kind # "error"
            => Published(Out(w), log[In(w)][i].art, {Success(w), "error"})

\* An article that was submitted and is still shown as processing has work
\* left for somebody: its job or one of its scrape results is unacknowledged.
NothingStranded ==
    \A a \in Article :
        rows[a].status = "processing" /\ Published("jobs", a, {"job"}) =>
            \/ \E i \in 1..Len(log["jobs"]) :
                 log["jobs"][i].art = a /\ ~IsAcked("scraper", i)
            \/ \E i \in 1..Len(log["scraped"]) :
                 log["scraped"][i].art = a /\ ~IsAcked("bffScraped", i)

\* Why the two hold at every step: who is about to acknowledge an input has
\* answered it, who is about to acknowledge a result has applied it, and a row a
\* result was applied to is never "processing" again.
Answered(w, i) ==
    log[In(w)][i].kind = "error"
        \/ Published(Out(w), log[In(w)][i].art, {Success(w), "error"})
Applied(r, i) == rows[EntryAt(r, i).art].status \notin {"processing", Absent}
FinishedAnswered ==
    \A w \in Worker : \A p \in procs[w] : p.pc # "run" => Answered(w, p.i)
AppliedBeforeAcking ==
    \A g \in hub : \A i \in g.todo :
        g.pc = "ack" /\ IsLeast(i, g.todo) => Applied(g.reader, i)
AppliedBeforeAcked ==
    \A r \in BffReader : \A i \in 1..cursor[r] : IsAcked(r, i) => Applied(r, i)
PipelineInv ==
    /\ TypeOK /\ FinishedAnswered /\ AnsweredBeforeAcked
    /\ AppliedBeforeAcking /\ AppliedBeforeAcked

\* Likewise for an article whose text is in and whose phonemes are not, unless
\* an error was reported for it.
TextAwaitsPhonemes ==
    \A a \in Article :
        rows[a].status = "text-ready" /\ ~Errored(a) =>
            \/ \E i \in 1..Len(log["scraped"]) :
                 log["scraped"][i].art = a /\ ~IsAcked("phonemizer", i)
            \/ \E i \in 1..Len(log["phonemized"]) :
                 log["phonemized"][i].art = a /\ ~IsAcked("bffPhonemized", i)

\* An article some user has saved is with the workers, or has been, once no call
\* to ParseArticle is under way: a row that is linked was submitted.
LinkedIsSubmitted ==
    (\A r \in Request : req[r].pc \in {"idle", "ok", "error"}) =>
        \A l \in links : Published("jobs", l[2], {"job"})

\* The only ways a user comes to own a row nobody will ever work on: a call
\* failed half way, or the same user submitted the article twice at once.
DistinctSubmitters ==
    \A q, r \in Request : q # r =>
        <<req[q].user, req[q].art>> # <<req[r].user, req[r].art>>
SubmittedUnlessTroubled == trouble = 0 /\ DistinctSubmitters => LinkedIsSubmitted

\* Why these two hold: a stream carries its own kinds of entries, and only of
\* articles that have a row; between the INSERT and the XADD, a call is alone
\* with its article; what is linked has a row.  While nothing goes wrong, who
\* has not linked its article is the first to, and a row is submitted at last.
Carried(s) ==
    CASE s = "jobs"       -> {"job"}
      [] s = "scraped"    -> {"text", "error"}
      [] s = "phonemized" -> {"phonemes", "error"}
HasRow(a) == rows[a].status # Absent
Submitting(r) == req[r].pc \in {"relate", "submit"}
EntriesHaveRows ==
    \A s \in Stream : \A i \in 1..Len(log[s]) :
        log[s][i].kind \in Carried(s) /\ HasRow(log[s][i].art)
InsertedFirst ==
    \A r \in Request : Submitting(r) =>
        RowExists(r) /\ ~Published("jobs", req[r].art, {"job"})
OneSubmitter ==
    \A q, r \in Request :
        Submitting(q) /\ Submitting(r) /\ req[q].art = req[r].art => q = r
LinksHaveRows ==
    /\ \A l \in links : HasRow(l[2])
    /\ \A r \in Request : req[r].pc = "link" => RowExists(r)
LinksLast == \A r \in Request : req[r].pc \notin {"submit", "ok", "error"} => ~Linked(r)
RowsSubmitted ==
    \A a \in Article : HasRow(a) =>
        Published("jobs", a, {"job"}) \/ \E r \in Request : Submitting(r) /\ req[r].art = a
SubmissionInv ==
    /\ TypeOK /\ EntriesHaveRows /\ InsertedFirst /\ OneSubmitter /\ SubmittedOnce
    /\ LinksHaveRows
    /\ trouble = 0 /\ DistinctSubmitters => LinksLast /\ RowsSubmitted

\* The pipeline implements the abstract life of an article: what the workers
\* have produced is what is in their output streams.
Produced(a) ==
    {o \in {"text", "phonemes", "error"} :
        Published("scraped", a, {o}) \/ Published("phonemized", a, {o})}
Lifecycle == INSTANCE ArticleLifecycle WITH produced <- [a \in Article |-> Produced(a)]
ImplementsLifecycle == Lifecycle!Spec

\* Why it does, and why the status matches the content: what a row holds, or a
\* goroutine has read of it, was published; only an error makes a row fail; and
\* once phonemes are acknowledged, they are in the row unless an error was
\* reported for the article.
Holds(a, row) ==
    (row.html => "text" \in Produced(a)) /\ (row.phonemes => "phonemes" \in Produced(a))
ContentProduced == \A a \in Article : Holds(a, rows[a])
FailsOnError ==
    \A g \in hub : \A i \in g.todo : g.pc = "fail" /\ IsLeast(i, g.todo) =>
        EntryAt(g.reader, i).kind = "error" /\ Holds(EntryAt(g.reader, i).art, g.seen)
Stored(i) ==
    LET a == EntryAt("bffPhonemized", i).art IN rows[a].phonemes \/ Errored(a)
StoredBeforeAcking ==
    \A g \in hub : \A i \in g.todo :
        g.reader = "bffPhonemized" /\ g.pc = "ack" /\ IsLeast(i, g.todo) => Stored(i)
StoredBeforeAcked ==
    \A i \in 1..cursor["bffPhonemized"] : IsAcked("bffPhonemized", i) => Stored(i)
ContentInv ==
    /\ ContentProduced /\ FailsOnError /\ StatusMatchesContent
    /\ StoredBeforeAcking /\ StoredBeforeAcked

\* Every submission is answered: the article is at last ready to be read aloud
\* for good, or some worker gave up on it and it is no longer shown as
\* processing.  No crash, retry or give-up leaves a reader waiting forever.
EverySubmissionAnswered ==
    \A a \in Article :
        Published("jobs", a, {"job"}) ~>
            \/ [](rows[a].status = "ready")
            \/ Errored(a) /\ [](rows[a].status # "processing")

\* A submitted article is at last ready or failed, and stays so.
Settles ==
    \A a \in Article :
        Published("jobs", a, {"job"}) ~> [](rows[a].status \in {"ready", "failed"})
=============================================================================
