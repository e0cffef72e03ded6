# ReadIntent in TLA+

ReadIntent turns web articles into clean, spoken text. A user submits a URL from
the mobile app or the browser extension; a Go backend stores it and hands it to a
Python scraper and a Python phonemizer through Redis Streams; the app shows the
article when its text is in and reads it aloud when its phonemes are.

This directory holds a model of the parts of the system whose correctness depends on
interleavings, failures and retries, the TLC configurations that check it on
small instances, and TLAPS proofs of the properties that matter most.

```
tlc -workers 2 -config PipelineSafety.cfg MCArticlePipeline    # any run below
tlapm ArticlePipelineProofs.tla                                # the proofs
tlapm ArticleUpdatesProofs.tla
tlapm OfflineQueueProofs.tla
tlapm PairingProofs.tla
```

## The system

### Components, their state and their operations

| component | code | state | operations |
|---|---|---|---|
| articles service | `backend/services/articles` | tables `articles`, `user_articles` | ParseArticle, HandleScrapeResult, HandlePhonemizerResult, GetArticles, SetArticleState, DeleteArticle, SaveArticleProgress, CheckForUpdates |
| articles hub | `.../adapters/redis_streams_articles.go` | consumer group on two streams | SubmitArticle, Listen, publishToListeners, reclaimPending |
| scraper | `scraper/event_consumer.py` | consumer group on `scrape:jobs`, thread pool, retry thread | consume, process_event, retry sweep |
| phonemizer | `phonemizer/event_consumer.py` | consumer group on `scrape:results`, one thread, retry thread | the same, single threaded |
| broker, update stream | `.../broker/broker.go`, `.../connectrpc` | per user subscriptions with a buffer of 8 | Subscribe, Publish, Close, heartbeat |
| extension pairing | `backend/services/extension` | table of grant codes, JWT key | generate codes, claim, poll, delete |
| authentication | `backend/services/auth`, middleware | Kratos (external), table `users` | register, log in, session |
| app repository | `ui/.../article_repository.dart`, `pending_operations.dart` | SQLite cache, queue of offline operations | optimistic changes, queue, retry, restore |
| app update channel, hub, lists | `ui/.../article_updates_*.dart`, `articles_provider.dart` | stream, probe, timers, list state | connect, reconnect, fall back to polling, resync |
| app audio | `ui/lib/features/tts` | mp3, `.meta`, `.timestamps` files | generate, resume, finalize, evict, download |
| app player | `article_player_provider.dart` | player session | load, play, persist position |
| browser extension | `browser_extension/src` | stored token, pairing state | pair, poll, submit |

```
 app / extension --ParseArticle--> backend --scrape:jobs--> scraper
        ^                            ^  ^                      |
        | StreamArticleUpdates       |  +---scrape:results-----+
        | CheckForUpdates, lists     |            |
        +------- backend <-----------+            v
                                     +--phonemize:results-- phonemizer
```

Backend and phonemizer are two consumer groups on the *same* stream
`scrape:results`, so the text of an article reaches the table and the phonemizer
independently, and the phonemizer's answer can overtake it.

### What is hard

* **Interleaving.** ParseArticle is five separate queries without a
  transaction. Each batch of results is handled by a goroutine of its own, so the
  two results of an article race. `handleScrapeError` reads an article and writes
  it back. A worker's retry thread works on entries its other threads may still hold.
* **At-least-once delivery.** An entry is acknowledged after its result is
  published (workers) or applied (backend). A crash between the two repeats it.
* **Failure.** Workers leave a failed entry pending; a sweep retries it up to
  `max_retries` times and then publishes an error. The backend takes over pending
  entries only when it starts.
* **Delivery to the app.** Pushes may be dropped; the app compensates by
  refetching after a reconnect and by polling when streaming fails.
* **Local state of the app.** Optimistic changes, queued operations and files that
  grow while they are played have to survive crashes and lost connections.
* **State read before an await.** The extension's worker, its popup and the app's player are
  callbacks that read shared fields (a timer, `_session`, the stored token) again after they waited:
  whatever is there by then is what they stop, clean up or overwrite.
* **Two stores, no transaction.** An account is an identity of Kratos and a row of `users`; an
  audio file is its sound, its `.meta` and its `.timestamps`.

`PROJECT.json` lists the hazards at the line where each one bites, with the
property that covers it or the reason why none does.

### What makes each component correct

* *Pipeline*: a URL is scraped once; no input is forgotten unanswered; the status says
  what is stored; nobody waits for work that no one will do; every submission ends.
* *Update channel*: whenever the app is online and in the foreground it is streaming or
  polling, never both forever; what changed is eventually shown; never an older
  state after a newer one.
* *Offline queue*: no queued operation is lost, they are executed in order and once unless an
  answer was; the cached previews show what the server will have once the queue is worked off.
* *Accounts and pairing*: every identity has its row; a code is claimed by one user, is good for one
  token, hers, and the extension keeps it; the codes on the screen are polled.
* *Audio*: a file that counts as complete has every chunk once and in order, and all its
  timestamps; the generator that runs is the session's; what is heard is the article shown.

## Modules

| module | what it is |
|---|---|
| `RedisStreams` | operators for streams, consumer groups and pending lists, as the code uses them (external) |
| `ArticlePipeline` | ParseArticle, scraper, phonemizer and the backend's listener, composed |
| `ArticleLifecycle` | what the articles table promises to readers: the abstract specification |
| `MCArticlePipeline` | instances of `ArticlePipeline` for TLC |
| `ArticlePipelineProofs` | theorems about `ArticlePipeline`: streams, acknowledgements, "ready" |
| `ArticleSubmissionProofs` | theorems about ParseArticle; extends the former |
| `ArticleContentProofs` | theorems about status and content, and the refinement; extends the former |
| `ArticleUpdates` | broker, update stream, the app's channel, hub and list view, composed |
| `MCArticleUpdates` | instances of `ArticleUpdates` for TLC |
| `ArticleUpdatesProofs` | theorems about `ArticleUpdates` |
| `OfflineQueue` | the app's repository, its queue of operations and the user's row on the server |
| `MCOfflineQueue` | an instance of `OfflineQueue` for TLC |
| `OfflineQueueProofs` | theorems about `OfflineQueue` |
| `Accounts` | identities and users rows, extended by the modules that need accounts |
| `Pairing` | grant codes, the app that claims them, the extension's worker and popup, composed with `Accounts` |
| `MCPairing` | an instance of `Pairing` for TLC |
| `PairingProofs` | theorems about `Pairing` and `Accounts` |
| `SpeechAudio` | the player's sessions, the generator, its growing files and the cache |
| `MCSpeechAudio` | an instance of `SpeechAudio` for TLC |
| `SpeechAudioProofs` | theorems about the calls and the session of `SpeechAudio` |
| `SpeechFilesProofs` | theorems about its files; extends the former |

### ArticlePipeline

One action is one round trip to Postgres or Redis; everything else a process does
between two round trips is part of the action. So any two processes, threads or
goroutines interleave exactly where they can in the code.

| variable | in the code |
|---|---|
| `rows` | table `articles`: status, and whether `extracted_html` and `phonemizer_data` are set |
| `links` | table `user_articles` |
| `req` | the ParseArticle calls in progress and the query each is at |
| `log` | the three streams, append-only; an entry is an article and what it says (`job`, `text`, `phonemes`, `error`) |
| `cursor`, `pel` | last entry delivered and pending entries with delivery counts, per consumer group |
| `procs` | process_event calls of a worker: queued, running, between XADD and XACK, giving up |
| `sweep` | what the retry thread has claimed, and which of it is over `max_retries` |
| `hub` | publishToListeners goroutines: batch, current message, and the article handleScrapeError has read |
| `bff` | the backend's listener: reading, reclaiming, or down |
| `trouble` | how often something has gone wrong |

The backend's consumer group reads two streams and keeps a cursor and a pending list
for each, hence the readers `bffScraped` and `bffPhonemized`.

* **ParseArticle**: `ReqCheck`, `ReqFind`, `ReqLink`, `ReqCreate`, `ReqRelate`,
  `ReqSubmit`, one per query, with `UNIQUE(url)` and the primary key of `user_articles`
  deciding who fails. `ReqFail` is an error of any of them: note that an error of
  `GetArticleWithURL` is taken for "no such article", as in the code.
  `CreateInitialArticle`'s own look-up and its INSERT are one action: a row that appears
  between the two makes the INSERT fail with the same outcome.
* **Workers**: `Consume` reads a batch; the scraper queues it on its pool
  (`Running` is the pool's first-in first-out rule), the phonemizer works through it
  before reading again. `Publish`/`AckInput` succeed, `ProcessFails`/`AckFails` leave the
  entry pending, `Reject`/`Report` handle what the phonemizer cannot read: the scraper's errors,
  which arrive on the same stream. `SweepClaim`, `SweepCount`, `SweepRetry`,
  `SweepGiveUp`, `SweepDrop` are the retry thread, with XPENDING's limit as in the
  code. `Abort` is a Redis error outside the `try`, `WorkerCrash` a restart.
* **Backend**: `Listen` starts goroutines, `Handle*` are the two handlers,
  `HubAck` acknowledges after success, `HubFail` and `HandleRefused` leave the message pending.
  `BffCrash` cuts off calls and goroutines; `BffStart`, `ReclaimNext` and `ReclaimEnd` are
  the one reclaim before the read loop.

Abstractions. An article is its cleaned URL. Time is gone: any pending entries may
be idle when a sweep or a reclaim looks ("idle" is chosen by `\E`); claiming one that
a thread is still busy with is an `overrun` and counted as trouble. Content
is a flag per column. `Unstorable` is the set of articles whose scrape result Postgres
refuses: a title over `VARCHAR(255)`, or a description that
`GenerateDescriptionIfNone` cut inside a UTF-8 sequence.

Left out of this module: `ensureGroups` at `"$"` (groups exist from the start), a
listener that ends because Redis is down when it starts, removal of a user's link
(`DeleteArticle`), the previews pushed after each change, events without `article_id` or
`url` (`SubmitArticle` always writes both), and payloads that do not decode.

### ArticleLifecycle

The promise to everybody who reads the articles table: a row appears once, as
"processing", and never returns to it; it holds only content that a worker has
produced; it is marked failed only after an error was reported; "ready" is entered
with both contents. `ImplementsLifecycle` instantiates it with what the workers have put in
their output streams as `produced`, and is checked as a property of the pipeline. It allows, and
documents, that recording a failure may *remove* content: `UpdateArticle`
writes back every column as its caller had read it.

### ArticleUpdates

How one change of one article gets to the screen of one user. The article's n-th change is
version n, and it doubles as the time, so `_lastCheckedAt` and `updated_at` are versions.

| variable | in the code |
|---|---|
| `article` | the row and the user's link: `version`, and `touched`, the last change that moved `articles.updated_at` |
| `pubs` | `publishArticleUpdate` calls: before their query, or about to call `Publish` |
| `queue` | per connection, what the broker's channel and the wire hold |
| `app` | `isOnlineProvider`, suspended, and whether the path lets streams through at all |
| `ch` | `ArticleUpdatesChannel`: the stream (`opening` until the server has subscribed, `waiting` until its first event, then `live`), `_reconnectTimer`, `_streamFailureCount`, `_connectedOnce`, `_inFallback`, `_probeSub` |
| `poll`, `loops` | `ArticleUpdatesHub`: `_pollingActive`, which loop `_checkTimer` belongs to, `_lastCheckedAt`; and each chain of timer and check |
| `fetch`, `view` | refetches asked for and answered, and what the list shows |
| `gap`, `trouble` | history for the properties |

`Commit`, `PubRead`, `PubSend`, `PubFail` and `Subscribe` are the backend.
`StreamConnects`, `StreamEvent`, `StreamBreaks`, `ReconnectTimer`, `ProbeTimer`, `ProbeEvent`,
`ProbeBreaks`, `GoOffline`, `GoOnline`, `Suspend` and `Resume` are the callbacks of the channel
together with what the hub does on `pollingMode` and `resyncRequests`; a Dart
isolate runs one callback at a time. `CheckAsk` ... `CheckDone` is one `_performCheck`, cut
at its await and, on the server, between the query and the reading of the clock.
`FetchAnswer` and `FetchApply` are a refetch, cut at its await.

Abstractions. Backoff times are gone: a timer may fire whenever it is set. The clocks of
app and server agree; that they count in seconds only makes polling find a change twice. The buffer of 8
is `Buffer`. A connection that neither delivers nor breaks does not exist in the
model: the app has no timeout of its own for missing heartbeats. The user's own changes
(saving, moving and removing articles) are in `OfflineQueue`.

### OfflineQueue

What one user does to articles in the app while the network comes and goes.

| variable | in the code |
|---|---|
| `server` | the user's row of `user_articles`: list and favourite flag, or `Gone` |
| `cache` | the app's table `article_previews`: the same |
| `ops`, `failed`, `issued` | its table `pending_operations`: rows "pending" in order of their ids, ids "failed", last id |
| `pass` | `processQueue`: its snapshot, and whether it waits for the backend, has its answer or its error |
| `timer` | `_retryTimer`; `stray` counts timers that were set over by a newer one and can no longer be cancelled |
| `online`, `refetch` | `isOnlineProvider`; `articlesProvider` is invalidated and not rebuilt |
| `call` | the repository's calls: preview read, optimistic change written, request sent, failed |
| `read` | pages and pushed previews on their way to the cache |
| `applied`, `resent`, `disturbed`, `missed` | history for the properties |

`Begin`, `Write`, `Send`, `Enqueue`, `Served`, `Refused` and `Restore` are `parseArticle`,
`deleteArticle` and `setArticleState`, cut at their awaits. `StartPass`, `OpServed`, `OpRefused`,
`OpDone` and `OpFailed` are `processQueue`; `TimerFires`, `GoOffline` and `ComeOnline` are what calls
it or cancels it. `Serve`, `Store` and `Refetch` are `replacePreviews` and `upsertPreview`, which add and
replace rows and never remove one. `Elsewhere` is another device, `Restart` the app's death: the
database survives, and a pass starts as soon as it runs again.

Abstractions. A row is what the user can change of it. `ParseArticle` concerns an article that exists, so
it links or does nothing. `getPendingOps` orders the rows by
`createdAt`, a wall-clock time: the device's clock is taken not to be set back while operations are queued
(two made in the same millisecond keep their order), so that this is the order of their ids.

### Accounts and Pairing

`Accounts` is registration: Kratos first (`Register`), then the row (`CreateUser`), which may not
happen (`CreateUserFails`). `Pairing` extends it: only who has a row can claim a code, since `claimed_by`
references one.

| variable | in the code |
|---|---|
| `grant`, `expired` | table `auth_grant_codes`: the row and `claimed_by`; whether `expires_at` has passed |
| `key` | the JWT issuer's key, generated at every start |
| `stored`, `late`, `token` | `storage.local`: the codes, whether the extension thinks them expired, the session token |
| `up`, `polling`, `check` | the worker, its `pollTimer`, its `checkStatus` calls |
| `start`, `unpairing`, `refused` | `startPairing`, `unpair`, the 401 of a submission |
| `popup`, `resume` | the popup: closed, open, or asking for codes; its `RESUME_POLLING` message |
| `claimers`, `tokens`, `overlapped`, `cut`, `astray`, `wiped` | history for the properties |

`ClaimGrantCode` is one UPDATE; `CheckPairingStatus` is two statements, `GetDeviceGrant` and
`DeleteGrantCodes`, whose affected rows nobody looks at. `Tick` is the worker's interval, which does not
wait for earlier polls; `AnsweredPaired`, `AnsweredExpired` and `StopPolling` are `checkStatus`
after its awaits. `RequestCodes`, `SetPairingMode` and `StartPolling` are `startPairing`;
`Unpair`, `Unpaired`, `UnpairRefused` and `RefusedUnpaired` the two ways to unpair. `WorkerDies` is the
browser's right to stop an idle worker.

Abstractions. The codes are one number per pair: that they are random, hashed and unguessable is not
modelled. One call of `startPairing` is under way at a time (a popup closed and opened again is
taken to be slower than the backend). Session handling (login, logout) leaves nothing behind that
another operation depends on, and is left out: `Authenticated` is having an identity.

### SpeechAudio

| variable | in the code |
|---|---|
| `mp3` | the chunks appended to an article's audio file |
| `meta` | `.meta`: the last chunk, missing, or unreadable after a crash |
| `stamps` | `.timestamps`: the chunks whose words it has |
| `play` | the calls of `play()`, each with the `generate()` it waits for |
| `gen`, `session` | the generators, alive until disposed of, and `_session` |
| `shown`, `started`, `source` | the article shown, `_playerStarted`, the file the audio handler plays |
| `torn`, `unstamped`, `hurries` | history for the properties |

`Play`, `Leave`, `Begin`, `PlayFromFile`, `Opened` and `Generate` are the player; `InitAudioFile`,
`Infer`, `WriteChunk`, `WriteMeta`, `SaveTimestamps` and `Finalize` one `generate()`;
`Evict`, `Delete` and `Done` the cache. All of them interleave with the calls of other plays, since nothing
waits for an older call to end. `Crash` leaves the files as they are.

Abstractions. Every chunk has some sound. Which file was accessed least recently is up to the file system
(it may not record accesses at all), so eviction takes any. Pausing, the persisted position and
loading a file again as it grows are left out; `dispose()` is done with the file by the next step.

## Runs

The pipeline's runs use `MCArticlePipeline`, the updates' `MCArticleUpdates`, the last three the MC
module of their name. Deadlock checking is off: with all submissions answered, all changes shown and no
stream getting through, or the user done, the system really stops.

| run | instance | checks | outcome |
|---|---|---|---|
| `pipeline_safety` | 2 articles (one unstorable), 1 request, batch 2, 2 threads, 3 retries, every kind of trouble, once | `TypeOK`, `PipelineInv`, `StatusMatchesContent`, `ReadyHasBoth`, `AnsweredBeforeAcked`, `NothingStranded`, `TextAwaitsPhonemes`, `ImplementsLifecycle`, `ContentInv` | holds, about 390 000 states |
| `pipeline_requests` | 2 users, 2 requests, 1 article, one failing call | `SubmittedOnce`, `SubmittedUnlessTroubled`, `SubmissionInv` | holds, about 745 000 states |
| `pipeline_liveness` | 1 article, 3 retries, one worker crash or overrun | `EverySubmissionAnswered` | holds, about 298 000 states |
| `pipeline_reclaim` | 1 article, one crash of the backend | `EverySubmissionAnswered` | violated |
| `pipeline_late_text` | 1 article, no trouble | `Settles` | violated |
| `pipeline_double_tap` | 1 user submitting twice, no trouble | `LinkedIsSubmitted` | violated |
| `updates_safety` | 2 changes, buffer of 1, fallback after 2 breaks, 2 troubles of any kind | `TypeOK`, `ChannelInv`, `NeverDeaf`, `StreamsOrPolls`, `DeliveryInv`, `CaughtUpSinceConnected` | holds, about 7 million states |
| `updates_liveness` | 1 change, 3 breaks, offline or background phases or failing checks | `ChangesAreShown`, `PollingShowsChanges` | holds, about 550 000 states |
| `updates_first_connect` | 1 change, no trouble | `CaughtUp` | violated |
| `offline_queue` | 1 article, 2 queued operations and direct ones, 2 retries, 2 offline phases, 2 troubles of any kind | `TypeOK`, `NothingLost`, `InOrder`, `OnceUnlessUnrecorded`, `CacheFollowsQueue`, `NeverForgotten`, `CacheInv` | holds, about 3.5 million states |
| `pairing` | 2 users, one registering, 2 pairs of codes, 2 polls at once, 1 trouble of any kind | `TypeOK`, `EveryAccountHasItsRow`, `OneClaimer`, `OneTokenUnlessOverlapped`, `TokenKept`, `ShownCodeIsPolled` | holds, about 8.9 million states |
| `speech_audio` | 2 articles of 2 chunks, a cache of 3, 3 plays, 1 crash | `TypeOK`, `CompleteIsWhole`, `HighlightsMatch`, `OneSession`, `ShownIsHeard`, `SpeechInv` | holds, about 2.5 million states |

`PipelineInv`, `SubmissionInv`, `ContentInv`, `ChannelInv`, `DeliveryInv`, `CacheInv` and `SpeechInv` are the
inductive invariants of the proofs; TLC checks that they hold before they are proved.

What the properties say is in the comment above each of them. What the runs show:

* **Status and content agree.** The two result handlers commute and are idempotent: as
  long as no error was reported for an article, its status is the function of its
  content, however results are repeated, delayed or swapped.
* **Nothing is forgotten.** A worker never acknowledges an input before it is answered; a
  submitted article shown as processing always has an unacknowledged job or scrape result,
  and a text-ready one has its phonemes under way or an error reported.
* **Submission.** Concurrent submissions of one URL scrape it once. Whenever
  nothing failed and no user submitted the same URL twice at once, a saved article
  has been submitted.
* **Every submission is answered** when only workers fail.
* **The app is never deaf.** However timers, probes, connectivity and suspension overlap, an
  app that is online and in the foreground streams, is about to reconnect, or polls; it
  polls exactly while it is in the fallback.
* **Changes are shown.** After the first live subscription a live stream with nothing under
  way means an up-to-date list, and every change is shown at last, unless a push or a refetch
  itself was lost (which the code accepts). Where streams never get through, polling shows every
  change of an article; it does not see changes of list or favourite, which leave
  `updated_at` alone.
* **The queue is durable, ordered and effectively once.** Through refusals, lost answers, restarts and
  overlapping triggers no operation disappears before its retries are used up, none overtakes another,
  and none is executed twice unless its success could not be recorded. Cached previews follow it,
  as long as nothing else is done to the article.
* **Pairing gives one user one token.** Whoever else types the code gets an error; a second token needs
  two polls that both read the grant before either deleted it; the extension keeps its token unless
  polling went astray.
* **Interrupted speech is resumed where it stopped.** Whole audio counts as complete, with its
  timestamps, however often the user changes articles and whoever takes the generation over.

The properties of the last three name their exceptions, and each exception is something the code
does (the history variable that records it is in brackets):

* coming online while a pass over older operations still runs starts nothing, and the operations queued
  since wait for the next time (`missed`); a retry timer armed after the watcher was disposed of
  burns a retry offline; an operation made online overtakes the queued ones on the same article, and a
  page read before a change overwrites it (`disturbed`); an app that dies after the request executes the
  operation again (`resent`);
* an identity without a row can sign in, but never link an article or claim a code (`rowless`);
  overlapping polls each get a token (`overlapped`), although the comment in
  `extension/service.go` (88-90) says that a grant is exchanged once;
  the popup asks for new codes every five seconds for as long as it is open, so that polling goes on
  beside a token and removes it when the codes expire (`astray`); `stopPolling` after an await stops a
  newer timer (`cut`); and when the answer that carries the token is lost, the grant is gone and the
  pairing has to begin again;
* taps quicker than `play()` leave a generator without a session or run one twice, and an older
  generation that fails cleans up the newer session (`hurries`); one that is disposed of in `addChunk`
  saves the audio and not its timestamps (`unstamped`); a crash between the audio and its `.meta` doubles a
  chunk, or makes a first chunk count as complete, and eviction deletes `.meta` before the audio,
  of whatever file, in use or not (`torn`).

Four runs show that the code does not do what its comments or documentation say:

* `pipeline_reclaim`: reclaiming happens once, at start, and only for entries idle for a minute. A
  backend that restarts sooner (or one whose handler failed once) never sees the
  result again. The comment on `reclaimPending` says it exists so that these events are not lost.
* `pipeline_late_text`: the text arriving after the phonemizer's error turns "failed"
  into "text-ready" for good, although the comment in `HandleScrapeResult` says the derived status is
  right under concurrency with the phonemizer.
* `pipeline_double_tap`: a double submission by one user can leave a row that is never
  submitted, because the two INSERTs of `CreateInitialArticle` are not one transaction.
* `updates_first_connect`: the first live connection is not followed by a refetch, since "the caller
  already has fresh data". An app that was opened offline has none.

### Bounds

`MaxTrouble` bounds how often something fails; one is enough to reach each
single failure at every point, including the retries it causes (failed extractions
are not counted: they may happen at every attempt). Batches of two and two threads give
batches with a rest, queued tasks and concurrent ones; the code's ten and four add
nothing but length. `MaxRetries` is the code's three in the safety and liveness runs, so
that giving up happens after real retries. Two articles interact only through
batches, cursors and the pools. Two failures at once and two concurrent requests together
with all worker failures are beyond a few minutes of TLC; the proofs below have none of
these bounds.

For the updates, two changes are needed for one preview to overtake another and for a full
buffer of one; the fallback after two breaks instead of three makes it reachable with two
troubles, and on a path without streaming breaks are free. The third trouble of the liveness run is
what makes a second polling loop possible (`MaxLoops` is 2).

`offline_queue`: two queued operations are an order, and while the first is executed the second can be
made; with two retries one failure is retried and the next gives up. The second trouble makes a failed
retry or another device meet a restart. The operations are one of each kind on one article;
articles share nothing but the queue. `pairing`: a second pair of codes is what polling can stray
to; the first user has her account from the start (`Early`), the second registers; which poll is which
does not matter (symmetry, and no temporal property is checked). `speech_audio`: two chunks are a first and a
last, a cache of three chunks is full with one article and half of another. The third play
takes over from a takeover. In behaviours where the user goes on before `play()` is done (at
most `MaxHurry` times) there are two plays only (`MaxHurried`). Articles are interchangeable (symmetry).

### Fairness

`FairSpec` assumes that processes run: a started request, the consumers, a worker's
tasks, its retry thread, the listener and its goroutines each take a step when they
can forever (weak fairness), and a stopped backend is restarted (docker's restart
policy). Threads of the operating system and goroutines justify it. Assumed *not* fair:
that users submit, that anything fails or crashes, and how an extraction turns out. A
worker whose every attempt fails is therefore covered: the retry thread gives it
up after `max_retries` deliveries. That entries which stay pending are at last idle is part
of the fairness of the retry thread.

For the updates, `FairSpec` assumes that requests are answered, that a stream which is
up delivers heartbeats and pushes (the server's loop serves both), that timers fire, that a
stream which does not get through breaks, and that the app comes back online and to the foreground.
Breaks, going offline or to the background, failures and changes are not fair.

The offline queue, pairing and speech modules state no fairness: their properties are safety.
`NeverForgotten` and `ShownCodeIsPolled` say that somebody is about to act, not that he does.

`EverySubmissionAnswered` is checked without `call` and `bff` trouble: with them it is
false, as `pipeline_reclaim` shows.

## Proofs

`ArticlePipelineProofs` proves, for every set of articles, users and requests, every batch size, number
of threads and retries, and any number of failures (`PipelineAssumption` is all it uses):

| theorem | property |
|---|---|
| `TypeCorrect` | `TypeOK`: with the types, that whatever is pending was delivered, whatever was delivered was published, and that threads and goroutines only hold delivered entries |
| `ReadyHasBothAlways` | `ReadyHasBoth` |
| `PipelineInvAlways` | `PipelineInv`, the inductive invariant |
| `AnsweredBeforeAckedAlways` | `AnsweredBeforeAcked` |
| `NothingStrandedAlways` | `NothingStranded` |

`AnsweredBeforeAcked` is not inductive: that the acknowledgement in `AckInput` or
`SweepDrop` is allowed depends on the task having answered *earlier*. `FinishedAnswered`
records it: every task past its first step has its answer in the output
stream. As streams only grow (`StreamsGrow`, `PublishedStays`), it stays so. Likewise
`NothingStranded` follows from `AppliedBeforeAcked`, which needs
`AppliedBeforeAcking`: who is about to acknowledge a result has applied it; and a row a
result was applied to never returns to "processing" (`StatusStays`). The conjunction
`PipelineInv` is inductive; TLC checks it in `pipeline_safety`.

The lemmas come in three layers: what the stream operators do
(`UndeliveredInterval`, `XAddAppends`, `XAddKeepsStreams`, `AckKeepsStreams`), which variables
each process leaves alone (the `...Frame` lemmas) and what any step can do to the
streams or the table (`NextLogStep`, `NextRowsStep`), and one preservation
lemma per conjunct, with one case per action that can disturb it.

`ArticleSubmissionProofs` and `ArticleContentProofs` continue, from the same assumption and these results:

| theorem | property |
|---|---|
| `SubmissionInvAlways` | `SubmissionInv`, the inductive invariant of ParseArticle |
| `SubmittedOnceAlways` | `SubmittedOnce` |
| `SubmittedUnlessTroubledAlways` | `SubmittedUnlessTroubled` |
| `ContentInvAlways` | `ContentInv`, the inductive invariant of the table |
| `StatusMatchesContentAlways` | `StatusMatchesContent` |
| `TextAwaitsPhonemesAlways` | `TextAwaitsPhonemes` |
| `ImplementsLifecycleAlways` | `ImplementsLifecycle`: the pipeline implements `ArticleLifecycle` |

`SubmittedOnce` holds because of what a call may assume between its INSERT and its XADD: it is the only
such call for its article (`OneSubmitter`) and nothing was submitted yet (`InsertedFirst`). An INSERT
finds no row, and every entry of a stream belongs to a row (`EntriesHaveRows`), so nothing of the
article can have been sent before. `SubmittedUnlessTroubled` needs the other direction, which is only true while
nothing fails and users differ: who has not linked its article yet is not linked by anybody else
(`LinksLast`), so its INSERT into `user_articles` succeeds and every row is submitted or about to be
(`RowsSubmitted`).

For the table, what a row holds, or a goroutine has read of it, was published before
(`ContentProduced`, `FailsOnError`); this is what makes `handleScrapeError`, which writes back what it read,
harmless for rows without an error, and `StatusMatchesContent` inductive. `TextAwaitsPhonemes` needs
acknowledgements again: the scraper's result with the text is an entry of the stream the phonemizer reads; if that one
is acknowledged the phonemizer has answered it (`AnsweredBeforeAcked`), and if its answer is acknowledged
too, the phonemes are in the row or an error was reported (`StoredBeforeAcked`).

The refinement is step by step. Initially the table is empty and nothing is produced. A step of the pipeline is
an INSERT (`Create`), one XADD of a worker (`Produce`), one of the handlers' updates
(`TextArrives`, `PhonemesArrive`, `Fails`), or leaves the table and the workers' output
streams alone (a stutter); the guards of the abstract actions are what `ContentInv` says of rows and goroutines.

`ArticleUpdatesProofs` proves, for any number of changes, any buffer, any number of failures before
the fallback, any number of polling loops and any amount of trouble (`UpdatesAssumption`):

| theorem | property |
|---|---|
| `UpdatesTypeCorrect` | `TypeOK`: with the types, that no buffer holds more than its size and that what is sent was committed and read |
| `ChannelInvAlways` | `ChannelInv`, the inductive invariant of channel and hub |
| `NeverDeafAlways` | `NeverDeaf` |
| `StreamsOrPollsAlways` | `StreamsOrPolls` |
| `DeliveryInvAlways` | `DeliveryInv`, the inductive invariant of deliveries |
| `CaughtUpSinceConnectedAlways` | `CaughtUpSinceConnected` |

`NeverDeaf` and `StreamsOrPolls` need each other and two facts more. Coming back online or to the
foreground starts a stream only if nothing else has to: `NoStreamAway` says that while the app was away
there was no stream and no timer, and no fallback while it was suspended. A fallback counts only if it polls:
`PollsOn` says that as long as polling is wanted some loop will ask again. Every check that ends
schedules the next one, and cancelling a timer happens only where polling stops or a new
loop starts.

`CaughtUpSinceConnected` speaks of the end of a journey; `DeliveryInv` says where the present version is
on the way: with a push that has not read yet or has read it, last in the queue of the stream, in an
answered or unanswered refetch, on the screen, or in a subscription whose first event will ask for a
page. A change starts a new journey with its push. The delicate step is a push that
read an older version: `YoungestLast` says that the push of the last change is then still to come (it
would have been counted as overtaken otherwise), so what it appends is not the end of the
story. That a reconnection really asks for its page uses `NoStreamAway`: the app is online.

`OfflineQueueProofs` proves, for any articles, calls, operations, retries, offline phases and
failures (`QueueAssumption`):

| theorem | property |
|---|---|
| `TypeCorrect` | `TypeOK` |
| `QueueIsDurable` | `NothingLost` |
| `QueueIsFIFO` | `InOrder` |
| `QueueRepeatsUnrecorded` | `OnceUnlessUnrecorded` |
| `QueueIsRemembered` | `NeverForgotten` |
| `CacheInvAlways` | `CacheInv`, the inductive invariant of the cache |
| `PreviewsFollowQueue` | `CacheFollowsQueue` |

A pass works through a snapshot while the queue grows behind it. `QueueInv` says that queued ids ascend
and that the snapshot is always the beginning of the queue, so whatever the pass does, it does to
the first row (`PassAtFirst`), and records it before it goes on. With that `NothingLost` and `InOrder` are
kept by each of the few steps that touch the queue (`QueueSteps` lists them; all others are
`Quiet`). `OnceInv` adds when the first row may already have been executed: while its answer is being
recorded, or afterwards if it is in `resent`. `ForgottenInv` adds that a pass of an app that is online
knows all that is queued, unless a trigger was dropped: so when it is over the queue is empty, or it stopped
early and set the timer. `AppOK` and `QueueOK` are the types.

What the queue comes to is stated without recursion: `WorkedOff(a, rows)` says that `rows[i]` is the row of the
backend after the first i queued operations. An induction over the queue is then not
needed: `OneMoreQueued` appends a row, `OneLessQueued` drops the first, `FirstExecuted` replaces it, and
`Replays` carries along that operations on other articles change nothing, which an induction would have
shown. `CacheInv` says of an article that nothing else happened to (not in `disturbed`) that one
operation at most is carried out on it, that the preview is what that operation makes of the one it found, and
that the one it found is what the queue comes to. So a failed call may restore what it found, an offline
one may append itself, and an online one, which is sent only when nothing is queued, may change the
backend's row at once. That a retry or a repeated operation does no harm is `AppliedAgain`: every operation is
idempotent. A page that was read when nothing was queued or carried out (`PageInv`) may overwrite the preview.

`PairingProofs` proves, for any users, number of polls, codes and failures
(`AccountsAssumption`, `PairingAssumption`):

| theorem | property |
|---|---|
| `TypeCorrect` | `TypeOK` |
| `AccountsKept` | `EveryAccountHasItsRow` |
| `Claims` | `OneClaimer` |
| `Tokens` | `OneTokenUnlessOverlapped` |
| `Kept` | `TokenKept` |
| `Shown` | `ShownCodeIsPolled` |

Most are about a poll that acts on what it has read. `ClaimInv`: what a poll
found of a claim stays true until it answers, since a claimed grant is never claimed again.
`PollInv`: a grant is held by one poll at most, which deletes it and takes its token, and where
the token is stored nobody holds it any more, unless two polls have found it. `FreshInv`: codes that
`startPairing` has not stored yet are in nobody's hands. With these `KeptInv` is inductive: an extension that
holds a token, and whose polling has not gone astray, polls nothing, and what is still under way is about the
codes the token was issued for; so none of it can reset the extension.
`Ticked`, `Looked` and `Deleted` state what the poll's three steps do.

`SpeechAudioProofs` and `SpeechFilesProofs` prove, for any articles, number of chunks, plays, cache size, hurry and
crashes (`SpeechAssumption`):

| theorem | property |
|---|---|
| `SpeechTypesAlways` | `TypeOK`, with `CallsInv`: where each call may be |
| `WaitingInvAlways` | `WaitingInv`, part of `SpeechInv` |
| `OneSessionAlways` | `OneSession` |
| `ShownIsHeardAlways` | `ShownIsHeard` |
| `SpeechInvAlways` | `SpeechInv`, the inductive invariant |
| `CompleteIsWholeAlways` | `CompleteIsWhole` |
| `HighlightsMatchAlways` | `HighlightsMatch` |

`SpeechInv` has three parts. `CallsInv` says what a call knows at each place of its program: which generator
it drives, and that one has been begun. `WaitingInv` is about a user who waits for `play()`: her calls are one at a
time until the generator runs, so a call that makes a session finds none, and a live generator is the session's; an
older call that ends or fails finds its own generator disposed of and touches nothing. It is all that
`OneSession` and `ShownIsHeard` need. `FilesInv` is about a key: at most one call that has not been cut off writes its
files (`OneWriter`), and its place determines how far audio, `.meta` and timestamps have come
(`AudioOf`, `StampsOf`); files nobody writes are a beginning of the article with `.meta` at its end, or
whole (`AudioAtRest`, `StampsAtRest`). A generation that resumes therefore starts where the audio ends. The
exceptions (`torn`, `unstamped`, `hurries`) are the history variables the properties name.

All safety invariants that the passing runs check, and the refinement, are proved. Only model-checked are the liveness
properties `EverySubmissionAnswered`, `ChangesAreShown` and `PollingShowsChanges`, since liveness under
fairness is out of the prover's reach; the four violated properties are refuted by TLC's counterexamples.

## Plan

Modelled: `ArticlePipeline`, `ArticleUpdates`, `OfflineQueue`, `Accounts` with `Pairing`, `SpeechAudio`.
What is left, in this order:

1. Pages beyond the first: `loadMore` against previews that are merged or change their place meanwhile.
2. An abstract specification of delivery (what a list owes its user) that `ArticleUpdates` implements.

## Not modelled

* Text processing (URL cleaning, HTML extraction and transformation, phonemization, sentence
  mapping): no state, no interleaving; their outcomes are choices of the modules that use them.
* Presentation, themes, settings, deployment files, configuration parsing, and the third-party
  services behind the code: Postgres, Redis and Kratos appear only as what the code's calls do to them.
* Generated protobuf code and data. Of the 10 600 lines of Go, about 7 000 are generated
  and 300 a table of tracking parameters; what the modules describe is spread over the other
  3 300 and over the Python, Dart and JavaScript.
* Sessions (login, logout, `GetSession`), which the backend passes on to Kratos.
* Keyset pagination and search, each one query; `loadMore` and pull to refresh.
* Reading progress: saved by one call that overwrites, and dropped when offline
  (`saveArticleProgress` is never queued).
* Schema upgrades of the app's database: `onUpgrade` drops the queue with everything else.
* Download of the speech model: one call at a time; a partial file left by a
  crash is taken for the model at the next start, a hazard with no interleaving to check.
* The broker's `Close`, `ensureGroups` at `"$"`, and a listener that ends because Redis is down at
  start: hazards without a property, described with their modules.
