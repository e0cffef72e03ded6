--------------------------- MODULE ArticleUpdates ---------------------------
(***************************************************************************)
(* How a change of an article reaches the list on a user's screen.  The    *)
(* backend publishes previews to the open streams of the user (broker); the *)
(* app keeps one stream, reconnects it when it breaks, polls when it       *)
(* breaks too often, probes whether streaming is back, and refetches its   *)
(* list after a reconnection (updates channel, updates hub, list view).    *)
(*                                                                         *)
(* One article of one user stands for all: its n-th change is version n,   *)
(* and the time of a change is its number, so "now" is article.version:    *)
(* the clocks of app and backend agree, to the change.  A step of the app  *)
(* is one callback: a Dart isolate runs them one at a time.                *)
(***************************************************************************)
EXTENDS Naturals, Sequences, FiniteSets

CONSTANTS
    MaxUpdates,         \* bound: how often the article changes
    Buffer,             \* subBufferSize
    MaxStreamFailures,  \* _defaultMaxStreamFailures
    MaxLoops,           \* bound: polling loops alive at the same time
    MayFail,            \* what may go wrong: some of Kind
    MaxTrouble          \* bound: how many times something goes wrong

\* What may go wrong: a push's query fails; a push finds the buffer full; a
\* preview or a page is used after a younger one; a stream breaks; the app is
\* offline, or in the background; a refetch, or a check for updates, fails.
Kind == {"publish", "full", "overtake", "stream", "offline", "background",
         "fetch", "check"}

ASSUME UpdatesAssumption ==
    /\ MaxUpdates \in Nat /\ Buffer \in Nat \ {0}
    /\ MaxStreamFailures \in Nat \ {0} /\ MaxLoops \in Nat \ {0}
    /\ MayFail \subseteq Kind /\ MaxTrouble \in Nat

VARIABLES
    article,  \* Postgres: its version, and the last that moved updated_at
    pubs,     \* publishArticleUpdate calls in progress
    queue,    \* what the broker has pushed and the app has not received
    app,      \* isOnlineProvider, in the background, whether streams get through
    ch,       \* the ArticleUpdatesChannel
    poll,     \* the hub's polling: _pollingActive, _checkTimer, _lastCheckedAt
    loops,    \* its timers and checks in flight
    fetch,    \* refetches of the list: asked for, and answered with a version
    view,     \* the version on the screen
    gap,      \* history: version at the subscription that was live first
    trouble   \* how often, and what, went wrong

vars == <<article, pubs, queue, app, ch, poll, loops, fetch, view, gap, trouble>>
server == <<article, pubs>>
polling == <<poll, loops>>

Version == 0..MaxUpdates
Loop == 1..MaxLoops
Connection == {"stream", "probe"}
Heartbeat == 0

\* A connection is asked for, then subscribed to the broker on the server, and
\* the stream is live once an event has come through it.
Channel == [stream : {"none", "opening", "waiting", "live"}, timer : BOOLEAN,
            failures : Nat, once : BOOLEAN,
            fallback : BOOLEAN, probe : {"none", "opening", "waiting"}]

\* A polling loop waits for its timer, has asked, got its answer, got its time.
Check == [pc : {"none", "timer", "asked", "found", "stamped"},
          since : Version, has : BOOLEAN]
NoCheck == [pc |-> "none", since |-> 0, has |-> FALSE]

TypeOK ==
    /\ article \in [version : Version, touched : Version]
    /\ pubs \subseteq [n : 1..article.version, pc : {"read", "send"}, seen : 0..article.version]
    /\ \A p \in pubs : p.pc = "send" => p.seen # 0
    /\ queue \in [Connection -> Seq(Version \ {Heartbeat})]
    /\ \A c \in Connection : Len(queue[c]) <= Buffer
    /\ app \in [online : BOOLEAN, suspended : BOOLEAN, streaming : BOOLEAN]
    /\ ch \in Channel
    /\ poll \in [active : BOOLEAN, timer : 0..MaxLoops, last : Version]
    /\ loops \in [Loop -> Check]
    /\ fetch \in [sent : Nat, answers : [Version -> Nat]]
    /\ view \in Version /\ gap \in Version
    /\ trouble \in [times : 0..MaxTrouble, kinds : SUBSET (Kind \cup {"unasked"})]

\* The app is opened: the list shows what it had cached and, when online,
\* fetches its first page while the hub starts its stream.  On some paths no
\* stream ever gets through.
Init ==
    /\ article = [version |-> 0, touched |-> 0]
    /\ pubs = {} /\ queue = [c \in Connection |-> <<>>]
    /\ app \in [online : BOOLEAN, suspended : {FALSE}, streaming : BOOLEAN]
    /\ ch = [stream |-> IF app.online THEN "opening" ELSE "none", timer |-> FALSE,
             failures |-> 0, once |-> FALSE, fallback |-> FALSE, probe |-> "none"]
    /\ poll = [active |-> FALSE, timer |-> 0, last |-> 0]
    /\ loops = [l \in Loop |-> NoCheck]
    /\ fetch = [sent |-> IF app.online THEN 1 ELSE 0, answers |-> [v \in Version |-> 0]]
    /\ view = 0 /\ gap = 0 /\ trouble = [times |-> 0, kinds |-> {}]

\* The step counts as so many troubles; none for most steps.
Trouble(kinds) ==
    /\ kinds \subseteq MayFail
    /\ trouble.times + Cardinality(kinds) <= MaxTrouble
    /\ trouble' = [times |-> trouble.times + Cardinality(kinds),
                   kinds |-> trouble.kinds \cup kinds]
If(condition, kind) == IF condition THEN {kind} ELSE {}
Spared(kinds) == trouble.kinds \cap kinds = {}

----------------------------------------------------------------------------
(* The backend: publishArticleUpdate, MemoryBroker, StreamArticleUpdates. *)

\* UpdateArticle, ApplyScrapeResult and ApplyPhonemizerResult set updated_at;
\* SetArticleState changes the user's link only.  The caller publishes next.
Commit(touches) ==
    /\ article.version < MaxUpdates
    /\ LET n == article.version + 1 IN
       /\ article' = [version |-> n, touched |-> IF touches THEN n ELSE article.touched]
       /\ pubs' = pubs \cup {[n |-> n, pc |-> "read", seen |-> 0]}
    /\ UNCHANGED <<queue, app, ch, polling, fetch, view, gap, trouble>>

\* GetArticlePreviewForUser ...
PubRead(p) ==
    /\ p \in pubs /\ p.pc = "read"
    /\ pubs' = (pubs \ {p}) \cup {[p EXCEPT !.pc = "send", !.seen = article.version]}
    /\ UNCHANGED <<article, queue, app, ch, polling, fetch, view, gap, trouble>>

\* Mutant: a push that waits for room instead of being dropped, without a bound.
PubSend_Unbounded(p) ==
    /\ p \in pubs /\ p.pc = "send"
    /\ Trouble(If(\E r \in pubs : r.pc = "send" /\ r.seen < p.seen, "overtake"))
    /\ queue' = [c \in Connection |->
         IF ch[c] \in {"waiting", "live"} THEN Append(queue[c], p.seen) ELSE queue[c]]
    /\ pubs' = pubs \ {p}
    /\ UNCHANGED <<article, app, ch, polling, fetch, view, gap>>

\* ... and Publish to every subscription of the user; a full one misses it.
\* Who read first may be the last to send.
PubSend(p) ==
    /\ p \in pubs /\ p.pc = "send"
    /\ LET listening == {c \in Connection : ch[c] \in {"waiting", "live"}}
           room == {c \in listening : Len(queue[c]) < Buffer}
       IN  /\ Trouble(If(\E r \in pubs : r.pc = "send" /\ r.seen < p.seen, "overtake")
                        \cup If(room # listening, "full"))
           /\ queue' = [c \in Connection |->
                IF c \in room THEN Append(queue[c], p.seen) ELSE queue[c]]
    /\ pubs' = pubs \ {p}
    /\ UNCHANGED <<article, app, ch, polling, fetch, view, gap>>

\* Best effort: a failed query is logged.
PubFail(p) ==
    /\ p \in pubs /\ p.pc = "read"
    /\ Trouble({"publish"})
    /\ pubs' = pubs \ {p}
    /\ UNCHANGED <<article, queue, app, ch, polling, fetch, view, gap>>

\* The request has arrived: Subscribe.
Subscribe(c) ==
    /\ ch[c] = "opening" /\ app.streaming
    /\ ch' = [ch EXCEPT ![c] = "waiting"]
    /\ gap' = IF c = "stream" /\ ~ch.once THEN article.version ELSE gap
    /\ UNCHANGED <<server, queue, app, polling, fetch, view, trouble>>

----------------------------------------------------------------------------
(* ArticleUpdatesChannel *)

\* _cancelStream, start: what they leave of the channel.
CancelStream(c) == [c EXCEPT !.stream = "none", !.timer = FALSE]
Start(c) ==
    IF app'.suspended THEN c
    ELSE IF ~app'.online THEN CancelStream(c)
    ELSE [CancelStream(c) EXCEPT !.stream = "opening"]
ResetBackoff(c) == [c EXCEPT !.failures = 0]

\* _tryExitFallback: one probe at a time.
TryExitFallback(c) == [c EXCEPT !.probe = IF @ = "none" THEN "opening" ELSE @]

\* A connection that was cancelled or replaced loses what was on its way.
KeepQueues ==
    queue' = [c \in Connection |-> IF ch'[c] \in {"none", "opening"} THEN <<>> ELSE queue[c]]

CancelTimer == IF poll.timer = 0 THEN loops ELSE [loops EXCEPT ![poll.timer] = NoCheck]

\* The hub's _startChecking and _stopChecking, on pollingMode.
StartChecking ==
    \E l \in Loop :
        /\ CancelTimer[l].pc = "none"
        /\ \A k \in 1..(l - 1) : CancelTimer[k].pc # "none"
        /\ loops' = [CancelTimer EXCEPT ![l].pc = "timer"]
        /\ poll' = [poll EXCEPT !.active = TRUE, !.timer = l]
StopChecking ==
    /\ loops' = CancelTimer
    /\ poll' = [poll EXCEPT !.active = FALSE, !.timer = 0]

\* The view asks for its first page; when the app is offline it does not.
Refetch ==
    IF app.online
    THEN fetch' = [fetch EXCEPT !.sent = @ + 1] /\ UNCHANGED trouble
    ELSE trouble' = [trouble EXCEPT !.kinds = @ \cup {"unasked"}] /\ UNCHANGED fetch

\* The event a connection delivers next: a heartbeat or the oldest push.
Arrives(c, v) ==
    \/ v = Heartbeat /\ UNCHANGED queue
    \/ queue[c] # <<>> /\ v = Head(queue[c]) /\ queue' = [queue EXCEPT ![c] = Tail(@)]

\* _onPushedPreview and the view's _mergePreview.
Shown(v) == IF v = Heartbeat THEN view ELSE v
Seen(p, v) == IF v = Heartbeat THEN p ELSE [p EXCEPT !.last = article.version]

\* Mutant: a reconnection is taken for as good as the stream before it.
StreamConnects_NoResync(v) ==
    /\ ch.stream = "waiting" /\ Arrives("stream", v)
    /\ ch' = [ResetBackoff(ch) EXCEPT !.stream = "live", !.once = TRUE]
    /\ view' = Shown(v) /\ poll' = Seen(poll, v)
    /\ UNCHANGED <<server, app, loops, fetch, gap, trouble>>

\* The first event of a subscription proves it is live: _onConnected.
StreamConnects(v) ==
    /\ ch.stream = "waiting" /\ Arrives("stream", v)
    /\ ch' = [ResetBackoff(ch) EXCEPT !.stream = "live", !.once = TRUE]
    /\ IF ch.once THEN Refetch ELSE UNCHANGED <<fetch, trouble>>
    /\ view' = Shown(v) /\ poll' = Seen(poll, v)
    /\ UNCHANGED <<server, app, loops, gap>>

StreamEvent(v) ==
    /\ ch.stream = "live" /\ Arrives("stream", v)
    /\ view' = Shown(v) /\ poll' = Seen(poll, v)
    /\ UNCHANGED <<server, app, ch, loops, fetch, gap, trouble>>

\* _handleDisconnect: reconnect after a while, or fall back to polling.
StreamBreaks ==
    /\ ch.stream # "none"
    /\ Trouble(If(app.streaming, "stream"))
    /\ LET failed == [CancelStream(ch) EXCEPT !.failures = @ + 1]
       IN  IF failed.failures < MaxStreamFailures
           THEN ch' = [failed EXCEPT !.timer = TRUE] /\ UNCHANGED polling
           ELSE ch' = [failed EXCEPT !.fallback = TRUE] /\ StartChecking
    /\ KeepQueues
    /\ UNCHANGED <<server, app, fetch, view, gap>>

ReconnectTimer ==
    /\ ch.timer
    /\ UNCHANGED app
    /\ ch' = IF app.online THEN Start(ch) ELSE [ch EXCEPT !.timer = FALSE]
    /\ KeepQueues
    /\ UNCHANGED <<server, polling, fetch, view, gap, trouble>>

\* The periodic timer of the fallback.
ProbeTimer ==
    /\ ch.fallback /\ app.online /\ ch.probe = "none"
    /\ ch' = TryExitFallback(ch)
    /\ UNCHANGED <<server, queue, app, polling, fetch, view, gap, trouble>>

\* Mutant: the probe's first event ends the fallback, and that is all.
ProbeEvent_NoStart(v) ==
    /\ ch.probe = "waiting" /\ (v = Heartbeat \/ (queue["probe"] # <<>> /\ v = Head(queue["probe"])))
    /\ ch' = [ch EXCEPT !.probe = "none", !.fallback = FALSE]
    /\ KeepQueues
    /\ StopChecking
    /\ view' = Shown(v)
    /\ UNCHANGED <<server, app, fetch, gap, trouble>>

\* The probe's first event ends the fallback; the stream is opened anew.
ProbeEvent(v) ==
    /\ ch.probe = "waiting" /\ (v = Heartbeat \/ (queue["probe"] # <<>> /\ v = Head(queue["probe"])))
    /\ UNCHANGED app
    /\ ch' = Start([ch EXCEPT !.probe = "none", !.fallback = FALSE])
    /\ KeepQueues
    /\ IF ch.fallback
       THEN loops' = CancelTimer
            /\ poll' = Seen([poll EXCEPT !.active = FALSE, !.timer = 0], v)
       ELSE poll' = Seen(poll, v) /\ UNCHANGED loops
    /\ view' = Shown(v)
    /\ UNCHANGED <<server, fetch, gap, trouble>>

ProbeBreaks ==
    /\ ch.probe # "none"
    /\ Trouble(If(app.streaming, "stream"))
    /\ ch' = [ch EXCEPT !.probe = "none"]
    /\ KeepQueues
    /\ UNCHANGED <<server, app, polling, fetch, view, gap>>

\* Mutant: offline, the pending reconnection stays.
GoOffline_KeepsTimer ==
    /\ app.online /\ Trouble({"offline"})
    /\ app' = [app EXCEPT !.online = FALSE]
    /\ ch' = [ch EXCEPT !.stream = "none"]
    /\ KeepQueues
    /\ UNCHANGED <<server, polling, fetch, view, gap>>

\* onConnectivity
GoOffline ==
    /\ app.online /\ Trouble({"offline"})
    /\ app' = [app EXCEPT !.online = FALSE]
    /\ ch' = CancelStream(ch)
    /\ KeepQueues
    /\ UNCHANGED <<server, polling, fetch, view, gap>>

\* Mutant: coming back online, only the fallback is left.
GoOnline_NoStart ==
    /\ ~app.online
    /\ app' = [app EXCEPT !.online = TRUE]
    /\ ch' = IF ch.fallback THEN TryExitFallback(ResetBackoff(ch)) ELSE ResetBackoff(ch)
    /\ KeepQueues
    /\ UNCHANGED <<server, polling, fetch, view, gap, trouble>>

GoOnline ==
    /\ ~app.online
    /\ app' = [app EXCEPT !.online = TRUE]
    /\ ch' = IF ch.fallback THEN TryExitFallback(ResetBackoff(ch)) ELSE Start(ResetBackoff(ch))
    /\ KeepQueues
    /\ UNCHANGED <<server, polling, fetch, view, gap, trouble>>

\* Mutant: the channel stays in the fallback while the hub stops polling.
Suspend_StaysInFallback ==
    /\ ~app.suspended /\ Trouble({"background"})
    /\ app' = [app EXCEPT !.suspended = TRUE]
    /\ ch' = [CancelStream(ch) EXCEPT !.probe = "none"]
    /\ StopChecking
    /\ KeepQueues
    /\ UNCHANGED <<server, fetch, view, gap>>

\* suspend and resume, of the hub and of its channel.
Suspend ==
    /\ ~app.suspended /\ Trouble({"background"})
    /\ app' = [app EXCEPT !.suspended = TRUE]
    /\ ch' = [CancelStream(ch) EXCEPT !.probe = "none", !.fallback = FALSE]
    /\ StopChecking
    /\ KeepQueues
    /\ UNCHANGED <<server, fetch, view, gap>>

Resume ==
    /\ app.suspended
    /\ app' = [app EXCEPT !.suspended = FALSE]
    /\ ch' = Start(ResetBackoff(ch))
    /\ KeepQueues
    /\ UNCHANGED <<server, polling, fetch, view, gap, trouble>>

----------------------------------------------------------------------------
(* The hub's polling: _performCheck, and the server's CheckForUpdates. *)

\* _scheduleNextCheck at the end of a check: the newest timer is the one that
\* will be cancelled.
ScheduleNext(l, p) ==
    IF p.active
    THEN loops' = [loops EXCEPT ![l] = [NoCheck EXCEPT !.pc = "timer"]]
         /\ poll' = [p EXCEPT !.timer = l]
    ELSE loops' = [loops EXCEPT ![l] = NoCheck] /\ poll' = p

\* The timer fires: ask what has changed since _lastCheckedAt.
CheckAsk(l) ==
    /\ loops[l].pc = "timer" /\ app.online
    /\ loops' = [loops EXCEPT ![l] = [NoCheck EXCEPT !.pc = "asked", !.since = poll.last]]
    /\ poll' = IF poll.timer = l THEN [poll EXCEPT !.timer = 0] ELSE poll
    /\ UNCHANGED <<server, queue, app, ch, fetch, view, gap, trouble>>

\* A timer that fires offline only waits again.
CheckLater(l) ==
    /\ loops[l].pc = "timer" /\ ~app.online
    /\ ScheduleNext(l, poll)
    /\ UNCHANGED <<server, queue, app, ch, fetch, view, gap, trouble>>

\* HasUpdatedArticles looks at updated_at of the articles; then the server's time, ...
CheckQuery(l) ==
    /\ loops[l].pc = "asked"
    /\ loops' = [loops EXCEPT ![l].pc = "found", ![l].has = article.touched > loops[l].since]
    /\ UNCHANGED <<server, queue, app, ch, poll, fetch, view, gap, trouble>>

CheckStamp(l) ==
    /\ loops[l].pc = "found"
    /\ loops' = [loops EXCEPT ![l].pc = "stamped", ![l].since = article.version]
    /\ UNCHANGED <<server, queue, app, ch, poll, fetch, view, gap, trouble>>

\* Mutant: the time of the answer counts, whatever the answer.
CheckDone_Advances(l) ==
    /\ loops[l].pc = "stamped"
    /\ ScheduleNext(l, [poll EXCEPT !.last = loops[l].since])
    /\ IF loops[l].has THEN Refetch ELSE UNCHANGED <<fetch, trouble>>
    /\ UNCHANGED <<server, queue, app, ch, view, gap>>

\* ... and the views refetch if there is something new.
CheckDone(l) ==
    /\ loops[l].pc = "stamped"
    /\ IF loops[l].has
       THEN ScheduleNext(l, [poll EXCEPT !.last = loops[l].since]) /\ Refetch
       ELSE ScheduleNext(l, poll) /\ UNCHANGED <<fetch, trouble>>
    /\ UNCHANGED <<server, queue, app, ch, view, gap>>

CheckFails(l) ==
    /\ loops[l].pc \in {"asked", "found", "stamped"}
    /\ Trouble({"check"})
    /\ ScheduleNext(l, poll)
    /\ UNCHANGED <<server, queue, app, ch, fetch, view, gap>>

(* The list view: _fetchInitialPage and _resync replace its state. *)

\* Mutant: the page is answered from what the app had.
FetchAnswer_Cached ==
    /\ fetch.sent > 0
    /\ fetch' = [fetch EXCEPT !.sent = @ - 1, !.answers[view] = @ + 1]
    /\ UNCHANGED <<server, queue, app, ch, polling, view, gap, trouble>>

\* The page is read on the server ...
FetchAnswer ==
    /\ fetch.sent > 0
    /\ fetch' = [fetch EXCEPT !.sent = @ - 1, !.answers[article.version] = @ + 1]
    /\ UNCHANGED <<server, queue, app, ch, polling, view, gap, trouble>>

\* ... and shown, which may be after a push, or a page, that is younger.
FetchApply(v) ==
    /\ fetch.answers[v] > 0
    /\ Trouble(If(v < view, "overtake"))
    /\ view' = v
    /\ fetch' = [fetch EXCEPT !.answers[v] = @ - 1]
    /\ UNCHANGED <<server, queue, app, ch, polling, gap>>

\* A failed refetch leaves the list as it is.
FetchFails ==
    /\ fetch.sent > 0
    /\ Trouble({"fetch"})
    /\ fetch' = [fetch EXCEPT !.sent = @ - 1]
    /\ UNCHANGED <<server, queue, app, ch, polling, view, gap>>

----------------------------------------------------------------------------

PubNext == \E p \in pubs : PubRead(p) \/ PubSend(p) \/ PubFail(p)
StreamNext == \E v \in Version : StreamConnects(v) \/ StreamEvent(v)
PushNext == \E v \in Version \ {Heartbeat} : StreamConnects(v) \/ StreamEvent(v)
ProbeNext == \E v \in Version : ProbeEvent(v)
CheckNext(l) ==
    CheckAsk(l) \/ CheckLater(l) \/ CheckQuery(l) \/ CheckStamp(l) \/ CheckDone(l) \/ CheckFails(l)
FetchNext == FetchAnswer \/ (\E v \in Version : FetchApply(v)) \/ FetchFails

Next ==
    \/ \E touches \in BOOLEAN : Commit(touches)
    \/ PubNext
    \/ \E c \in Connection : Subscribe(c)
    \/ StreamNext \/ StreamBreaks \/ ReconnectTimer
    \/ ProbeTimer \/ ProbeNext \/ ProbeBreaks
    \/ GoOffline \/ GoOnline \/ Suspend \/ Resume
    \/ \E l \in Loop : CheckNext(l)
    \/ FetchNext

Spec == Init /\ [][Next]_vars

\* Calls are answered, heartbeats and pushes arrive, timers fire, a stream that
\* does not get through breaks, and the app comes back online and to the
\* foreground.
Fairness ==
    /\ WF_vars(PubNext)
    /\ \A c \in Connection : WF_vars(Subscribe(c))
    /\ WF_vars(StreamNext) /\ WF_vars(PushNext) /\ WF_vars(ReconnectTimer)
    /\ WF_vars(~app.streaming /\ StreamBreaks)
    /\ WF_vars(ProbeTimer) /\ WF_vars(ProbeNext)
    /\ WF_vars(GoOnline) /\ WF_vars(Resume)
    /\ \A l \in Loop : WF_vars(CheckNext(l))
    /\ WF_vars(FetchNext)

FairSpec == Spec /\ Fairness

----------------------------------------------------------------------------
(* Properties *)

\* However breaks, timers, probes, connectivity changes and suspensions
\* overlap, an app that is online and in the foreground has a stream, or a
\* reconnection scheduled, or polls: it never goes deaf.
NeverDeaf ==
    app.online /\ ~app.suspended =>
        \/ ch.stream # "none"
        \/ ch.timer
        \/ ch.fallback /\ \E l \in Loop : loops[l].pc # "none"

\* Streaming and the polling fallback exclude each other, and the hub polls
\* exactly while its channel is in the fallback.
StreamsOrPolls ==
    /\ ch.fallback => ch.stream = "none" /\ ~ch.timer
    /\ poll.active <=> ch.fallback

\* What makes the two inductive.  A poll that is wanted has a loop that will ask
\* again, however checks in flight, cancelled timers and new loops overlap; and
\* a channel that is offline or suspended has given up its stream and its timer.
PollsOn == poll.active => \E l \in Loop : loops[l].pc # "none"
NoStreamAway ==
    /\ ~app.online \/ app.suspended => ch.stream = "none" /\ ~ch.timer
    /\ app.suspended => ~ch.fallback /\ ch.probe = "none"
ChannelInv == PollsOn /\ NoStreamAway /\ StreamsOrPolls /\ NeverDeaf

\* While the stream is live and nothing is under way, the screen shows the
\* present version: whatever was missed while disconnected was refetched.
Quiet ==
    /\ pubs = {} /\ queue["stream"] = <<>>
    /\ fetch.sent = 0 /\ \A v \in Version : fetch.answers[v] = 0
CaughtUp == ch.stream = "live" /\ Quiet => view = article.version

\* The same, but for changes older than the first live subscription, which is
\* not followed by a refetch, and unless a push or a refetch went wrong.
Lossless == Spared({"publish", "full", "overtake", "fetch"})
CaughtUpSinceConnected ==
    ch.stream = "live" /\ Quiet /\ Lossless => view = article.version \/ article.version <= gap

\* Why: as long as the stream is subscribed, the present version is with a push
\* that is not sent yet, is the last of the queue, or, with an empty queue, is
\* on the screen or asked for.
UnderWay == \E p \in pubs : p.pc = "read" \/ p.seen = article.version
Settling ==
    \/ view = article.version
    \/ fetch.sent > 0
    \/ fetch.answers[article.version] > 0
    \/ ch.stream = "waiting" /\ ch.once
Carried ==
    LET q == queue["stream"]
    IN  \/ UnderWay
        \/ q # <<>> /\ q[Len(q)] = article.version
        \/ q = <<>> /\ Settling
\* Nothing is younger than the article, a preview is not older than the change
\* it is about, a connection not subscribed has nothing on its way, and an older
\* preview is not the last one to be sent.
FromThePast ==
    /\ view <= article.version
    /\ \A v \in Version : fetch.answers[v] > 0 => v <= article.version
    /\ \A c \in Connection : \A i \in 1..Len(queue[c]) : queue[c][i] <= article.version
    /\ \A p \in pubs : p.pc = "send" => p.n <= p.seen
    /\ ch.stream \in {"none", "opening"} => queue["stream"] = <<>>
YoungestLast ==
    \A p \in pubs : p.pc = "send" /\ p.seen < article.version
                     => \E r \in pubs : r.n = article.version
DeliveryInv ==
    /\ FromThePast
    /\ Lossless => YoungestLast
    /\ Lossless /\ ch.stream \in {"waiting", "live"}
        => Carried \/ article.version <= gap

\* A change made after the first live subscription is shown at last, through
\* any breaks, polling, offline and background phases.
ChangesAreShown ==
    \A v \in 1..MaxUpdates :
        ch.once /\ gap < v /\ v <= article.version ~> view >= v \/ ~Lossless

\* Where no stream gets through, polling shows every change of the article
\* itself, unless a refetch went wrong or was not made.
PollingShowsChanges ==
    \A v \in 1..MaxUpdates :
        ~app.streaming /\ v <= article.touched
            ~> view >= v \/ ~Spared({"overtake", "fetch", "unasked"})
=============================================================================
