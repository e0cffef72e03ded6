---------------------------- MODULE OfflineQueue ----------------------------
(***************************************************************************)
(* What the user does to an article in the app - save it, archive it, make *)
(* it a favourite, delete it - while the network comes and goes.  The app  *)
(* changes its cached preview at once and then either calls the backend or *)
(* queues the operation (ArticleRepository); the queue is worked off when  *)
(* the app comes online (PendingOperationsProcessor); pages and pushed     *)
(* previews overwrite cached rows whenever they arrive; the backend keeps  *)
(* one row per user and article (user_articles).                           *)
(*                                                                         *)
(* One user.  A row is what the user can change of it, its list and its    *)
(* favourite flag.  Dart runs one callback at a time, and the database     *)
(* executes its statements in the order they were issued: a step is the    *)
(* code between two awaits together with the statement it issues.          *)
(***************************************************************************)
EXTENDS Naturals, Sequences, FiniteSets, SequencesExt

CONSTANTS
    Article,
    Call,       \* operations the app may be carrying out at the same time
    Read,       \* pages and pushed previews that may be on their way to the app
    Operations, \* what the user may do: some of Operation
    MaxQueued,  \* bound: how many operations are ever queued
    MaxRetries, \* _maxRetries
    MaxOffline, \* bound: how often the app goes offline
    MayFail,    \* what may go wrong: some of Kind
    MaxTrouble  \* bound: how many times something goes wrong

\* What may go wrong: a request is not executed; its answer is lost; the app
\* dies; another device changes an article.
Kind == {"refused", "lost", "crash", "elsewhere"}

VARIABLES
    server,     \* user_articles: the user's row for each article, or Gone
    cache,      \* article_previews in the app: the same
    ops,        \* pending_operations: the rows with status "pending", by createdAt,
                \* which is their order: the clock is not set back
    failed,     \* pending_operations: the ids with status "failed"
    issued,     \* pending_operations: the last id
    pass,       \* processQueue: its snapshot of the queue, and where it is
    timer,      \* _retryTimer, and how many timers nobody can cancel any more
    online,     \* isOnlineProvider
    refetch,    \* articlesProvider was invalidated and has not been rebuilt
    call,       \* the operations being carried out
    read,       \* the pages and previews on their way
    applied,    \* history: the queued operations the backend executed, in order
    resent,     \* history: those whose success the app did not get to record
    disturbed,  \* history: articles that something else was done to meanwhile
    missed,     \* history: coming online was ignored, with new operations queued
    offlines,   \* how often the app went offline
    trouble     \* how often something went wrong

vars == <<server, cache, ops, failed, issued, pass, timer, online, refetch,
          call, read, applied, resent, disturbed, missed, offlines, trouble>>
queue == <<ops, failed, issued>>
history == <<applied, resent, offlines>>

Row == [list : {"inbox", "archive"}, fav : {"yes", "no"}]
Gone == [list |-> "gone", fav |-> "gone"]
Fresh == [list |-> "inbox", fav |-> "no"]
Rows == Row \cup {Gone}

\* An operation; "null" leaves its column alone.  A screen sets one at a time.
Operation ==
    [type : {"parse_article", "delete_article"}, art : Article,
     list : {"null"}, fav : {"null"}]
    \cup {o \in [type : {"set_article_state"}, art : Article,
                 list : {"inbox", "archive", "null"}, fav : {"yes", "no", "null"}] :
             (o.list = "null") # (o.fav = "null")}

ASSUME QueueAssumption ==
    /\ Operations \subseteq Operation
    /\ MaxQueued \in Nat /\ MaxRetries \in Nat \ {0} /\ MaxOffline \in Nat
    /\ MayFail \subseteq Kind /\ MaxTrouble \in Nat

OpId == 1..MaxQueued
Pending == [id : OpId, op : Operation, retries : 0..MaxRetries - 1]
Idle == [pc |-> "idle", todo |-> <<>>, processed |-> FALSE]
NoRead == [on |-> FALSE, rows |-> [a \in Article |-> Gone],
           clean |-> [a \in Article |-> FALSE]]
NoOp == [type |-> "none", art |-> "none", list |-> "null", fav |-> "null"]
NoCall == [pc |-> "none", op |-> NoOp, previous |-> Gone]
Slot == Read \cup {"list"}
Pass == [pc : {"idle", "call", "ok", "error"}, todo : Seq(Pending), processed : BOOLEAN]
Carried == [pc : {"none", "read", "written", "sent", "error"},
            op : Operation \cup {NoOp}, previous : Rows]
Page == [on : BOOLEAN, rows : [Article -> Rows], clean : [Article -> BOOLEAN]]

TypeOK ==
    /\ server \in [Article -> Rows] /\ cache \in [Article -> Rows]
    /\ ops \in Seq(Pending) /\ failed \subseteq OpId /\ issued \in 0..MaxQueued
    /\ pass \in Pass /\ (pass.pc = "idle") = (pass.todo = <<>>)
    /\ timer \in [set : BOOLEAN, stray : 0..MaxTrouble]
    /\ online \in BOOLEAN /\ refetch \in BOOLEAN
    /\ call \in [Call -> Carried] /\ read \in [Slot -> Page]
    /\ applied \in Seq(OpId) /\ resent \subseteq OpId
    /\ disturbed \subseteq Article /\ missed \in BOOLEAN
    /\ offlines \in 0..MaxOffline /\ trouble \in 0..MaxTrouble

Init ==
    /\ server = [a \in Article |-> Fresh] /\ cache = server
    /\ ops = <<>> /\ failed = {} /\ issued = 0
    /\ pass = Idle /\ timer = [set |-> FALSE, stray |-> 0]
    /\ online = TRUE /\ refetch = FALSE
    /\ call = [c \in Call |-> NoCall] /\ read = [r \in Slot |-> NoRead]
    /\ applied = <<>> /\ resent = {} /\ disturbed = {} /\ missed = FALSE
    /\ offlines = 0 /\ trouble = 0

Trouble(kind) ==
    kind \in MayFail /\ trouble < MaxTrouble /\ trouble' = trouble + 1

----------------------------------------------------------------------------
(* The backend. *)

\* What an operation does to the user's row: ParseArticle links an article that
\* exists, DeleteArticle removes the link, SetArticleState keeps the columns it
\* is given no value for; the last two succeed also when there is no row.
Apply(op, row) ==
    CASE op.type = "parse_article" -> IF row = Gone THEN Fresh ELSE row
      [] op.type = "delete_article" -> Gone
      [] op.type = "set_article_state" /\ row = Gone -> Gone
      [] op.type = "set_article_state" /\ row # Gone ->
            [list |-> IF op.list = "null" THEN row.list ELSE op.list,
             fav |-> IF op.fav = "null" THEN row.fav ELSE op.fav]

Execute(op) == server' = [server EXCEPT ![op.art] = Apply(op, @)]

\* The user's other devices, or the browser extension.
Elsewhere(op) ==
    /\ Trouble("elsewhere")
    /\ Execute(op)
    /\ disturbed' = disturbed \cup {op.art}
    /\ read' = [r \in Slot |-> [read[r] EXCEPT !.clean[op.art] = FALSE]]
    /\ UNCHANGED <<cache, queue, pass, timer, online, refetch, call, history, missed>>

----------------------------------------------------------------------------
(* Pages and pushed previews. *)

QueuedFor(a) == \E i \in DOMAIN ops : ops[i].op.art = a
CarriedOut(a) == \E c \in Call : call[c].pc # "none" /\ call[c].op.art = a

\* History: a row read now stays true until the next change of its article.
Snapshot(S) ==
    [on |-> TRUE, rows |-> [a \in Article |-> IF a \in S THEN server[a] ELSE Gone],
     clean |-> [a \in Article |-> ~QueuedFor(a) /\ ~CarriedOut(a)]]

\* The backend answers a page or an article, or pushes a preview.
Serve(r, S) ==
    /\ ~read[r].on
    /\ read' = [read EXCEPT ![r] = Snapshot(S)]
    /\ UNCHANGED <<server, cache, queue, pass, timer, online, refetch, call,
                   history, disturbed, missed, trouble>>

\* The invalidated list is built again; offline it shows what is cached.
Refetch ==
    /\ refetch /\ ~read["list"].on
    /\ refetch' = FALSE
    /\ read' = IF online THEN [read EXCEPT !["list"] = Snapshot(Article)] ELSE read
    /\ UNCHANGED <<server, cache, queue, pass, timer, online, call, history,
                   disturbed, missed, trouble>>

\* replacePreviews, upsertPreview: rows are added or replaced, none is removed.
Store(r) ==
    LET got == {a \in Article : read[r].rows[a] # Gone} IN
    /\ read[r].on
    /\ cache' = [a \in Article |-> IF a \in got THEN read[r].rows[a] ELSE cache[a]]
    /\ disturbed' = {a \in Article : IF a \in got THEN ~read[r].clean[a]
                                                  ELSE a \in disturbed}
    /\ read' = [read EXCEPT ![r] = NoRead]
    /\ UNCHANGED <<server, queue, pass, timer, online, refetch, call, history,
                   missed, trouble>>

----------------------------------------------------------------------------
(* ArticleRepository: parseArticle, deleteArticle, setArticleState. *)

\* The preview is read; without one setArticleState gives up.
Begin(c, op) ==
    /\ call[c].pc = "none"
    /\ op.type = "set_article_state" => cache[op.art] # Gone
    /\ call' = [call EXCEPT ![c] =
                  [pc |-> IF op.type = "parse_article" THEN "written" ELSE "read",
                   op |-> op, previous |-> cache[op.art]]]
    /\ disturbed' = IF CarriedOut(op.art) THEN disturbed \cup {op.art} ELSE disturbed
    /\ read' = [r \in Slot |-> [read[r] EXCEPT !.clean[op.art] = FALSE]]
    /\ UNCHANGED <<server, cache, queue, pass, timer, online, refetch, history,
                   missed, trouble>>

\* The optimistic change: deletePreview, updateArticleFlags.
Write(c) ==
    LET op == call[c].op IN
    /\ call[c].pc = "read"
    /\ cache' = [cache EXCEPT ![op.art] = Apply(op, @)]
    /\ call' = [call EXCEPT ![c].pc = "written"]
    /\ UNCHANGED <<server, queue, pass, timer, online, refetch, read, history,
                   disturbed, missed, trouble>>

\* _isOnline: the request.  It does not wait for what is queued.
Send(c) ==
    LET op == call[c].op IN
    /\ call[c].pc = "written" /\ online
    /\ call' = [call EXCEPT ![c].pc = "sent"]
    /\ disturbed' = IF QueuedFor(op.art) THEN disturbed \cup {op.art} ELSE disturbed
    /\ UNCHANGED <<server, cache, queue, pass, timer, online, refetch, read,
                   history, missed, trouble>>

\* Offline: insertPendingOp, issued with no await after the test.
Enqueue(c) ==
    /\ call[c].pc = "written" /\ ~online
    /\ issued < MaxQueued
    /\ issued' = issued + 1
    /\ ops' = Append(ops, [id |-> issued + 1, op |-> call[c].op, retries |-> 0])
    /\ call' = [call EXCEPT ![c] = NoCall]
    /\ UNCHANGED <<server, cache, failed, pass, timer, online, refetch, read,
                   history, disturbed, missed, trouble>>

Served(c) ==
    LET op == call[c].op IN
    /\ call[c].pc = "sent"
    /\ Execute(op)
    /\ \/ /\ call' = [call EXCEPT ![c] = NoCall]
          /\ UNCHANGED <<disturbed, trouble>>
       \/ /\ Trouble("lost")
          /\ call' = [call EXCEPT ![c].pc = "error"]
          /\ disturbed' = disturbed \cup {op.art}
    /\ UNCHANGED <<cache, queue, pass, timer, online, refetch, read, history, missed>>

Refused(c) ==
    /\ call[c].pc = "sent"
    /\ Trouble("refused")
    /\ call' = [call EXCEPT ![c].pc = "error"]
    /\ UNCHANGED <<server, cache, queue, pass, timer, online, refetch, read,
                   history, disturbed, missed>>

\* Mutant: a failed request is reported, and that is all.
Restore_Nothing(c) ==
    /\ call[c].pc = "error"
    /\ call' = [call EXCEPT ![c] = NoCall]
    /\ UNCHANGED <<server, cache, queue, pass, timer, online, refetch, read,
                   history, disturbed, missed, trouble>>

\* The catch blocks: the preview as it was read, if there was one, comes back.
Restore(c) ==
    LET a == call[c].op.art IN
    /\ call[c].pc = "error"
    /\ cache' = IF call[c].previous = Gone \/ call[c].op.type = "parse_article"
                THEN cache ELSE [cache EXCEPT ![a] = call[c].previous]
    /\ call' = [call EXCEPT ![c] = NoCall]
    /\ UNCHANGED <<server, queue, pass, timer, online, refetch, read, history,
                   disturbed, missed, trouble>>

----------------------------------------------------------------------------
(* PendingOperationsProcessor. *)

\* Mutant: no _processing flag.
StartPass_Again ==
    [Idle EXCEPT !.pc = IF ops = <<>> THEN "idle" ELSE "call", !.todo = ops]

\* processQueue, unless a pass is under way; nothing queued, nothing done.
StartPass ==
    IF pass.pc # "idle" THEN pass
    ELSE [Idle EXCEPT !.pc = IF ops = <<>> THEN "idle" ELSE "call", !.todo = ops]

Without(id) == RemoveFirstMatch(ops, LAMBDA p : p.id = id)

\* The backend executes the operation; its answer arrives or not.
OpServed ==
    LET p == Head(pass.todo) IN
    /\ pass.pc = "call"
    /\ Execute(p.op)
    /\ applied' = Append(applied, p.id)
    /\ \/ pass' = [pass EXCEPT !.pc = "ok"] /\ UNCHANGED <<resent, trouble>>
       \/ /\ Trouble("lost")
          /\ pass' = [pass EXCEPT !.pc = "error"]
          /\ resent' = resent \cup {p.id}
    /\ UNCHANGED <<cache, queue, timer, online, refetch, call, read,
                   disturbed, missed, offlines>>

OpRefused ==
    /\ pass.pc = "call"
    /\ Trouble("refused")
    /\ pass' = [pass EXCEPT !.pc = "error"]
    /\ UNCHANGED <<server, cache, queue, timer, online, refetch, call, read,
                   history, disturbed, missed>>

\* The loop moves on, or ends and has the list fetched again.
NextOp ==
    LET rest == Tail(pass.todo) IN
    /\ pass' = IF rest = <<>> THEN Idle
               ELSE [pc |-> "call", todo |-> rest, processed |-> TRUE]
    /\ refetch' = (refetch \/ rest = <<>>)
    /\ UNCHANGED timer

\* Mutant: the loop leaves the failed operation for later and goes on.
Break_GoesOn == NextOp

\* Mutant: the loop stops, and the next pass comes when it comes.
Break_NoTimer ==
    /\ pass' = Idle
    /\ refetch' = (refetch \/ pass.processed)
    /\ UNCHANGED timer

\* The loop stops at a failure and has itself called again in five seconds.
Break ==
    /\ pass' = Idle
    /\ refetch' = (refetch \/ pass.processed)
    /\ timer' = [set |-> TRUE, stray |-> IF timer.set THEN timer.stray + 1 ELSE timer.stray]

\* deletePendingOp.
OpDone ==
    /\ pass.pc = "ok"
    /\ ops' = Without(Head(pass.todo).id)
    /\ NextOp
    /\ UNCHANGED <<server, cache, failed, issued, online, call, read, history,
                   disturbed, missed, trouble>>

\* Mutant: one retry more than there are.
Exhausted_OffByOne(p) == p.retries + 1 > MaxRetries

Exhausted(p) == p.retries + 1 >= MaxRetries

\* updatePendingOp: one more retry, or none left.
OpFailed ==
    LET p == Head(pass.todo) IN
    /\ pass.pc = "error"
    /\ IF Exhausted(p)
       THEN /\ ops' = Without(p.id) /\ failed' = failed \cup {p.id}
            /\ disturbed' = disturbed \cup {p.op.art}
            /\ NextOp
       ELSE /\ ops' = [i \in DOMAIN ops |-> IF ops[i].id = p.id
                         THEN [ops[i] EXCEPT !.retries = p.retries + 1] ELSE ops[i]]
            /\ Break
            /\ UNCHANGED <<failed, disturbed>>
    /\ UNCHANGED <<server, cache, issued, online, call, read, history, missed, trouble>>

\* The retry timer, or one that was replaced before it fired.
TimerFires ==
    /\ \/ timer.set /\ timer' = [timer EXCEPT !.set = FALSE]
       \/ timer.stray > 0 /\ timer' = [timer EXCEPT !.stray = @ - 1]
    /\ pass' = StartPass
    /\ missed' = (missed /\ pass.pc # "idle")
    /\ UNCHANGED <<server, cache, queue, online, refetch, call, read, history,
                   disturbed, trouble>>

\* pendingOperationsWatcher: its onDispose cancels the timer ...
GoOffline ==
    /\ online /\ offlines < MaxOffline
    /\ online' = FALSE /\ offlines' = offlines + 1
    /\ timer' = [timer EXCEPT !.set = FALSE]
    /\ UNCHANGED <<server, cache, queue, pass, refetch, call, read,
                   applied, resent, disturbed, missed, trouble>>

\* ... and its body starts a pass.
ComeOnline ==
    /\ ~online
    /\ online' = TRUE
    /\ pass' = StartPass
    /\ missed' = (pass.pc # "idle" /\ Len(pass.todo) < Len(ops))
    /\ UNCHANGED <<server, cache, queue, timer, refetch, call, read, history,
                   disturbed, trouble>>

\* The app dies: only the database is left.  It is started again, online until
\* it knows better.
Reboot(left) ==
    /\ Trouble("crash")
    /\ ops' = left
    /\ call' = [c \in Call |-> NoCall] /\ read' = [r \in Slot |-> NoRead]
    /\ disturbed' = disturbed \cup
          {call[c].op.art : c \in {d \in Call : call[d].pc \in {"written", "sent", "error"}}}
    /\ resent' = IF pass.pc = "ok" THEN resent \cup {Head(pass.todo).id} ELSE resent
    /\ timer' = [set |-> FALSE, stray |-> 0] /\ refetch' = FALSE /\ missed' = FALSE
    /\ online' = TRUE
    /\ pass' = [Idle EXCEPT !.pc = IF left = <<>> THEN "idle" ELSE "call", !.todo = left]
    /\ UNCHANGED <<server, cache, failed, issued, applied, offlines>>

\* Mutant: what is queued is kept in memory.
Restart_Forgets == Reboot(<<>>)

Restart == Reboot(ops)

----------------------------------------------------------------------------
Next ==
    \/ \E c \in Call : \/ \E op \in Operations : Begin(c, op)
                       \/ Write(c) \/ Send(c) \/ Enqueue(c)
                       \/ Served(c) \/ Refused(c) \/ Restore(c)
    \/ OpServed \/ OpRefused \/ OpDone \/ OpFailed \/ TimerFires
    \/ GoOffline \/ ComeOnline \/ Restart
    \/ \E r \in Read, S \in SUBSET Article : Serve(r, S)
    \/ \E r \in Slot : Store(r)
    \/ Refetch
    \/ \E op \in Operations : Elsewhere(op)

Spec == Init /\ [][Next]_vars

----------------------------------------------------------------------------
(* Properties. *)

PendingIds == {ops[i].id : i \in DOMAIN ops}
Applied == {applied[i] : i \in DOMAIN applied}

\* No queued operation is lost, whatever fails and whenever the app dies: it is
\* waiting in the database, was executed by the backend, or was given up after
\* MaxRetries failures (_executeOp deletes the row after the call only).
NothingLost == 1..issued \subseteq PendingIds \cup Applied \cup failed

\* The backend executes queued operations in the order they were made; only one
\* that was given up is passed by ("Preserve FIFO order on failure").
InOrder == \A j \in Applied : \A i \in 1..j - 1 : i \in Applied \cup failed

\* A queued operation is executed twice only if the app could not know of the
\* first time: passes never overlap (_processing), however they are triggered.
OnceUnlessUnrecorded ==
    \A i, j \in DOMAIN applied : i # j /\ applied[i] = applied[j] => applied[i] \in resent

\* While the app is online and operations are queued, something is about to look
\* at the queue: a pass, or a timer - unless coming online was ignored because a
\* pass was still running that knew nothing of them (_processing), and succeeded.
NeverForgotten ==
    online /\ ops # <<>> =>
        pass.pc # "idle" \/ timer.set \/ timer.stray > 0 \/ missed

\* What the backend will have of an article: rows[i] when it has executed the
\* first i queued operations ...
WorkedOff(a, rows) ==
    /\ rows[0] = server[a]
    /\ \A i \in 1..Len(ops) :
         rows[i] = IF ops[i].op.art = a THEN Apply(ops[i].op, rows[i - 1]) ELSE rows[i - 1]

\* ... and this row when the app has told it everything it has to tell.
Expected(a, row) ==
    LET out == {c \in Call : /\ call[c].op.art = a
                             /\ call[c].pc \in {"written", "sent", "error"}}
    IN \E rows \in [0..Len(ops) -> Rows] :
         /\ WorkedOff(a, rows)
         /\ IF out = {} THEN row = rows[Len(ops)]
                        ELSE \A c \in out : row = Apply(call[c].op, rows[Len(ops)])

\* A cached preview shows what the backend will have once the queue is worked
\* off, through optimistic changes, restored ones, passes, retries and restarts,
\* as long as nothing else happened to the article: an operation beside the
\* queued ones, another device, a page read before the change, a lost answer.
\* A page read after all that puts it right, if the article is on it.
CacheFollowsQueue ==
    \A a \in Article \ disturbed : cache[a] # Gone => Expected(a, cache[a])

\* Why it holds.  A page that is still true finds nothing queued or carried out
\* for its article.  Of an article that nothing else happened to, one operation is
\* carried out at most, and what the preview was before it is what the queue comes
\* to; a request is only sent when nothing is queued; and an operation that the
\* backend has executed, but the app not yet deleted, changes nothing more.
Carrying(a) == {c \in Call : call[c].pc # "none" /\ call[c].op.art = a}
Before(a) == IF Carrying(a) = {} THEN {cache[a]} ELSE {call[c].previous : c \in Carrying(a)}
Replays(a, rows) ==
    /\ WorkedOff(a, rows)
    /\ \A i, j \in 0..Len(ops) :
         i <= j /\ (\A m \in i + 1..j : ops[m].op.art # a) => rows[j] = rows[i]
ComesTo(a, row) ==
    \E rows \in [0..Len(ops) -> Rows] : Replays(a, rows) /\ rows[Len(ops)] = row
PageInv(r, a) ==
    read[r].on /\ read[r].clean[a] =>
        ~QueuedFor(a) /\ Carrying(a) = {} /\ read[r].rows[a] \in {server[a], Gone}
CarryInv(c, a) ==
    /\ Carrying(a) = {c}
    /\ call[c].pc = "read" => call[c].op.type # "parse_article"
    /\ cache[a] = IF call[c].pc = "read" \/ call[c].op.type = "parse_article"
                  THEN call[c].previous ELSE Apply(call[c].op, call[c].previous)
    /\ call[c].pc = "sent" => ~QueuedFor(a)
PreviewInv(a) ==
    /\ \A c \in Carrying(a) : CarryInv(c, a)
    /\ pass.pc = "ok" /\ Head(pass.todo).op.art = a =>
         Apply(Head(pass.todo).op, server[a]) = server[a]
    /\ \A row \in Before(a) \ {Gone} : ComesTo(a, row)
CacheInv ==
    /\ \A i \in 1..Len(pass.todo) : pass.todo[i].op = ops[i].op
    /\ \A r \in Slot, a \in Article : PageInv(r, a)
    /\ \A a \in Article \ disturbed : PreviewInv(a)
=============================================================================
