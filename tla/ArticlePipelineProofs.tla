----------------------- MODULE ArticlePipelineProofs -----------------------
(***************************************************************************)
(* Theorems about ArticlePipeline, for any sets of articles, users and     *)
(* requests, any retry limit and any amount of trouble.                    *)
(***************************************************************************)
EXTENDS ArticlePipeline, TLAPS, FiniteSetTheorems

----------------------------------------------------------------------------
(* Lemmas about the streams *)

\* XREADGROUP delivers exactly the entries between the old and the new cursor.
LEMMA UndeliveredInterval ==
    ASSUME NEW S, NEW stream \in Seq(S), NEW c \in Nat, NEW count \in Nat \ {0},
           c <= Len(stream)
    PROVE  LET new == Undelivered(stream, c, count)
           IN  /\ Cardinality(new) \in Nat
               /\ c + Cardinality(new) <= Len(stream)
               /\ new = (c + 1)..(c + Cardinality(new))
<1> DEFINE new == Undelivered(stream, c, count)
           top == IF c + count <= Len(stream) THEN c + count ELSE Len(stream)
<1>1. top \in Nat /\ c <= top /\ top <= Len(stream)
    OBVIOUS
<1>2. new = (c + 1)..top
    BY DEF Undelivered
<1>3. Cardinality((c + 1)..top) = top - c
    <2>1. c + 1 \in Int /\ top \in Int
        BY <1>1
    <2> HIDE DEF top
    <2>2. Cardinality((c + 1)..top) = IF c + 1 > top THEN 0 ELSE top - (c + 1) + 1
        BY <2>1, FS_Interval
    <2>3. QED
        BY <1>1, <2>2
<1> HIDE DEF new
<1>4. Cardinality(new) = top - c
    BY <1>2, <1>3
<1> HIDE DEF top
<1>5. /\ Cardinality(new) \in Nat
      /\ c + Cardinality(new) <= Len(stream)
      /\ new = (c + 1)..(c + Cardinality(new))
    BY <1>1, <1>2, <1>4
<1>6. QED
    BY <1>5 DEF new

\* What was published stays published, in its place.
LEMMA XAddAppends ==
    ASSUME StreamsOK, NEW s \in Stream, NEW a \in Article, NEW k \in Kind, XAdd(s, a, k)
    PROVE  /\ log' \in [Stream -> Seq(Entry)]
           /\ \A t \in Stream \ {s} : log'[t] = log[t]
           /\ Len(log'[s]) = Len(log[s]) + 1
           /\ \A i \in 1..Len(log[s]) : log'[s][i] = log[s][i]
           /\ log'[s][Len(log[s]) + 1] = [art |-> a, kind |-> k]
<1>1. [art |-> a, kind |-> k] \in Entry
    BY DEF Entry
<1>2. log \in [Stream -> Seq(Entry)]
    BY DEF StreamsOK
<1>3. log' = [log EXCEPT ![s] = Append(log[s], [art |-> a, kind |-> k])]
    BY DEF XAdd
<1>4. log[s] \in Seq(Entry)
    BY <1>2
<1>5. log'[s] = Append(log[s], [art |-> a, kind |-> k])
    BY <1>2, <1>3
<1>6. \A t \in Stream \ {s} : log'[t] = log[t]
    BY <1>2, <1>3
<1>7. QED
    BY <1>1, <1>2, <1>3, <1>4, <1>5, <1>6

\* The calls that only publish, or only acknowledge, keep the streams in order.
LEMMA XAddKeepsStreams ==
    ASSUME StreamsOK, NEW s \in Stream, NEW a \in Article, NEW k \in Kind,
           XAdd(s, a, k), UNCHANGED <<cursor, pel>>
    PROVE  StreamsOK'
<1>1. \A r \in Reader : Source(r) \in Stream
    BY DEF Reader, BffReader, Worker, Source, Stream
<1>2. /\ log' \in [Stream -> Seq(Entry)]
      /\ \A t \in Stream : Len(log[t]) <= Len(log'[t])
    <2>1. \A t \in Stream : Len(log[t]) \in Nat
        BY DEF StreamsOK
    <2>2. /\ log' \in [Stream -> Seq(Entry)]
          /\ \A t \in Stream \ {s} : log'[t] = log[t]
          /\ Len(log'[s]) = Len(log[s]) + 1
        BY XAddAppends
    <2>3. QED
        BY <2>1, <2>2
<1>3. \A r \in Reader : Len(log[Source(r)]) \in Nat /\ Len(log'[Source(r)]) \in Nat
    BY <1>1, <1>2 DEF StreamsOK
<1>4. QED
    BY <1>1, <1>2, <1>3 DEF StreamsOK

LEMMA AckKeepsStreams ==
    ASSUME StreamsOK, NEW r \in Reader, NEW i, Ack(r, i), UNCHANGED <<log, cursor>>
    PROVE  /\ StreamsOK'
           /\ \A q \in Reader \ {r} : pel'[q] = pel[q]
           /\ DOMAIN pel'[r] = DOMAIN pel[r] \ {i}
<1>1. pel' = [pel EXCEPT ![r] = [j \in DOMAIN pel[r] \ {i} |-> pel[r][j]]]
    BY DEF Ack, XAck
<1>2. /\ DOMAIN pel' = Reader
      /\ \A q \in Reader \ {r} : pel'[q] = pel[q]
      /\ pel'[r] = [j \in DOMAIN pel[r] \ {i} |-> pel[r][j]]
    BY <1>1 DEF StreamsOK
<1>3. /\ DOMAIN pel'[r] = DOMAIN pel[r] \ {i}
      /\ pel'[r] \in [DOMAIN pel'[r] -> Nat]
    BY <1>2 DEF StreamsOK
<1>4. QED
    BY <1>2, <1>3 DEF StreamsOK

----------------------------------------------------------------------------
(* What an action of one process leaves alone *)

LEMMA RequestFrame ==
    ASSUME NEW r \in Request, ReqNext(r)
    PROVE  UNCHANGED <<cursor, pel, procs, sweep, hub, bff>>
BY DEF ReqNext, ReqStart, ReqCheck, ReqFind, ReqLink, ReqCreate, ReqRelate, ReqSubmit,
       ReqFail, streams, workers, backend, store

LEMMA ProcFrame ==
    ASSUME NEW w \in Worker, NEW p \in procs[w], ProcNext(w, p)
    PROVE  UNCHANGED <<rows, links, req, cursor, hub, bff>>
BY DEF ProcNext, Publish, AckInput, ProcessFails, AckFails, Reject, Report, Abort,
       SweepDrop, streams, backend, store

LEMMA WorkerFrame ==
    ASSUME NEW w \in Worker, WorkerNext(w)
    PROVE  UNCHANGED <<rows, links, req, hub, bff>>
<1>1. CASE Consume(w)
    BY <1>1 DEF Consume, store, backend
<1>2. CASE SweepNext(w)
    BY <1>2 DEF SweepNext, SweepClaim, SweepCount, SweepRetry, SweepGiveUp, SweepEnd,
                store, backend
<1>3. CASE WorkerCrash(w)
    BY <1>3 DEF WorkerCrash, store, backend
<1>4. CASE \E p \in procs[w] : ProcNext(w, p)
    BY <1>4, ProcFrame
<1>5. QED
    BY <1>1, <1>2, <1>3, <1>4 DEF WorkerNext

LEMMA HandlerFrame ==
    ASSUME NEW g \in hub, NEW i \in g.todo, HandlerNext(g, i)
    PROVE  UNCHANGED <<links, req, log, cursor, procs, sweep, bff>>
BY DEF HandlerNext, HandleScrapeResult, HandleRefused, HandlePhonemizerResult,
       HandleErrorRead, HandleErrorWrite, HubAck, HubFail, store, streams, workers

LEMMA BackendFrame ==
    ASSUME BffNext
    PROVE  UNCHANGED <<links, log, procs, sweep>>
BY HandlerFrame DEF BffNext, Listen, BffCrash, BffStart, ReclaimNext, ReclaimEnd,
       store, streams, workers

----------------------------------------------------------------------------
(* Type correctness *)

LEMMA StreamOfWorker ==
    ASSUME NEW w \in Worker
    PROVE  w \in Reader /\ Source(w) = In(w) /\ In(w) \in Stream /\ Out(w) \in Stream
BY DEF Worker, Reader, BffReader, Source, In, Out, Stream

\* An entry that was delivered is an entry of its stream.
LEMMA DeliveredEntry ==
    ASSUME StreamsOK, NEW r \in Reader, NEW i \in 1..cursor[r]
    PROVE  i \in 1..Len(log[Source(r)]) /\ EntryAt(r, i) \in Entry
<1>1. Source(r) \in Stream
    BY DEF Reader, BffReader, Worker, Source, Stream
<1>2. log[Source(r)] \in Seq(Entry) /\ cursor[r] \in Nat /\ cursor[r] <= Len(log[Source(r)])
    BY <1>1 DEF StreamsOK
<1>3. QED
    BY <1>2 DEF EntryAt

LEMMA RequestType ==
    ASSUME TypeOK, NEW r \in Request, ReqNext(r)
    PROVE  TypeOK'
<1>1. /\ req[r] \in [pc : ReqPC, user : User, art : Article]
      /\ \A pc \in ReqPC : Goto(r, pc) =>
            req' \in [Request -> [pc : ReqPC, user : User, art : Article]]
    BY DEF TypeOK, StoreOK, Goto
<1>2. /\ "processing" \in Status /\ "job" \in Kind /\ "jobs" \in Stream
      /\ [NoRow EXCEPT !.status = "processing"] \in Row
    BY DEF Status, Kind, Stream, Row, NoRow, Absent
<1>3. StoreOK'
    <2>1. \/ ReqStart(r) \/ ReqCheck(r) \/ ReqFind(r) \/ ReqSubmit(r) \/ ReqFail(r)
          => UNCHANGED <<rows, links>> /\ \E pc \in ReqPC : Goto(r, pc)
        BY DEF ReqStart, ReqCheck, ReqFind, ReqSubmit, ReqFail, store, ReqPC
    <2>2. ReqLink(r) \/ ReqRelate(r) =>
            /\ rows' = rows /\ links' \subseteq User \X Article
            /\ \E pc \in ReqPC : Goto(r, pc)
        BY <1>1 DEF ReqLink, ReqRelate, ReqPC, TypeOK, StoreOK
    <2>3. ReqCreate(r) =>
            /\ rows' \in [Article -> Row] /\ links' = links
            /\ \E pc \in ReqPC : Goto(r, pc)
        BY <1>1, <1>2 DEF ReqCreate, ReqPC, TypeOK, StoreOK
    <2>4. QED
        BY <1>1, <2>1, <2>2, <2>3 DEF ReqNext, TypeOK, StoreOK
<1>4. StreamsOK'
    <2>1. CASE ReqSubmit(r)
        BY <2>1, <1>1, <1>2, XAddKeepsStreams DEF ReqSubmit, TypeOK
    <2>2. CASE UNCHANGED <<log, cursor, pel>>
        BY <2>2 DEF TypeOK, StreamsOK
    <2>3. ~ReqSubmit(r) => UNCHANGED <<log, cursor, pel>>
        BY DEF ReqNext, ReqStart, ReqCheck, ReqFind, ReqLink, ReqCreate, ReqRelate, ReqFail,
               streams
    <2>4. QED
        BY <2>1, <2>2, <2>3
<1>5. trouble' \in Nat
    BY DEF ReqNext, ReqStart, ReqCheck, ReqFind, ReqLink, ReqCreate, ReqRelate, ReqSubmit,
           ReqFail, Trouble, TypeOK
<1>6. QED
    BY <1>3, <1>4, <1>5, RequestFrame DEF TypeOK, WorkersOK, BackendOK

\* Cursors only matter to those who read with them, and streams only grow.
LEMMA ConsumeType ==
    ASSUME TypeOK, NEW w \in Worker, Consume(w)
    PROVE  StreamsOK' /\ WorkersOK' /\ BackendOK'
<1> DEFINE new == Undelivered(log[In(w)], cursor[w], BatchSize)
           n == Cardinality(new)
<1>1. w \in Reader /\ Source(w) = In(w) /\ In(w) \in Stream
    BY StreamOfWorker
<1>2. /\ n \in Nat /\ cursor[w] + n <= Len(log[In(w)])
      /\ new = (cursor[w] + 1)..(cursor[w] + n)
    <2>1. /\ log[In(w)] \in Seq(Entry) /\ cursor[w] \in Nat /\ BatchSize \in Nat \ {0}
          /\ cursor[w] <= Len(log[In(w)])
        BY <1>1, PipelineAssumption DEF TypeOK, StreamsOK
    <2>2. QED
        BY <2>1, UndeliveredInterval
<1>3. /\ cursor' = [cursor EXCEPT ![w] = cursor[w] + n]
      /\ pel' = [pel EXCEPT ![w] = XReadGroup(pel[w], new)]
      /\ procs' = [procs EXCEPT ![w] = procs[w] \cup [by : {"main"}, i : new, pc : {"run"}]]
      /\ UNCHANGED <<log, sweep, hub, bff>>
    BY DEF Consume, backend
<1> HIDE DEF n, new
<1>4. /\ cursor' \in [Reader -> Nat]
      /\ cursor'[w] = cursor[w] + n
      /\ \A r \in Reader \ {w} : cursor'[r] = cursor[r]
    BY <1>1, <1>2, <1>3 DEF TypeOK, StreamsOK
<1>5. StreamsOK'
    <2>1. /\ DOMAIN pel' = Reader
          /\ \A r \in Reader \ {w} : pel'[r] = pel[r]
          /\ pel'[w] = [i \in (DOMAIN pel[w]) \cup new |-> IF i \in new THEN 1 ELSE pel[w][i]]
        BY <1>1, <1>3 DEF TypeOK, StreamsOK, XReadGroup
    <2>2. /\ DOMAIN pel'[w] \subseteq 1..cursor'[w]
          /\ pel'[w] \in [DOMAIN pel'[w] -> Nat]
        BY <1>1, <1>2, <1>4, <2>1 DEF TypeOK, StreamsOK
    <2>3. \A r \in Reader : cursor'[r] <= Len(log[Source(r)])
        BY <1>1, <1>2, <1>4 DEF TypeOK, StreamsOK
    <2>4. QED
        BY <1>1, <1>3, <1>4, <2>1, <2>2, <2>3 DEF TypeOK, StreamsOK
<1>6. WorkersOK'
    <2>1. new \subseteq 1..cursor'[w] /\ new \subseteq Nat /\ 1..cursor[w] \subseteq 1..cursor'[w]
        BY <1>1, <1>2, <1>4 DEF TypeOK, StreamsOK
    <2>2. [by : {"main"}, i : new, pc : {"run"}] \subseteq Proc
        BY <2>1 DEF Proc, Thread
    <2>3. \A p \in [by : {"main"}, i : new, pc : {"run"}] : p.i \in 1..cursor'[w]
        BY <2>1
    <2>4. procs' \in [Worker -> SUBSET Proc]
        BY <1>3, <2>2 DEF TypeOK, WorkersOK
    <2>5. \A v \in Worker : \A p \in procs'[v] : p.i \in 1..cursor'[v]
        <3>1. SUFFICES ASSUME NEW v \in Worker, NEW p \in procs'[v]
                       PROVE  p.i \in 1..cursor'[v]
            OBVIOUS
        <3>2. CASE v = w
            BY <3>2, <1>3, <2>1, <2>3 DEF TypeOK, WorkersOK
        <3>3. CASE v # w
            BY <3>3, <1>3, <1>4, StreamOfWorker DEF TypeOK, WorkersOK
        <3>4. QED
            BY <3>2, <3>3
    <2>6. \A v \in Worker : sweep[v].todo \subseteq 1..cursor'[v]
        BY <1>4, <2>1, StreamOfWorker DEF TypeOK, WorkersOK
    <2>7. QED
        BY <1>3, <2>4, <2>5, <2>6 DEF TypeOK, WorkersOK
<1>7. BackendOK'
    <2>1. \A g \in hub : g.reader \in Reader \ {w}
        BY DEF TypeOK, BackendOK, Goroutine, BffReader, Reader, Worker
    <2>2. QED
        BY <1>3, <1>4, <2>1 DEF TypeOK, BackendOK
<1>8. QED
    BY <1>5, <1>6, <1>7

LEMMA ProcType ==
    ASSUME TypeOK, NEW w \in Worker, NEW p \in procs[w], ProcNext(w, p)
    PROVE  StreamsOK' /\ WorkersOK' /\ trouble' \in Nat
<1>1. /\ w \in Reader /\ Out(w) \in Stream /\ p.i \in 1..cursor[w] /\ p \in Proc
      /\ Success(w) \in Kind /\ "error" \in Kind
    BY StreamOfWorker DEF TypeOK, WorkersOK, Success, Kind
<1>2. Task(w, p).art \in Article
    BY <1>1, DeliveredEntry DEF TypeOK, Task, Entry
<1>3. /\ \A pc \in {"run", "ack", "report", "drop"} : [p EXCEPT !.pc = pc] \in Proc
      /\ \A pc \in {"run", "ack", "report", "drop"} : [p EXCEPT !.pc = pc].i = p.i
    BY <1>1 DEF Proc
<1>4. ASSUME NEW pc \in {"ack", "report"}, Step(w, p, pc), UNCHANGED <<sweep, cursor>>
      PROVE  WorkersOK'
    <2> DEFINE q == [p EXCEPT !.pc = pc]
    <2>1. q \in Proc /\ q.i = p.i
        BY <1>3
    <2> HIDE DEF q
    <2>2. procs' = [procs EXCEPT ![w] = (procs[w] \ {p}) \cup {q}]
        BY <1>4 DEF Step, q
    <2>3. procs' \in [Worker -> SUBSET Proc]
        BY <2>1, <2>2 DEF TypeOK, WorkersOK
    <2>4. \A v \in Worker : \A o \in procs'[v] : o.i \in 1..cursor[v]
        BY <1>1, <2>1, <2>2 DEF TypeOK, WorkersOK
    <2>5. QED
        BY <1>4, <2>3, <2>4 DEF TypeOK, WorkersOK
<1>5. Return(w, p) /\ cursor' = cursor => WorkersOK'
    BY <1>1 DEF Return, SweepDone, TypeOK, WorkersOK, Sweep
<1>6. cursor' = cursor
    BY ProcFrame
<1>7. CASE Publish(w, p)
    BY <1>1, <1>2, <1>4, <1>6, <1>7, XAddKeepsStreams DEF Publish, TypeOK
<1>8. CASE AckInput(w, p)
    BY <1>1, <1>5, <1>6, <1>8, AckKeepsStreams DEF AckInput, TypeOK
<1>9. CASE ProcessFails(w, p)
    BY <1>5, <1>6, <1>9 DEF ProcessFails, TypeOK, StreamsOK, streams
<1>10. CASE AckFails(w, p)
    BY <1>5, <1>6, <1>10 DEF AckFails, TypeOK, StreamsOK, streams, Trouble
<1>11. CASE Reject(w, p)
    BY <1>1, <1>4, <1>6, <1>11, AckKeepsStreams DEF Reject, TypeOK
<1>12. CASE Report(w, p)
    BY <1>1, <1>2, <1>5, <1>6, <1>12, XAddKeepsStreams DEF Report, TypeOK
<1>13. CASE Abort(w, p)
    <2>1. NoSweep \in Sweep /\ NoSweep.todo = {}
        BY DEF NoSweep, Sweep
    <2>2. WorkersOK'
        BY <1>6, <1>13, <2>1 DEF Abort, TypeOK, WorkersOK
    <2>3. QED
        BY <1>13, <2>2 DEF Abort, TypeOK, StreamsOK, streams, Trouble
<1>14. CASE SweepDrop(w, p)
    BY <1>1, <1>5, <1>6, <1>14, AckKeepsStreams DEF SweepDrop, TypeOK
<1>15. QED
    BY <1>7, <1>8, <1>9, <1>10, <1>11, <1>12, <1>13, <1>14 DEF ProcNext

LEMMA ClaimKeepsStreams ==
    ASSUME StreamsOK, NEW r \in Reader, NEW idle, UNCHANGED <<log, cursor>>,
           pel' = [pel EXCEPT ![r] = XAutoClaim(@, idle)]
    PROVE  StreamsOK' /\ \A q \in Reader : DOMAIN pel'[q] = DOMAIN pel[q]
<1>1. /\ DOMAIN pel' = Reader
      /\ \A q \in Reader \ {r} : pel'[q] = pel[q]
      /\ pel'[r] = [i \in DOMAIN pel[r] |-> IF i \in idle THEN pel[r][i] + 1 ELSE pel[r][i]]
    BY DEF StreamsOK, XAutoClaim
<1>2. DOMAIN pel'[r] = DOMAIN pel[r] /\ pel'[r] \in [DOMAIN pel'[r] -> Nat]
    BY <1>1 DEF StreamsOK
<1>3. QED
    BY <1>1, <1>2 DEF StreamsOK

LEMMA SweepType ==
    ASSUME TypeOK, NEW w \in Worker, SweepNext(w)
    PROVE  StreamsOK' /\ WorkersOK' /\ trouble' \in Nat
<1>1. /\ w \in Reader /\ Out(w) \in Stream /\ "error" \in Kind /\ cursor[w] \in Nat
      /\ sweep[w] \in Sweep /\ NoSweep \in Sweep /\ NoSweep.todo = {}
      /\ DOMAIN pel[w] \subseteq 1..cursor[w]
    BY StreamOfWorker DEF TypeOK, WorkersOK, StreamsOK, Kind, NoSweep, Sweep
<1>2. ASSUME NEW i \in sweep[w].todo, NEW pc \in {"run", "drop"}, UNCHANGED <<sweep, cursor>>,
             procs' = [procs EXCEPT ![w] = @ \cup {[by |-> "retry", i |-> i, pc |-> pc]}]
      PROVE  WorkersOK'
    <2> DEFINE q == [by |-> "retry", i |-> i, pc |-> pc]
    <2>1. q \in Proc /\ q.i = i /\ i \in 1..cursor[w]
        BY <1>1, <1>2 DEF TypeOK, WorkersOK, Proc, Thread, Sweep
    <2> HIDE DEF q
    <2>2. procs' = [procs EXCEPT ![w] = procs[w] \cup {q}]
        BY <1>2 DEF q
    <2>3. QED
        BY <1>2, <2>1, <2>2 DEF TypeOK, WorkersOK
<1>3. CASE SweepClaim(w)
    <2>1. PICK idle \in SUBSET DOMAIN pel[w] :
            /\ pel' = [pel EXCEPT ![w] = XAutoClaim(@, idle)]
            /\ sweep' = [sweep EXCEPT ![w] = [NoSweep EXCEPT !.todo = idle]]
            /\ trouble' = trouble \/ trouble' = trouble + 1
        BY <1>3 DEF SweepClaim, Trouble
    <2>2. UNCHANGED <<log, cursor, procs>>
        BY <1>3 DEF SweepClaim
    <2>3. StreamsOK'
        BY <1>1, <2>1, <2>2, ClaimKeepsStreams DEF TypeOK
    <2>4. [NoSweep EXCEPT !.todo = idle] \in Sweep /\ [NoSweep EXCEPT !.todo = idle].todo = idle
        <3>1. idle \in SUBSET Nat
            BY <1>1
        <3>2. QED
            BY <3>1 DEF NoSweep, Sweep
    <2>5. WorkersOK'
        BY <1>1, <2>1, <2>2, <2>4 DEF TypeOK, WorkersOK
    <2>6. QED
        BY <2>1, <2>3, <2>5 DEF TypeOK
<1>4. CASE SweepCount(w)
    <2>1. PICK over \in SUBSET sweep[w].todo :
            sweep' = [sweep EXCEPT ![w].counted = TRUE, ![w].over = over]
        <3>1. \A first, last :
                {i \in sweep[w].todo \cap XPendingRange(pel[w], first, last, Cardinality(sweep[w].todo)) :
                    pel[w][i] >= MaxRetries} \in SUBSET sweep[w].todo
            OBVIOUS
        <3>2. QED
            BY <1>4, <3>1 DEF SweepCount
    <2>2. UNCHANGED <<log, cursor, pel, procs, trouble>>
        BY <1>4 DEF SweepCount, streams
    <2>3. WorkersOK'
        BY <1>1, <2>1, <2>2 DEF TypeOK, WorkersOK, Sweep
    <2>4. QED
        BY <2>2, <2>3 DEF TypeOK, StreamsOK
<1>5. CASE SweepRetry(w)
    <2>1. WorkersOK'
        BY <1>2, <1>5 DEF SweepRetry, streams
    <2>2. QED
        BY <1>5, <2>1 DEF SweepRetry, TypeOK, StreamsOK, streams
<1>6. CASE SweepGiveUp(w)
    <2>1. PICK i \in sweep[w].todo :
            /\ XAdd(Out(w), EntryAt(w, i).art, "error")
            /\ procs' = [procs EXCEPT ![w] = @ \cup {[by |-> "retry", i |-> i, pc |-> "drop"]}]
            /\ UNCHANGED <<cursor, pel, sweep, trouble>>
        BY <1>6 DEF SweepGiveUp
    <2>2. EntryAt(w, i).art \in Article
        BY <1>1, DeliveredEntry DEF TypeOK, WorkersOK, Entry
    <2>3. QED
        BY <1>1, <1>2, <2>1, <2>2, XAddKeepsStreams DEF TypeOK
<1>7. CASE SweepEnd(w)
    BY <1>1, <1>7 DEF SweepEnd, TypeOK, StreamsOK, WorkersOK, streams
<1>8. QED
    BY <1>3, <1>4, <1>5, <1>6, <1>7 DEF SweepNext

LEMMA WorkerType ==
    ASSUME TypeOK, NEW w \in Worker, WorkerNext(w)
    PROVE  TypeOK'
<1>1. StoreOK'
    BY WorkerFrame DEF TypeOK, StoreOK
<1>2. CASE Consume(w)
    BY <1>1, <1>2, ConsumeType DEF TypeOK, Consume
<1>3. CASE SweepNext(w)
    <2>1. cursor' = cursor
        BY <1>3 DEF SweepNext, SweepClaim, SweepCount, SweepRetry, SweepGiveUp, SweepEnd, streams
    <2>2. QED
        BY <1>1, <1>3, <2>1, SweepType, WorkerFrame DEF TypeOK, BackendOK
<1>4. CASE WorkerCrash(w)
    <2>1. NoSweep \in Sweep /\ NoSweep.todo = {}
        BY DEF NoSweep, Sweep
    <2>2. WorkersOK'
        BY <1>4, <2>1 DEF WorkerCrash, TypeOK, WorkersOK, streams
    <2>3. QED
        BY <1>1, <1>4, <2>2, WorkerFrame
        DEF WorkerCrash, TypeOK, StreamsOK, BackendOK, streams, Trouble
<1>5. CASE \E p \in procs[w] : ProcNext(w, p)
    BY <1>1, <1>5, ProcType, ProcFrame DEF TypeOK, BackendOK
<1>6. QED
    BY <1>2, <1>3, <1>4, <1>5 DEF WorkerNext

LEMMA HandlerType ==
    ASSUME TypeOK, NEW g \in hub, NEW i \in g.todo, HandlerNext(g, i)
    PROVE  TypeOK'
<1>1. /\ g \in Goroutine /\ g.reader \in Reader /\ g.reader \in BffReader
      /\ i \in 1..cursor[g.reader] /\ g.todo \subseteq 1..cursor[g.reader]
    <2>1. g \in Goroutine /\ g.todo \subseteq 1..cursor[g.reader]
        BY DEF TypeOK, BackendOK
    <2>2. g.reader \in BffReader
        BY <2>1 DEF Goroutine
    <2>3. QED
        BY <2>1, <2>2 DEF Reader, BffReader
<1>2. EntryAt(g.reader, i).art \in Article
    BY <1>1, DeliveredEntry DEF TypeOK, Entry
<1>3. UNCHANGED <<links, req, log, cursor, procs, sweep, bff>>
    BY HandlerFrame
<1>4. WorkersOK'
    BY <1>3 DEF TypeOK, WorkersOK
<1>5. ASSUME NEW h \in Goroutine, Become(g, h), h.reader = g.reader, h.todo \subseteq g.todo
      PROVE  BackendOK'
    BY <1>1, <1>3, <1>5 DEF Become, TypeOK, BackendOK
<1>6. Advance(g, i) => BackendOK'
    <2>1. CASE hub' = hub \ {g}
        BY <1>3, <2>1 DEF TypeOK, BackendOK
    <2>2. /\ Batch(g.reader, g.todo \ {i}) \in Goroutine
          /\ Batch(g.reader, g.todo \ {i}).reader = g.reader
          /\ Batch(g.reader, g.todo \ {i}).todo \subseteq g.todo
        BY <1>1 DEF Batch, Goroutine, NoRow, Row, Absent
    <2>3. CASE Become(g, Batch(g.reader, g.todo \ {i}))
        BY <1>5, <2>2, <2>3
    <2>4. QED
        BY <2>1, <2>3 DEF Advance
<1>7. \A pc \in {"handle", "fail", "ack"} : Become(g, [g EXCEPT !.pc = pc]) => BackendOK'
    <2>1. ASSUME NEW pc \in {"handle", "fail", "ack"}
          PROVE  /\ [g EXCEPT !.pc = pc] \in Goroutine
                 /\ [g EXCEPT !.pc = pc].reader = g.reader
                 /\ [g EXCEPT !.pc = pc].todo = g.todo
        BY <1>1 DEF Goroutine
    <2>2. QED
        BY <1>5, <2>1
<1>8. ASSUME NEW a \in Article, ApplyScrapeResult(a) \/ ApplyPhonemizerResult(a)
      PROVE  rows' \in [Article -> Row]
    <2>1. rows \in [Article -> Row] /\ rows[a] \in Row
        BY DEF TypeOK, StoreOK
    <2>2. \A st \in Status :
            /\ [rows[a] EXCEPT !.html = TRUE, !.status = st] \in Row
            /\ [rows[a] EXCEPT !.phonemes = TRUE, !.status = st] \in Row
        BY <2>1 DEF Row
    <2>3. CASE ApplyScrapeResult(a)
        <3>1. PICK st \in Status :
                rows' = [rows EXCEPT ![a] = [rows[a] EXCEPT !.html = TRUE, !.status = st]]
            BY <2>1, <2>3 DEF ApplyScrapeResult, Status
        <3>2. QED
            BY <2>1, <2>2, <3>1
    <2>4. CASE ApplyPhonemizerResult(a)
        <3>1. PICK st \in Status :
                rows' = [rows EXCEPT ![a] = [rows[a] EXCEPT !.phonemes = TRUE, !.status = st]]
            BY <2>1, <2>4 DEF ApplyPhonemizerResult, Status
        <3>2. QED
            BY <2>1, <2>2, <3>1
    <2>5. QED
        BY <1>8, <2>3, <2>4
<1>9. CASE HandleScrapeResult(g, i)
    BY <1>2, <1>3, <1>4, <1>7, <1>8, <1>9
    DEF HandleScrapeResult, TypeOK, StoreOK, StreamsOK, streams
<1>10. CASE HandlePhonemizerResult(g, i)
    BY <1>2, <1>3, <1>4, <1>7, <1>8, <1>10
    DEF HandlePhonemizerResult, TypeOK, StoreOK, StreamsOK, streams
<1>11. CASE HandleRefused(g, i)
    BY <1>4, <1>6, <1>11 DEF HandleRefused, TypeOK, StoreOK, StreamsOK, streams, store
<1>12. CASE HandleErrorRead(g, i)
    <2> DEFINE h == [g EXCEPT !.pc = "fail", !.seen = rows[EntryAt(g.reader, i).art]]
    <2>1. rows[EntryAt(g.reader, i).art] \in Row
        BY <1>2 DEF TypeOK, StoreOK
    <2>2. h \in Goroutine /\ h.reader = g.reader /\ h.todo = g.todo
        BY <1>1, <2>1 DEF Goroutine
    <2>3. BackendOK'
        BY <1>5, <1>12, <2>2 DEF HandleErrorRead
    <2>4. QED
        BY <1>4, <1>12, <2>3 DEF HandleErrorRead, TypeOK, StoreOK, StreamsOK, streams, store
<1>13. CASE HandleErrorWrite(g, i)
    <2>1. [g.seen EXCEPT !.status = "failed"] \in Row
        BY <1>1 DEF Goroutine, Row, Status
    <2>2. StoreOK'
        BY <1>2, <1>3, <1>13, <2>1 DEF HandleErrorWrite, UpdateArticle, TypeOK, StoreOK
    <2>3. QED
        BY <1>4, <1>7, <1>13, <2>2 DEF HandleErrorWrite, TypeOK, StreamsOK, streams
<1>14. CASE HubAck(g, i)
    BY <1>1, <1>3, <1>4, <1>6, <1>14, AckKeepsStreams DEF HubAck, TypeOK, StoreOK, store
<1>15. CASE HubFail(g, i)
    BY <1>4, <1>6, <1>15 DEF HubFail, TypeOK, StoreOK, StreamsOK, streams, store, Trouble
<1>16. QED
    BY <1>9, <1>10, <1>11, <1>12, <1>13, <1>14, <1>15 DEF HandlerNext

\* XREADGROUP on both streams, for the backend's two readers at once.
LEMMA ListenType ==
    ASSUME TypeOK, Listen
    PROVE  StreamsOK' /\ BackendOK' /\ WorkersOK'
<1> DEFINE new(r) == Undelivered(log[Source(r)], cursor[r], BatchSize)
           n(r) == Cardinality(new(r))
           some == {r \in BffReader : new(r) # {}}
<1>1. /\ cursor' = [r \in Reader |-> IF r \in some THEN cursor[r] + n(r) ELSE cursor[r]]
      /\ pel' = [r \in Reader |-> IF r \in some THEN XReadGroup(pel[r], new(r)) ELSE pel[r]]
      /\ hub' = hub \cup {Batch(r, new(r)) : r \in some}
      /\ UNCHANGED <<log, procs, sweep, bff>>
    BY DEF Listen, workers
<1>2. ASSUME NEW r \in Reader
      PROVE  /\ n(r) \in Nat /\ cursor[r] + n(r) <= Len(log[Source(r)])
             /\ new(r) = (cursor[r] + 1)..(cursor[r] + n(r))
             /\ cursor[r] \in Nat
    <2>1. Source(r) \in Stream
        BY DEF Reader, BffReader, Worker, Source, Stream
    <2>2. /\ log[Source(r)] \in Seq(Entry) /\ cursor[r] \in Nat /\ BatchSize \in Nat \ {0}
          /\ cursor[r] <= Len(log[Source(r)])
        BY <2>1, PipelineAssumption DEF TypeOK, StreamsOK
    <2>3. QED
        BY <2>2, UndeliveredInterval
<1>3. BffReader \subseteq Reader /\ \A w \in Worker : w \in Reader /\ w \notin BffReader
    BY DEF BffReader, Reader, Worker
<1> HIDE DEF n, new
<1>4. /\ cursor' \in [Reader -> Nat]
      /\ \A r \in Reader : cursor[r] <= cursor'[r] /\ cursor'[r] <= Len(log[Source(r)])
      /\ \A r \in some : cursor'[r] = cursor[r] + n(r)
      /\ \A w \in Worker : cursor'[w] = cursor[w]
    BY <1>1, <1>2, <1>3 DEF TypeOK, StreamsOK
<1>5. StreamsOK'
    <2>1. ASSUME NEW r \in Reader
          PROVE  DOMAIN pel'[r] \subseteq 1..cursor'[r] /\ pel'[r] \in [DOMAIN pel'[r] -> Nat]
        <3>1. CASE r \in some
            <4>1. pel'[r] = [i \in (DOMAIN pel[r]) \cup new(r) |->
                                IF i \in new(r) THEN 1 ELSE pel[r][i]]
                BY <1>1, <3>1 DEF XReadGroup
            <4>2. /\ DOMAIN pel[r] \subseteq 1..cursor[r] /\ pel[r] \in [DOMAIN pel[r] -> Nat]
                  /\ cursor[r] \in Nat /\ n(r) \in Nat /\ cursor'[r] = cursor[r] + n(r)
                  /\ new(r) = (cursor[r] + 1)..(cursor[r] + n(r))
                BY <1>2, <1>4, <3>1 DEF TypeOK, StreamsOK
            <4>3. DOMAIN pel[r] \subseteq 1..cursor'[r] /\ new(r) \subseteq 1..cursor'[r]
                BY <4>2
            <4>4. DOMAIN pel'[r] = (DOMAIN pel[r]) \cup new(r)
                BY <4>1
            <4>5. QED
                BY <4>1, <4>2, <4>3, <4>4
        <3>2. CASE r \notin some
            <4>1. pel'[r] = pel[r] /\ cursor'[r] = cursor[r]
                BY <1>1, <3>2
            <4>2. QED
                BY <4>1 DEF TypeOK, StreamsOK
        <3>3. QED
            BY <3>1, <3>2
    <2>2. QED
        BY <1>1, <1>4, <2>1 DEF TypeOK, StreamsOK
<1>6. WorkersOK'
    BY <1>1, <1>4 DEF TypeOK, WorkersOK
<1>7. BackendOK'
    <2>1. ASSUME NEW r \in some
          PROVE  /\ Batch(r, new(r)) \in Goroutine
                 /\ Batch(r, new(r)).reader = r /\ Batch(r, new(r)).todo = new(r)
                 /\ new(r) \subseteq 1..cursor'[r]
        <3>1. new(r) \subseteq Nat /\ new(r) \subseteq 1..cursor'[r] /\ r \in BffReader
            BY <1>2, <1>3, <1>4
        <3>2. QED
            BY <3>1 DEF Batch, Goroutine, NoRow, Row, Absent
    <2>2. ASSUME NEW g \in hub
          PROVE  g.todo \subseteq 1..cursor'[g.reader]
        <3>1. g \in Goroutine /\ g.todo \subseteq 1..cursor[g.reader]
            BY DEF TypeOK, BackendOK
        <3>2. g.reader \in Reader
            BY <1>3, <3>1 DEF Goroutine
        <3>3. cursor[g.reader] \in Nat /\ cursor'[g.reader] \in Nat
            BY <1>4, <3>2 DEF TypeOK, StreamsOK
        <3>4. QED
            BY <1>4, <3>1, <3>2, <3>3
    <2>3. \A g \in hub' : g \in Goroutine /\ g.todo \subseteq 1..cursor'[g.reader]
        <3>1. SUFFICES ASSUME NEW g \in hub'
                       PROVE  g \in Goroutine /\ g.todo \subseteq 1..cursor'[g.reader]
            OBVIOUS
        <3>2. CASE g \in hub
            BY <2>2, <3>2 DEF TypeOK, BackendOK
        <3>3. CASE g \notin hub
            <4>1. PICK r \in some : g = Batch(r, new(r))
                BY <1>1, <3>3
            <4>2. QED
                BY <2>1, <4>1
        <3>4. QED
            BY <3>2, <3>3
    <2>4. QED
        BY <1>1, <2>3 DEF TypeOK, BackendOK
<1>8. QED
    BY <1>5, <1>6, <1>7

LEMMA ReclaimType ==
    ASSUME TypeOK, NEW r \in BffReader, Reclaim(r), UNCHANGED <<log, cursor>>
    PROVE  /\ StreamsOK'
           /\ hub' \subseteq Goroutine
           /\ \A g \in hub' : g.todo \subseteq 1..cursor[g.reader]
<1>1. PICK idle \in SUBSET DOMAIN pel[r] :
        /\ pel' = [pel EXCEPT ![r] = XAutoClaim(@, idle)]
        /\ hub' = IF idle = {} THEN hub ELSE hub \cup {Batch(r, idle)}
    BY DEF Reclaim
<1>2. r \in Reader /\ cursor[r] \in Nat /\ DOMAIN pel[r] \subseteq 1..cursor[r]
    BY DEF Reader, BffReader, TypeOK, StreamsOK
<1>3. StreamsOK'
    BY <1>1, <1>2, ClaimKeepsStreams DEF TypeOK
<1>4. idle \subseteq 1..cursor[r] /\ idle \in SUBSET Nat
    BY <1>2
<1>5. Batch(r, idle) \in Goroutine /\ Batch(r, idle).todo = idle /\ Batch(r, idle).reader = r
    BY <1>4 DEF Batch, Goroutine, NoRow, Row, Absent
<1>6. QED
    BY <1>1, <1>3, <1>4, <1>5 DEF TypeOK, BackendOK

LEMMA BackendType ==
    ASSUME TypeOK, BffNext
    PROVE  TypeOK'
<1>1. CASE Listen
    BY <1>1, ListenType DEF Listen, TypeOK, StoreOK, store
<1>2. CASE BffCrash
    <2>1. StoreOK'
        <3>1. \A r \in Request : [req[r] EXCEPT !.pc = "error"] \in [pc : ReqPC, user : User, art : Article]
            BY DEF TypeOK, StoreOK, ReqPC
        <3>2. QED
            BY <1>2, <3>1 DEF BffCrash, TypeOK, StoreOK, store
    <2>2. QED
        BY <1>2, <2>1 DEF BffCrash, TypeOK, StreamsOK, WorkersOK, BackendOK, streams, workers, Trouble
<1>3. CASE BffStart
    BY <1>3, ReclaimType DEF BffStart, TypeOK, StoreOK, WorkersOK, BackendOK, store, workers, BffReader
<1>4. CASE ReclaimNext
    BY <1>4, ReclaimType DEF ReclaimNext, TypeOK, StoreOK, WorkersOK, BackendOK, store, workers, BffReader
<1>5. CASE ReclaimEnd
    BY <1>5 DEF ReclaimEnd, TypeOK, StoreOK, StreamsOK, WorkersOK, BackendOK, store, streams, workers
<1>6. CASE \E g \in hub : \E i \in g.todo : HandlerNext(g, i)
    BY <1>6, HandlerType
<1>7. QED
    BY <1>1, <1>2, <1>3, <1>4, <1>5, <1>6 DEF BffNext

LEMMA InitType == Init => TypeOK
<1>1. SUFFICES ASSUME Init PROVE TypeOK
    OBVIOUS
<1>2. StoreOK
    <2>1. req \in [Request -> [pc : ReqPC, user : User, art : Article]]
        <3>1. [pc : {"idle"}, user : User, art : Article]
                \subseteq [pc : ReqPC, user : User, art : Article]
            BY DEF ReqPC
        <3>2. QED
            BY <1>1, <3>1 DEF Init
    <2>2. rows \in [Article -> Row] /\ links = {}
        BY <1>1 DEF Init, Row, NoRow, Absent
    <2>3. QED
        BY <2>1, <2>2 DEF StoreOK
<1>3. StreamsOK
    <2>1. /\ \A r \in Reader : Source(r) \in Stream
          /\ <<>> \in Seq(Entry) /\ Len(<<>>) = 0
        BY DEF Reader, BffReader, Worker, Source, Stream
    <2>2. QED
        BY <1>1, <2>1 DEF Init, StreamsOK
<1>4. WorkersOK
    BY <1>1 DEF Init, WorkersOK, Sweep, NoSweep
<1>5. QED
    BY <1>1, <1>2, <1>3, <1>4 DEF Init, TypeOK, BackendOK

LEMMA StutterType == TypeOK /\ UNCHANGED vars => TypeOK'
BY DEF vars, TypeOK, StoreOK, StreamsOK, WorkersOK, BackendOK

LEMMA NextType == TypeOK /\ [Next]_vars => TypeOK'
BY RequestType, WorkerType, BackendType, StutterType DEF Next

\* Every state the pipeline reaches is well formed: in particular nothing is
\* pending, processed or claimed that was not delivered, and nothing delivered
\* that was not published.
THEOREM TypeCorrect == Spec => []TypeOK
<1>1. Init => TypeOK
    BY InitType
<1>2. TypeOK /\ [Next]_vars => TypeOK'
    BY NextType
<1>3. QED
    BY <1>1, <1>2, PTL DEF Spec

----------------------------------------------------------------------------
(* The streams are append-only *)

LogStep ==
    log' = log \/ \E s \in Stream, a \in Article, k \in Kind : XAdd(s, a, k)

LEMMA NextLogStep ==
    ASSUME TypeOK, [Next]_vars
    PROVE  LogStep
<1>1. "jobs" \in Stream /\ {"job", "error"} \subseteq Kind
    BY DEF Stream, Kind
<1>2. ASSUME NEW r \in Request, ReqNext(r)
      PROVE  LogStep
    <2>1. req[r].art \in Article
        BY DEF TypeOK, StoreOK
    <2>2. CASE ReqSubmit(r)
        BY <1>1, <2>1, <2>2 DEF ReqSubmit, LogStep
    <2>3. ~ReqSubmit(r) => log' = log
        BY <1>2 DEF ReqNext, ReqStart, ReqCheck, ReqFind, ReqLink, ReqCreate, ReqRelate,
                    ReqFail, streams
    <2>4. QED
        BY <2>2, <2>3 DEF LogStep
<1>3. ASSUME NEW w \in Worker, WorkerNext(w)
      PROVE  LogStep
    <2>1. Out(w) \in Stream /\ Success(w) \in Kind /\ w \in Reader
        BY StreamOfWorker DEF Success, Kind
    <2>2. CASE Consume(w)
        BY <2>2 DEF Consume, LogStep
    <2>3. CASE SweepNext(w)
        <3>1. CASE SweepGiveUp(w)
            <4>1. PICK i \in sweep[w].todo : XAdd(Out(w), EntryAt(w, i).art, "error")
                BY <3>1 DEF SweepGiveUp
            <4>2. EntryAt(w, i).art \in Article
                BY <2>1, DeliveredEntry DEF TypeOK, WorkersOK, Entry
            <4>3. QED
                BY <1>1, <2>1, <4>1, <4>2 DEF LogStep
        <3>2. ~SweepGiveUp(w) => log' = log
            BY <2>3 DEF SweepNext, SweepClaim, SweepCount, SweepRetry, SweepEnd, streams
        <3>3. QED
            BY <3>1, <3>2 DEF LogStep
    <2>4. CASE WorkerCrash(w)
        BY <2>4 DEF WorkerCrash, LogStep, streams
    <2>5. ASSUME NEW p \in procs[w], ProcNext(w, p)
          PROVE  LogStep
        <3>1. Task(w, p).art \in Article
            BY <2>1, DeliveredEntry DEF TypeOK, WorkersOK, Entry, Task
        <3>2. CASE Publish(w, p)
            BY <2>1, <3>1, <3>2 DEF Publish, LogStep
        <3>3. CASE Report(w, p)
            BY <1>1, <2>1, <3>1, <3>3 DEF Report, LogStep
        <3>4. ~Publish(w, p) /\ ~Report(w, p) => log' = log
            BY <2>5 DEF ProcNext, AckInput, ProcessFails, AckFails, Reject, Abort, SweepDrop, streams
        <3>5. QED
            BY <3>2, <3>3, <3>4 DEF LogStep
    <2>6. QED
        BY <1>3, <2>2, <2>3, <2>4, <2>5 DEF WorkerNext
<1>4. CASE BffNext
    BY <1>4, BackendFrame DEF LogStep
<1>5. CASE UNCHANGED vars
    BY <1>5 DEF vars, LogStep
<1>6. QED
    BY <1>2, <1>3, <1>4, <1>5 DEF Next

LEMMA StreamsGrow ==
    ASSUME TypeOK, [Next]_vars, NEW s \in Stream
    PROVE  /\ Len(log[s]) \in Nat /\ Len(log'[s]) \in Nat /\ Len(log[s]) <= Len(log'[s])
           /\ \A i \in 1..Len(log[s]) : log'[s][i] = log[s][i]
<1>1. log \in [Stream -> Seq(Entry)] /\ Len(log[s]) \in Nat
    BY DEF TypeOK, StreamsOK
<1>2. CASE log' = log
    BY <1>1, <1>2
<1>3. CASE \E t \in Stream, a \in Article, k \in Kind : XAdd(t, a, k)
    <2>1. PICK t \in Stream, a \in Article, k \in Kind : XAdd(t, a, k)
        BY <1>3
    <2>2. /\ \A u \in Stream \ {t} : log'[u] = log[u]
          /\ Len(log'[t]) = Len(log[t]) + 1
          /\ \A i \in 1..Len(log[t]) : log'[t][i] = log[t][i]
        BY <2>1, XAddAppends DEF TypeOK
    <2>3. QED
        BY <1>1, <2>2
<1>4. QED
    BY <1>2, <1>3, NextLogStep DEF LogStep

LEMMA PublishedStays ==
    ASSUME TypeOK, [Next]_vars, NEW s \in Stream, NEW a, NEW kinds, Published(s, a, kinds)
    PROVE  Published(s, a, kinds)'
<1>1. PICK i \in 1..Len(log[s]) : log[s][i].art = a /\ log[s][i].kind \in kinds
    BY DEF Published
<1>2. i \in 1..Len(log'[s]) /\ log'[s][i] = log[s][i]
    BY <1>1, StreamsGrow
<1>3. QED
    BY <1>1, <1>2 DEF Published

LEMMA XAddPublishes ==
    ASSUME StreamsOK, NEW s \in Stream, NEW a \in Article, NEW k \in Kind, XAdd(s, a, k),
           NEW kinds, k \in kinds
    PROVE  Published(s, a, kinds)'
<1>1. /\ log'[s] \in Seq(Entry) /\ Len(log'[s]) = Len(log[s]) + 1 /\ Len(log[s]) \in Nat
      /\ log'[s][Len(log[s]) + 1] = [art |-> a, kind |-> k]
    BY XAddAppends DEF StreamsOK
<1>2. Len(log[s]) + 1 \in 1..Len(log'[s])
    BY <1>1
<1>3. QED
    BY <1>1, <1>2 DEF Published

LEMMA EntryStays ==
    ASSUME TypeOK, [Next]_vars, NEW r \in Reader, NEW i \in 1..cursor[r]
    PROVE  EntryAt(r, i)' = EntryAt(r, i)
<1>1. Source(r) \in Stream
    BY DEF Reader, BffReader, Worker, Source, Stream
<1>2. i \in 1..Len(log[Source(r)])
    BY DeliveredEntry DEF TypeOK
<1>3. QED
    BY <1>1, <1>2, StreamsGrow DEF EntryAt

LEMMA AnswerStays ==
    ASSUME TypeOK, [Next]_vars, NEW w \in Worker, NEW i \in 1..cursor[w], Answered(w, i)
    PROVE  Answered(w, i)'
<1>1. /\ w \in Reader /\ Source(w) = In(w) /\ Out(w) \in Stream
      /\ log'[In(w)][i] = log[In(w)][i]
    BY StreamOfWorker, EntryStays DEF EntryAt
<1>2. CASE log[In(w)][i].kind = "error"
    BY <1>1, <1>2 DEF Answered
<1>3. CASE Published(Out(w), log[In(w)][i].art, {Success(w), "error"})
    <2>1. PICK a : a = log[In(w)][i].art
        OBVIOUS
    <2>2. Published(Out(w), a, {Success(w), "error"})'
        BY <1>1, <1>3, <2>1, PublishedStays
    <2>3. log'[In(w)][i].art = a
        BY <1>1, <2>1
    <2>4. QED
        BY <2>2, <2>3 DEF Answered
<1>4. QED
    BY <1>2, <1>3 DEF Answered

----------------------------------------------------------------------------
(* Who acknowledges what *)

\* A step of one worker does not touch the other groups.
LEMMA OtherGroups ==
    ASSUME TypeOK, NEW v \in Worker, WorkerNext(v), NEW r \in Reader \ {v}
    PROVE  pel'[r] = pel[r] /\ cursor'[r] = cursor[r]
<1>1. v \in Reader /\ r \in Reader
    BY StreamOfWorker
<1>2. CASE Consume(v)
    BY <1>1, <1>2 DEF Consume, TypeOK, StreamsOK
<1>3. CASE SweepNext(v)
    BY <1>1, <1>3 DEF SweepNext, SweepClaim, SweepCount, SweepRetry, SweepGiveUp, SweepEnd,
                      streams, TypeOK, StreamsOK
<1>4. CASE WorkerCrash(v)
    BY <1>4 DEF WorkerCrash, streams
<1>5. ASSUME NEW p \in procs[v], ProcNext(v, p)
      PROVE  pel'[r] = pel[r] /\ cursor'[r] = cursor[r]
    <2>1. CASE AckInput(v, p) \/ Reject(v, p) \/ SweepDrop(v, p)
        BY <1>1, <2>1 DEF AckInput, Reject, SweepDrop, Ack, TypeOK, StreamsOK
    <2>2. CASE ~(AckInput(v, p) \/ Reject(v, p) \/ SweepDrop(v, p))
        BY <1>5, <2>2 DEF ProcNext, Publish, ProcessFails, AckFails, Report, Abort, streams
    <2>3. QED
        BY <2>1, <2>2
<1>6. QED
    BY <1>2, <1>3, <1>4, <1>5 DEF WorkerNext

\* A worker's own step acknowledges at most the input it has answered.
LEMMA WorkerAcks ==
    ASSUME TypeOK, FinishedAnswered, NEW w \in Worker, WorkerNext(w),
           NEW i \in Nat \ {0}, IsAcked(w, i)', ~IsAcked(w, i)
    PROVE  i \in 1..cursor[w] /\ Answered(w, i)
<1>1. /\ w \in Reader /\ Source(w) = In(w) /\ cursor[w] \in Nat
      /\ i <= cursor'[w] /\ i \notin DOMAIN pel'[w]
      /\ i > cursor[w] \/ i \in DOMAIN pel[w]
      /\ DOMAIN pel[w] \subseteq 1..cursor[w]
    BY StreamOfWorker DEF IsAcked, Acked, TypeOK, StreamsOK
<1>2. CASE Consume(w)
    <2> DEFINE new == Undelivered(log[In(w)], cursor[w], BatchSize)
               n == Cardinality(new)
    <2>1. /\ cursor' = [cursor EXCEPT ![w] = cursor[w] + n]
          /\ pel' = [pel EXCEPT ![w] = XReadGroup(pel[w], new)]
        BY <1>2 DEF Consume
    <2>2. n \in Nat /\ new = (cursor[w] + 1)..(cursor[w] + n)
        <3>1. /\ log[In(w)] \in Seq(Entry) /\ BatchSize \in Nat \ {0}
              /\ cursor[w] <= Len(log[In(w)])
            BY <1>1, StreamOfWorker, PipelineAssumption DEF TypeOK, StreamsOK
        <3>2. QED
            BY <1>1, <3>1, UndeliveredInterval
    <2> HIDE DEF n, new
    <2>3. cursor'[w] = cursor[w] + n /\ DOMAIN pel'[w] = DOMAIN pel[w] \cup new
        BY <1>1, <2>1 DEF TypeOK, StreamsOK, XReadGroup
    <2>4. QED
        BY <1>1, <2>2, <2>3
<1>3. CASE SweepNext(w)
    <2>1. DOMAIN pel'[w] = DOMAIN pel[w] /\ cursor' = cursor
        <3>1. CASE SweepClaim(w)
            <4>1. PICK idle : pel' = [pel EXCEPT ![w] = XAutoClaim(@, idle)]
                BY <3>1 DEF SweepClaim
            <4>2. UNCHANGED <<log, cursor>>
                BY <3>1 DEF SweepClaim
            <4>3. QED
                BY <1>1, <4>1, <4>2, ClaimKeepsStreams DEF TypeOK
        <3>2. CASE ~SweepClaim(w)
            BY <1>3, <3>2 DEF SweepNext, SweepCount, SweepRetry, SweepGiveUp, SweepEnd, streams
        <3>3. QED
            BY <3>1, <3>2
    <2>2. QED
        BY <1>1, <2>1
<1>4. CASE WorkerCrash(w)
    BY <1>1, <1>4 DEF WorkerCrash, streams
<1>5. ASSUME NEW p \in procs[w], ProcNext(w, p)
      PROVE  i \in 1..cursor[w] /\ Answered(w, i)
    <2>1. cursor' = cursor /\ i \in DOMAIN pel[w]
        BY <1>1, <1>5, ProcFrame
    <2>2. CASE AckInput(w, p) \/ SweepDrop(w, p)
        <3>1. Ack(w, p.i) /\ log' = log /\ p.pc # "run"
            BY <2>2 DEF AckInput, SweepDrop
        <3>2. DOMAIN pel'[w] = DOMAIN pel[w] \ {p.i}
            BY <1>1, <2>1, <3>1, AckKeepsStreams DEF TypeOK
        <3>3. i = p.i
            BY <1>1, <2>1, <3>2
        <3>4. QED
            BY <1>1, <2>1, <3>1, <3>3 DEF FinishedAnswered
    <2>3. CASE Reject(w, p)
        <3>1. Ack(w, p.i) /\ log' = log /\ Malformed(w, p)
            BY <2>3 DEF Reject
        <3>2. DOMAIN pel'[w] = DOMAIN pel[w] \ {p.i}
            BY <1>1, <2>1, <3>1, AckKeepsStreams DEF TypeOK
        <3>3. i = p.i
            BY <1>1, <2>1, <3>2
        <3>4. QED
            BY <1>1, <2>1, <3>1, <3>3 DEF Answered, Malformed, Task, EntryAt
    <2>4. CASE ~(AckInput(w, p) \/ Reject(w, p) \/ SweepDrop(w, p))
        <3>1. pel' = pel
            BY <1>5, <2>4 DEF ProcNext, Publish, ProcessFails, AckFails, Report, Abort, streams
        <3>2. QED
            BY <1>1, <2>1, <3>1
    <2>5. QED
        BY <2>2, <2>3, <2>4
<1>6. QED
    BY <1>2, <1>3, <1>4, <1>5 DEF WorkerNext

\* The listener leaves the workers' groups alone.
LEMMA BackendGroups ==
    ASSUME TypeOK, BffNext, NEW w \in Worker
    PROVE  pel'[w] = pel[w] /\ cursor'[w] = cursor[w]
<1>1. w \in Reader /\ w \notin BffReader
    BY DEF Worker, Reader, BffReader
<1>2. CASE Listen
    BY <1>1, <1>2 DEF Listen
<1>3. \A r \in BffReader : Reclaim(r) => pel'[w] = pel[w]
    BY <1>1 DEF Reclaim, TypeOK, StreamsOK
<1>4. CASE BffStart \/ ReclaimNext
    BY <1>3, <1>4 DEF BffStart, ReclaimNext, BffReader
<1>5. CASE BffCrash \/ ReclaimEnd
    BY <1>5 DEF BffCrash, ReclaimEnd, streams
<1>6. ASSUME NEW g \in hub, NEW i \in g.todo, HandlerNext(g, i)
      PROVE  pel'[w] = pel[w] /\ cursor'[w] = cursor[w]
    <2>1. g.reader \in BffReader
        BY DEF TypeOK, BackendOK, Goroutine
    <2>2. pel' = pel \/ Ack(g.reader, i)
        BY <1>6 DEF HandlerNext, HandleScrapeResult, HandleRefused, HandlePhonemizerResult,
                    HandleErrorRead, HandleErrorWrite, HubAck, HubFail, streams
    <2>3. QED
        BY <1>1, <1>6, <2>1, <2>2, HandlerFrame DEF Ack, TypeOK, StreamsOK
<1>7. QED
    BY <1>2, <1>4, <1>5, <1>6 DEF BffNext

LEMMA AnsweredBeforeAckedStep ==
    ASSUME PipelineInv, [Next]_vars
    PROVE  AnsweredBeforeAcked'
<1>1. SUFFICES ASSUME NEW w \in Worker, NEW i \in 1..Len(log'[In(w)]), IsAcked(w, i)'
               PROVE  Answered(w, i)'
    BY DEF AnsweredBeforeAcked, Answered
<1>2. w \in Reader /\ Source(w) = In(w) /\ In(w) \in Stream /\ i \in Nat \ {0}
    BY StreamOfWorker
<1>3. ASSUME IsAcked(w, i)
      PROVE  i \in 1..cursor[w] /\ Answered(w, i)
    <2>1. i \in 1..cursor[w]
        BY <1>2, <1>3 DEF IsAcked, Acked, PipelineInv, TypeOK, StreamsOK
    <2>2. i \in 1..Len(log[In(w)])
        BY <1>2, <2>1, DeliveredEntry DEF PipelineInv, TypeOK
    <2>3. QED
        BY <1>3, <2>1, <2>2 DEF PipelineInv, AnsweredBeforeAcked, Answered
<1>4. ASSUME pel'[w] = pel[w], cursor'[w] = cursor[w]
      PROVE  IsAcked(w, i)
    BY <1>1, <1>4 DEF IsAcked
<1>5. i \in 1..cursor[w] /\ Answered(w, i)
    <2>1. ASSUME NEW r \in Request, ReqNext(r)
          PROVE  IsAcked(w, i)
        BY <1>4, <2>1, RequestFrame
    <2>2. ASSUME NEW v \in Worker, WorkerNext(v)
          PROVE  i \in 1..cursor[w] /\ Answered(w, i)
        <3>1. CASE v = w
            BY <1>1, <1>2, <1>3, <2>2, <3>1, WorkerAcks DEF PipelineInv
        <3>2. CASE v # w
            BY <1>2, <1>3, <1>4, <2>2, <3>2, OtherGroups DEF PipelineInv
        <3>3. QED
            BY <3>1, <3>2
    <2>3. CASE BffNext
        BY <1>3, <1>4, <2>3, BackendGroups DEF PipelineInv
    <2>4. CASE UNCHANGED vars
        BY <1>3, <1>4, <2>4 DEF vars
    <2>5. QED
        BY <1>3, <2>1, <2>2, <2>3, <2>4 DEF Next
<1>6. QED
    BY <1>5, AnswerStays DEF PipelineInv

\* A task that has answered its input stays one that has.
LEMMA FinishedStays ==
    ASSUME PipelineInv, [Next]_vars, NEW w \in Worker, NEW p \in procs[w], p.pc # "run"
    PROVE  Answered(w, p.i)'
<1>1. p.i \in 1..cursor[w] /\ Answered(w, p.i)
    BY DEF PipelineInv, FinishedAnswered, TypeOK, WorkersOK
<1>2. PICK i \in 1..cursor[w] : i = p.i /\ Answered(w, i)
    BY <1>1
<1>3. Answered(w, i)'
    BY <1>2, AnswerStays DEF PipelineInv
<1>4. QED
    BY <1>2, <1>3

LEMMA FinishedAnsweredStep ==
    ASSUME PipelineInv, [Next]_vars
    PROVE  FinishedAnswered'
<1>1. SUFFICES ASSUME NEW w \in Worker, NEW q \in procs'[w], q.pc # "run"
               PROVE  Answered(w, q.i)'
    BY DEF FinishedAnswered
<1>2. q \in procs[w] => Answered(w, q.i)'
    BY <1>1, FinishedStays
<1>3. TypeOK /\ procs \in [Worker -> SUBSET Proc]
    BY DEF PipelineInv, TypeOK, WorkersOK
<1>4. ASSUME NEW r \in Request, ReqNext(r)
      PROVE  q \in procs[w]
    BY <1>4, RequestFrame
<1>5. CASE BffNext
    BY <1>2, <1>5, BackendFrame
<1>6. CASE UNCHANGED vars
    BY <1>2, <1>6 DEF vars
<1>7. ASSUME NEW v \in Worker, WorkerNext(v), q \notin procs[w]
      PROVE  Answered(w, q.i)'
    <2>1. /\ w \in Reader /\ Source(w) = In(w) /\ Out(w) \in Stream
          /\ Success(w) \in Kind /\ "error" \in Kind
          /\ Success(w) \in {Success(w), "error"} /\ "error" \in {Success(w), "error"}
        BY StreamOfWorker DEF Success, Kind
    <2>2. CASE Consume(v)
        <3>1. procs' = [procs EXCEPT ![v] = procs[v] \cup
                 [by : {"main"}, i : Undelivered(log[In(v)], cursor[v], BatchSize), pc : {"run"}]]
            BY <2>2 DEF Consume
        <3>2. QED
            BY <1>1, <1>3, <1>7, <3>1
    <2>3. CASE SweepNext(v)
        <3>1. CASE SweepRetry(v)
            <4>1. PICK i \in sweep[v].todo :
                    procs' = [procs EXCEPT ![v] = procs[v] \cup {[by |-> "retry", i |-> i, pc |-> "run"]}]
                BY <3>1 DEF SweepRetry
            <4>2. QED
                BY <1>1, <1>3, <1>7, <4>1
        <3>2. CASE SweepGiveUp(v)
            <4>1. PICK i \in sweep[v].todo :
                    /\ XAdd(Out(v), EntryAt(v, i).art, "error")
                    /\ procs' = [procs EXCEPT ![v] = procs[v] \cup {[by |-> "retry", i |-> i, pc |-> "drop"]}]
                BY <3>2 DEF SweepGiveUp
            <4>2. v = w /\ q.i = i
                BY <1>1, <1>3, <1>7, <4>1
            <4>3. i \in 1..cursor[w]
                BY <1>3, <4>2 DEF TypeOK, WorkersOK
            <4>4. EntryAt(w, i) \in Entry /\ EntryAt(w, i)' = EntryAt(w, i)
                BY <1>3, <2>1, <4>3, DeliveredEntry, EntryStays DEF TypeOK
            <4>5. PICK a \in Article : a = EntryAt(w, i).art
                BY <4>4 DEF Entry
            <4>6. Published(Out(w), a, {Success(w), "error"})'
                BY <1>3, <2>1, <4>1, <4>2, <4>5, XAddPublishes DEF TypeOK
            <4>7. log'[In(w)][i].art = a
                BY <2>1, <4>4, <4>5 DEF EntryAt
            <4>8. QED
                BY <4>2, <4>6, <4>7 DEF Answered
        <3>3. CASE SweepClaim(v) \/ SweepCount(v) \/ SweepEnd(v)
            BY <1>7, <3>3 DEF SweepClaim, SweepCount, SweepEnd
        <3>4. QED
            BY <2>3, <3>1, <3>2, <3>3 DEF SweepNext
    <2>4. CASE WorkerCrash(v)
        BY <1>3, <1>7, <2>4 DEF WorkerCrash
    <2>5. ASSUME NEW p \in procs[v], ProcNext(v, p)
          PROVE  Answered(w, q.i)'
        <3>1. v = w /\ (Publish(w, p) \/ Reject(w, p)) /\ q.i = p.i
            <4>1. CASE Publish(v, p)
                <5>1. procs' = [procs EXCEPT ![v] = (procs[v] \ {p}) \cup {[p EXCEPT !.pc = "ack"]}]
                    BY <4>1 DEF Publish, Step
                <5>2. [p EXCEPT !.pc = "ack"].i = p.i
                    BY <1>3 DEF Proc
                <5>3. QED
                    BY <1>1, <1>3, <1>7, <4>1, <5>1, <5>2
            <4>2. CASE Reject(v, p)
                <5>1. procs' = [procs EXCEPT ![v] = (procs[v] \ {p}) \cup {[p EXCEPT !.pc = "report"]}]
                    BY <4>2 DEF Reject, Step
                <5>2. [p EXCEPT !.pc = "report"].i = p.i
                    BY <1>3 DEF Proc
                <5>3. QED
                    BY <1>1, <1>3, <1>7, <4>2, <5>1, <5>2
            <4>3. CASE ~Publish(v, p) /\ ~Reject(v, p)
                BY <1>3, <1>7, <2>5, <4>3
                DEF ProcNext, AckInput, ProcessFails, AckFails, Report, Abort, SweepDrop, Return
            <4>4. QED
                BY <4>1, <4>2, <4>3
        <3>2. p.i \in 1..cursor[w] /\ p \in procs[w]
            BY <1>3, <3>1 DEF TypeOK, WorkersOK
        <3>3. PICK i \in 1..cursor[w] : i = p.i
            BY <3>2
        <3>4. EntryAt(w, i) \in Entry /\ EntryAt(w, i)' = EntryAt(w, i)
            BY <1>3, <2>1, DeliveredEntry, EntryStays DEF TypeOK
        <3>5. CASE Publish(w, p)
            <4>1. PICK a \in Article : a = EntryAt(w, i).art
                BY <3>4 DEF Entry
            <4>2. XAdd(Out(w), a, Success(w))
                BY <3>3, <3>5, <4>1 DEF Publish, Task
            <4>3. Published(Out(w), a, {Success(w), "error"})'
                BY <1>3, <2>1, <4>2, XAddPublishes DEF TypeOK
            <4>4. log'[In(w)][i].art = a
                BY <2>1, <3>4, <4>1 DEF EntryAt
            <4>5. QED
                BY <3>1, <3>3, <4>3, <4>4 DEF Answered
        <3>6. CASE Reject(w, p)
            <4>1. EntryAt(w, i).kind = "error"
                BY <3>3, <3>6 DEF Reject, Malformed, Task
            <4>2. log'[In(w)][i].kind = "error"
                BY <2>1, <3>4, <4>1 DEF EntryAt
            <4>3. QED
                BY <3>1, <3>3, <4>2 DEF Answered
        <3>7. QED
            BY <3>1, <3>5, <3>6
    <2>6. QED
        BY <1>7, <2>2, <2>3, <2>4, <2>5 DEF WorkerNext
<1>8. QED
    BY <1>2, <1>4, <1>5, <1>6, <1>7 DEF Next

----------------------------------------------------------------------------
(* What happens to a row *)

RowsStep ==
    \/ rows' = rows
    \/ \E a \in Article :
         \/ /\ rows[a].status = Absent
            /\ rows' = [rows EXCEPT ![a] = [NoRow EXCEPT !.status = "processing"]]
         \/ ApplyScrapeResult(a)
         \/ ApplyPhonemizerResult(a)
         \/ \E row \in Row : UpdateArticle(a, [row EXCEPT !.status = "failed"])

LEMMA NextRowsStep ==
    ASSUME TypeOK, [Next]_vars
    PROVE  RowsStep
<1>1. ASSUME NEW r \in Request, ReqNext(r)
      PROVE  RowsStep
    <2>1. req[r].art \in Article
        BY DEF TypeOK, StoreOK
    <2>2. CASE ReqCreate(r)
        BY <2>1, <2>2 DEF ReqCreate, RowExists, RowsStep
    <2>3. CASE ~ReqCreate(r)
        BY <1>1, <2>3 DEF ReqNext, ReqStart, ReqCheck, ReqFind, ReqLink, ReqRelate, ReqSubmit,
                          ReqFail, store, RowsStep
    <2>4. QED
        BY <2>2, <2>3
<1>2. ASSUME NEW w \in Worker, WorkerNext(w)
      PROVE  RowsStep
    BY <1>2, WorkerFrame DEF RowsStep
<1>3. ASSUME NEW g \in hub, NEW i \in g.todo, HandlerNext(g, i)
      PROVE  RowsStep
    <2>1. g \in Goroutine /\ g.reader \in Reader /\ i \in 1..cursor[g.reader]
        BY DEF TypeOK, BackendOK, Goroutine, Reader, BffReader
    <2>2. EntryAt(g.reader, i).art \in Article /\ g.seen \in Row
        BY <2>1, DeliveredEntry DEF TypeOK, Entry, Goroutine
    <2>3. CASE HandleErrorWrite(g, i)
        BY <2>2, <2>3 DEF HandleErrorWrite, RowsStep
    <2>4. CASE HandleScrapeResult(g, i) \/ HandlePhonemizerResult(g, i)
        BY <2>2, <2>4 DEF HandleScrapeResult, HandlePhonemizerResult, RowsStep
    <2>5. CASE HandleRefused(g, i) \/ HandleErrorRead(g, i) \/ HubAck(g, i) \/ HubFail(g, i)
        BY <2>5 DEF HandleRefused, HandleErrorRead, HubAck, HubFail, store, RowsStep
    <2>6. QED
        BY <1>3, <2>3, <2>4, <2>5 DEF HandlerNext
<1>4. CASE Listen \/ BffCrash \/ BffStart \/ ReclaimNext \/ ReclaimEnd
    BY <1>4 DEF Listen, BffCrash, BffStart, ReclaimNext, ReclaimEnd, store, RowsStep
<1>5. CASE UNCHANGED vars
    BY <1>5 DEF vars, RowsStep
<1>6. QED
    BY <1>1, <1>2, <1>3, <1>4, <1>5 DEF Next, BffNext

\* A row a result was applied to never goes back to "processing".
LEMMA StatusStays ==
    ASSUME TypeOK, [Next]_vars, NEW a \in Article, rows[a].status \notin {"processing", Absent}
    PROVE  rows'[a].status \notin {"processing", Absent}
<1>1. RowsStep /\ rows \in [Article -> Row]
    BY NextRowsStep DEF TypeOK, StoreOK
<1>2. CASE rows' = rows
    BY <1>2
<1>3. ASSUME NEW b \in Article,
             \/ /\ rows[b].status = Absent
                /\ rows' = [rows EXCEPT ![b] = [NoRow EXCEPT !.status = "processing"]]
             \/ ApplyScrapeResult(b)
             \/ ApplyPhonemizerResult(b)
             \/ \E row \in Row : UpdateArticle(b, [row EXCEPT !.status = "failed"])
      PROVE  rows'[a].status \notin {"processing", Absent}
    BY <1>1, <1>3 DEF ApplyScrapeResult, ApplyPhonemizerResult, UpdateArticle, Row, Absent
<1>4. QED
    BY <1>1, <1>2, <1>3 DEF RowsStep

LEMMA AppliedStays ==
    ASSUME TypeOK, [Next]_vars, NEW r \in Reader, NEW i \in 1..cursor[r], Applied(r, i)
    PROVE  Applied(r, i)'
<1>1. EntryAt(r, i) \in Entry /\ EntryAt(r, i)' = EntryAt(r, i)
    BY DeliveredEntry, EntryStays DEF TypeOK
<1>2. PICK a \in Article : a = EntryAt(r, i).art
    BY <1>1 DEF Entry
<1>3. rows'[a].status \notin {"processing", Absent}
    BY <1>2, StatusStays DEF Applied
<1>4. QED
    BY <1>1, <1>2, <1>3 DEF Applied

LEMMA ReadyHasBothStep ==
    ASSUME TypeOK, ReadyHasBoth, [Next]_vars
    PROVE  ReadyHasBoth'
<1>1. SUFFICES ASSUME NEW a \in Article, rows'[a].status = "ready"
               PROVE  rows'[a].html /\ rows'[a].phonemes
    BY DEF ReadyHasBoth
<1>2. RowsStep /\ rows \in [Article -> Row]
    BY NextRowsStep DEF TypeOK, StoreOK
<1>3. CASE rows'[a] = rows[a]
    BY <1>1, <1>3 DEF ReadyHasBoth
<1>4. CASE ApplyScrapeResult(a)
    <2>1. rows'[a] = [rows[a] EXCEPT !.html = TRUE,
                        !.status = IF rows[a].phonemes THEN "ready" ELSE "text-ready"]
        BY <1>2, <1>4 DEF ApplyScrapeResult, Row
    <2>2. QED
        BY <1>1, <1>2, <2>1 DEF Row
<1>5. CASE ApplyPhonemizerResult(a)
    <2>1. rows'[a] = [rows[a] EXCEPT !.phonemes = TRUE,
                        !.status = IF rows[a].html THEN "ready" ELSE "phonemes-ready"]
        BY <1>2, <1>5 DEF ApplyPhonemizerResult, Row
    <2>2. QED
        BY <1>1, <1>2, <2>1 DEF Row
<1>6. ASSUME NEW row \in Row, UpdateArticle(a, [row EXCEPT !.status = "failed"])
      PROVE  FALSE
    BY <1>1, <1>2, <1>6 DEF UpdateArticle, Row
<1>7. CASE rows' = [rows EXCEPT ![a] = [NoRow EXCEPT !.status = "processing"]]
    BY <1>1, <1>2, <1>7 DEF NoRow
<1>8. ASSUME NEW b \in Article \ {a},
             \/ rows' = [rows EXCEPT ![b] = [NoRow EXCEPT !.status = "processing"]]
             \/ ApplyScrapeResult(b) \/ ApplyPhonemizerResult(b)
             \/ \E row \in Row : UpdateArticle(b, [row EXCEPT !.status = "failed"])
      PROVE  rows'[a] = rows[a]
    BY <1>2, <1>8 DEF ApplyScrapeResult, ApplyPhonemizerResult, UpdateArticle
<1>9. CASE rows' # rows
    <2>1. PICK b \in Article :
             \/ rows' = [rows EXCEPT ![b] = [NoRow EXCEPT !.status = "processing"]]
             \/ ApplyScrapeResult(b) \/ ApplyPhonemizerResult(b)
             \/ \E row \in Row : UpdateArticle(b, [row EXCEPT !.status = "failed"])
        BY <1>2, <1>9 DEF RowsStep
    <2>2. CASE b = a
        BY <1>4, <1>5, <1>6, <1>7, <2>1, <2>2
    <2>3. CASE b # a
        BY <1>3, <1>8, <2>1, <2>3
    <2>4. QED
        BY <2>2, <2>3
<1>10. QED
    BY <1>3, <1>9

\* Whatever the workers report, however results are repeated, reordered or lost,
\* "ready" is only shown for an article that has its text and its phonemes.
THEOREM ReadyHasBothAlways == Spec => []ReadyHasBoth
<1>1. Init => TypeOK /\ ReadyHasBoth
    BY InitType DEF Init, ReadyHasBoth, NoRow, Absent
<1>2. TypeOK /\ ReadyHasBoth /\ [Next]_vars => TypeOK' /\ ReadyHasBoth'
    BY NextType, ReadyHasBothStep
<1>3. QED
    BY <1>1, <1>2, PTL DEF Spec

----------------------------------------------------------------------------
(* The listener acknowledges what it has applied *)

\* The only goroutines about to acknowledge a message are those that were before
\* this step and those whose handler has just returned without an error.
LEMMA NewlyHandled ==
    ASSUME TypeOK, [Next]_vars, NEW h \in hub', h \notin hub, h.pc = "ack",
           NEW i \in h.todo, IsLeast(i, h.todo)
    PROVE  \E g \in hub :
             /\ g.reader = h.reader /\ g.reader \in BffReader /\ i \in 1..cursor[g.reader]
             /\ g.seen \in Row /\ Handling(g, i, g.pc)
             /\ HandleScrapeResult(g, i) \/ HandlePhonemizerResult(g, i) \/ HandleErrorWrite(g, i)
<1>1. \E g \in hub : \E j \in g.todo : HandlerNext(g, j)
    <2>1. \A r, idle : Batch(r, idle).pc # "ack"
        BY DEF Batch
    <2>2. ~Listen
        BY <2>1 DEF Listen
    <2>3. \A r \in BffReader : ~Reclaim(r)
        BY <2>1 DEF Reclaim
    <2>4. ~BffCrash /\ ~BffStart /\ ~ReclaimNext /\ ~ReclaimEnd /\ ~UNCHANGED vars
        BY <2>3 DEF BffCrash, BffStart, ReclaimNext, ReclaimEnd, BffReader, vars
    <2>5. \A r \in Request : ~ReqNext(r)
        BY RequestFrame
    <2>6. \A w \in Worker : ~WorkerNext(w)
        BY WorkerFrame
    <2>7. QED
        BY <2>2, <2>4, <2>5, <2>6 DEF Next, BffNext
<1> PICK g \in hub : \E j \in g.todo : HandlerNext(g, j)
    BY <1>1
<1>2. PICK j \in g.todo : HandlerNext(g, j)
    OBVIOUS
<1>3. /\ g \in Goroutine /\ g.reader \in BffReader /\ g.seen \in Row
      /\ g.todo \subseteq 1..cursor[g.reader]
    BY DEF TypeOK, BackendOK, Goroutine
<1>4. ~HandleRefused(g, j) /\ ~HubAck(g, j) /\ ~HubFail(g, j)
    BY DEF HandleRefused, HubAck, HubFail, Advance, Become, Batch
<1>5. ~HandleErrorRead(g, j)
    <2>1. [g EXCEPT !.pc = "fail", !.seen = rows[EntryAt(g.reader, j).art]].pc = "fail"
        BY <1>3 DEF Goroutine
    <2>2. QED
        BY <2>1 DEF HandleErrorRead, Become
<1>6. /\ HandleScrapeResult(g, j) \/ HandlePhonemizerResult(g, j) \/ HandleErrorWrite(g, j)
      /\ h = [g EXCEPT !.pc = "ack"] /\ IsLeast(j, g.todo) /\ Handling(g, j, g.pc)
    BY <1>2, <1>4, <1>5
    DEF HandlerNext, HandleScrapeResult, HandlePhonemizerResult, HandleErrorWrite, Become, Handling
<1>7. h.reader = g.reader /\ h.todo = g.todo
    BY <1>3, <1>6 DEF Goroutine
<1>8. i = j /\ i \in 1..cursor[g.reader]
    BY <1>3, <1>6, <1>7 DEF IsLeast
<1>9. QED
    BY <1>3, <1>6, <1>7, <1>8

LEMMA AppliedBeforeAckingStep ==
    ASSUME PipelineInv, [Next]_vars
    PROVE  AppliedBeforeAcking'
<1>1. SUFFICES ASSUME NEW h \in hub', NEW i \in h.todo, h.pc = "ack", IsLeast(i, h.todo)
               PROVE  Applied(h.reader, i)'
    BY DEF AppliedBeforeAcking
<1>2. TypeOK
    BY DEF PipelineInv
<1>3. CASE h \in hub
    <2>1. h.reader \in Reader /\ i \in 1..cursor[h.reader]
        BY <1>2, <1>3 DEF TypeOK, BackendOK, Goroutine, Reader, BffReader
    <2>2. Applied(h.reader, i)
        BY <1>1, <1>3 DEF PipelineInv, AppliedBeforeAcking
    <2>3. QED
        BY <1>2, <2>1, <2>2, AppliedStays
<1>4. CASE h \notin hub
    <2>1. PICK g \in hub :
            /\ g.reader = h.reader /\ g.reader \in BffReader /\ i \in 1..cursor[g.reader]
            /\ g.seen \in Row
            /\ HandleScrapeResult(g, i) \/ HandlePhonemizerResult(g, i) \/ HandleErrorWrite(g, i)
        BY <1>1, <1>2, <1>4, NewlyHandled
    <2>2. g.reader \in Reader
        BY <2>1 DEF Reader, BffReader
    <2>3. EntryAt(g.reader, i) \in Entry /\ EntryAt(g.reader, i)' = EntryAt(g.reader, i)
        BY <1>2, <2>1, <2>2, DeliveredEntry, EntryStays DEF TypeOK
    <2>4. PICK a \in Article : a = EntryAt(g.reader, i).art
        BY <2>3 DEF Entry
    <2>5. rows \in [Article -> Row]
        BY <1>2 DEF TypeOK, StoreOK
    <2>6. rows'[a].status \notin {"processing", Absent}
        <3>1. CASE HandleScrapeResult(g, i) \/ HandlePhonemizerResult(g, i)
            BY <2>4, <2>5, <3>1
            DEF HandleScrapeResult, HandlePhonemizerResult, ApplyScrapeResult,
                ApplyPhonemizerResult, Row, Absent
        <3>2. CASE HandleErrorWrite(g, i)
            BY <2>1, <2>4, <2>5, <3>2 DEF HandleErrorWrite, UpdateArticle, Row, Absent
        <3>3. QED
            BY <2>1, <3>1, <3>2
    <2>7. QED
        BY <2>1, <2>3, <2>4, <2>6 DEF Applied
<1>5. QED
    BY <1>3, <1>4

\* A step of the system acknowledges, for the backend, at most the message that a
\* goroutine was about to acknowledge.
LEMMA ListenerAcks ==
    ASSUME TypeOK, [Next]_vars, NEW r \in BffReader, NEW i \in 1..cursor'[r], IsAcked(r, i)'
    PROVE  \/ IsAcked(r, i) /\ i \in 1..cursor[r]
           \/ \E g \in hub : /\ g.reader = r /\ g.pc = "ack" /\ i \in g.todo
                             /\ i \in 1..cursor[r] /\ IsLeast(i, g.todo)
<1>1. r \in Reader
    BY DEF Reader, BffReader
<1>2. cursor[r] \in Nat /\ cursor'[r] \in Nat /\ DOMAIN pel[r] \subseteq 1..cursor[r]
    <2>1. TypeOK'
        BY NextType
    <2>2. QED
        BY <1>1, <2>1 DEF TypeOK, StreamsOK
<1>3. IsAcked(r, i) => i \in 1..cursor[r]
    BY <1>2 DEF IsAcked, Acked
<1>4. ASSUME DOMAIN pel'[r] = DOMAIN pel[r], cursor'[r] = cursor[r]
      PROVE  IsAcked(r, i)
    BY <1>4 DEF IsAcked, Acked
<1>5. ASSUME NEW q \in Request, ReqNext(q)
      PROVE  IsAcked(r, i)
    BY <1>4, <1>5, RequestFrame
<1>6. ASSUME NEW w \in Worker, WorkerNext(w)
      PROVE  IsAcked(r, i)
    <2>1. r \in Reader \ {w}
        BY <1>1 DEF BffReader, Worker
    <2>2. QED
        BY <1>4, <1>6, <2>1, OtherGroups
<1>7. CASE Listen
    <2> DEFINE new == Undelivered(log[Source(r)], cursor[r], BatchSize)
               n == Cardinality(new)
    <2>1. n \in Nat /\ new = (cursor[r] + 1)..(cursor[r] + n)
        <3>1. Source(r) \in Stream
            BY <1>1 DEF Reader, BffReader, Worker, Source, Stream
        <3>2. /\ log[Source(r)] \in Seq(Entry) /\ BatchSize \in Nat \ {0}
              /\ cursor[r] <= Len(log[Source(r)])
            BY <1>1, <3>1, PipelineAssumption DEF TypeOK, StreamsOK
        <3>3. QED
            BY <1>2, <3>2, UndeliveredInterval
    <2>2. IF new # {} THEN cursor'[r] = cursor[r] + n /\ pel'[r] = XReadGroup(pel[r], new)
                      ELSE cursor'[r] = cursor[r] /\ pel'[r] = pel[r]
        BY <1>1, <1>7 DEF Listen
    <2> HIDE DEF n, new
    <2>3. CASE new = {}
        BY <1>4, <2>2, <2>3
    <2>4. CASE new # {}
        <3>1. DOMAIN pel'[r] = DOMAIN pel[r] \cup new
            BY <2>2, <2>4 DEF XReadGroup
        <3>2. QED
            BY <1>2, <2>1, <2>2, <2>4, <3>1 DEF IsAcked, Acked
    <2>5. QED
        BY <2>3, <2>4, <1>3
<1>8. CASE BffCrash \/ ReclaimEnd
    BY <1>4, <1>3, <1>8 DEF BffCrash, ReclaimEnd, streams
<1>9. CASE BffStart \/ ReclaimNext
    <2>1. PICK q \in BffReader : Reclaim(q) /\ UNCHANGED <<log, cursor>>
        BY <1>9 DEF BffStart, ReclaimNext, BffReader
    <2>2. q \in Reader
        BY DEF Reader, BffReader
    <2>3. PICK idle : pel' = [pel EXCEPT ![q] = XAutoClaim(@, idle)]
        BY <2>1 DEF Reclaim
    <2>4. DOMAIN pel'[r] = DOMAIN pel[r]
        BY <1>1, <2>1, <2>2, <2>3, ClaimKeepsStreams DEF TypeOK
    <2>5. QED
        BY <1>3, <1>4, <2>1, <2>4
<1>10. ASSUME NEW g \in hub, NEW j \in g.todo, HandlerNext(g, j), ~IsAcked(r, i)
       PROVE  /\ g.reader = r /\ g.pc = "ack" /\ i \in g.todo
              /\ i \in 1..cursor[r] /\ IsLeast(i, g.todo)
    <2>1. g.reader \in Reader
        BY DEF TypeOK, BackendOK, Goroutine, Reader, BffReader
    <2>2. log' = log /\ cursor' = cursor
        BY <1>10, HandlerFrame
    <2>3. HubAck(g, j)
        <3>1. ~HubAck(g, j) => pel' = pel
            BY <1>10 DEF HandlerNext, HandleScrapeResult, HandleRefused,
                HandlePhonemizerResult, HandleErrorRead, HandleErrorWrite, HubFail, streams
        <3>2. QED
            BY <1>4, <1>10, <2>2, <3>1
    <2>4. Ack(g.reader, j) /\ g.pc = "ack" /\ IsLeast(j, g.todo)
        BY <2>3 DEF HubAck, Handling
    <2>5. /\ \A q \in Reader \ {g.reader} : pel'[q] = pel[q]
          /\ DOMAIN pel'[g.reader] = DOMAIN pel[g.reader] \ {j}
        BY <2>1, <2>2, <2>4, AckKeepsStreams DEF TypeOK
    <2>6. r = g.reader /\ i = j
        BY <1>1, <1>10, <2>2, <2>5 DEF IsAcked, Acked
    <2>7. QED
        BY <2>2, <2>4, <2>6
<1>11. CASE UNCHANGED vars
    BY <1>3, <1>4, <1>11 DEF vars
<1>12. QED
    BY <1>3, <1>5, <1>6, <1>7, <1>8, <1>9, <1>10, <1>11 DEF Next, BffNext

LEMMA AppliedBeforeAckedStep ==
    ASSUME PipelineInv, [Next]_vars
    PROVE  AppliedBeforeAcked'
<1>1. SUFFICES ASSUME NEW r \in BffReader, NEW i \in 1..cursor'[r], IsAcked(r, i)'
               PROVE  Applied(r, i)'
    BY DEF AppliedBeforeAcked
<1>2. TypeOK /\ r \in Reader
    BY DEF PipelineInv, Reader, BffReader
<1>3. i \in 1..cursor[r] /\ Applied(r, i)
    BY <1>1, <1>2, ListenerAcks DEF PipelineInv, AppliedBeforeAcked, AppliedBeforeAcking
<1>4. QED
    BY <1>2, <1>3, AppliedStays

----------------------------------------------------------------------------
(* The pipeline's safety *)

LEMMA InitInv == Init => PipelineInv
<1>1. SUFFICES ASSUME Init PROVE PipelineInv
    OBVIOUS
<1>2. TypeOK
    BY <1>1, InitType
<1>3. \A s \in Stream : Len(log[s]) = 0
    BY <1>1 DEF Init
<1>4. AnsweredBeforeAcked
    BY <1>3, StreamOfWorker DEF AnsweredBeforeAcked
<1>5. FinishedAnswered /\ AppliedBeforeAcking
    BY <1>1 DEF Init, FinishedAnswered, AppliedBeforeAcking
<1>6. AppliedBeforeAcked
    BY <1>1 DEF Init, AppliedBeforeAcked, BffReader, Reader
<1>7. QED
    BY <1>2, <1>4, <1>5, <1>6 DEF PipelineInv

\* Inputs are answered before they are acknowledged, results are applied before
\* they are acknowledged: the invariant behind the theorems that follow.
THEOREM PipelineInvAlways == Spec => []PipelineInv
<1>1. Init => PipelineInv
    BY InitInv
<1>2. PipelineInv /\ [Next]_vars => PipelineInv'
    <2>1. SUFFICES ASSUME PipelineInv, [Next]_vars PROVE PipelineInv'
        OBVIOUS
    <2>2. TypeOK'
        BY <2>1, NextType DEF PipelineInv
    <2>3. QED
        BY <2>1, <2>2, FinishedAnsweredStep, AnsweredBeforeAckedStep, AppliedBeforeAckingStep,
           AppliedBeforeAckedStep DEF PipelineInv
<1>3. QED
    BY <1>1, <1>2, PTL DEF Spec

\* Neither worker forgets an input it has not answered, whoever crashes when.
THEOREM AnsweredBeforeAckedAlways == Spec => []AnsweredBeforeAcked
<1>1. PipelineInv => AnsweredBeforeAcked
    BY DEF PipelineInv
<1>2. QED
    BY <1>1, PipelineInvAlways, PTL

\* No submitted article is left "processing" with nobody owing it any work: its
\* job is still pending with the scraper, or a result of it with the backend.
THEOREM NothingStrandedAlways == Spec => []NothingStranded
<1>1. PipelineInv => NothingStranded
    <2>1. SUFFICES ASSUME PipelineInv, NEW a \in Article, rows[a].status = "processing",
                          NEW i \in 1..Len(log["jobs"]), log["jobs"][i].art = a,
                          log["jobs"][i].kind = "job", IsAcked("scraper", i)
                   PROVE  \E j \in 1..Len(log["scraped"]) :
                            log["scraped"][j].art = a /\ ~IsAcked("bffScraped", j)
        BY DEF NothingStranded, Published
    <2>2. Published("scraped", a, {"text", "error"})
        <3>1. "scraper" \in Worker /\ In("scraper") = "jobs" /\ Out("scraper") = "scraped"
              /\ Success("scraper") = "text"
            BY DEF Worker, In, Out, Success
        <3>2. QED
            BY <2>1, <3>1 DEF PipelineInv, AnsweredBeforeAcked
    <2>3. PICK j \in 1..Len(log["scraped"]) : log["scraped"][j].art = a
        BY <2>2 DEF Published
    <2>4. ASSUME IsAcked("bffScraped", j)
          PROVE  FALSE
        <3>1. /\ "bffScraped" \in BffReader /\ "bffScraped" \in Reader
              /\ Source("bffScraped") = "scraped"
            BY DEF BffReader, Reader, Source
        <3>2. cursor["bffScraped"] \in Nat /\ j <= cursor["bffScraped"]
            BY <2>1, <2>4, <3>1 DEF IsAcked, Acked, PipelineInv, TypeOK, StreamsOK
        <3>3. j \in 1..cursor["bffScraped"]
            BY <3>2
        <3>4. Applied("bffScraped", j)
            BY <2>1, <2>4, <3>1, <3>3 DEF PipelineInv, AppliedBeforeAcked
        <3>5. QED
            BY <2>1, <2>3, <3>1, <3>4 DEF Applied, EntryAt
    <2>5. QED
        BY <2>3, <2>4
<1>2. QED
    BY <1>1, PipelineInvAlways, PTL

=============================================================================
