------------------------ MODULE ArticleUpdatesProofs ------------------------
(***************************************************************************)
(* Theorems about ArticleUpdates, for any number of changes, any buffer,   *)
(* any number of failures before the fallback and any amount of trouble.   *)
(***************************************************************************)
EXTENDS ArticleUpdates, TLAPS, FiniteSetTheorems

----------------------------------------------------------------------------
(* Lemmas *)

\* Whatever goes wrong is counted, and the count stays within its bound.
LEMMA TroubleTyped ==
    ASSUME TypeOK, NEW kinds, IsFiniteSet(kinds), Trouble(kinds)
    PROVE  trouble' \in [times : 0..MaxTrouble, kinds : SUBSET (Kind \cup {"unasked"})]
<1>1. Cardinality(kinds) \in Nat
    BY FS_CardinalityType
<1>2. trouble.times \in 0..MaxTrouble /\ MaxTrouble \in Nat
    BY UpdatesAssumption DEF TypeOK
<1>3. trouble.times + Cardinality(kinds) \in 0..MaxTrouble
    BY <1>1, <1>2 DEF Trouble
<1>4. trouble.kinds \cup kinds \in SUBSET (Kind \cup {"unasked"})
    BY UpdatesAssumption DEF Trouble, TypeOK
<1>5. QED
    BY <1>3, <1>4 DEF Trouble

\* The kinds that a step counts are finitely many.
LEMMA IfFinite == \A condition, kind : IsFiniteSet(If(condition, kind))
BY FS_EmptySet, FS_Singleton DEF If

\* TypeOK in parts, for what the parts of a step do to it.
ServerTyped ==
    /\ article \in [version : Version, touched : Version]
    /\ pubs \subseteq [n : 1..article.version, pc : {"read", "send"}, seen : 0..article.version]
    /\ \A p \in pubs : p.pc = "send" => p.seen # 0
AppTyped == app \in [online : BOOLEAN, suspended : BOOLEAN, streaming : BOOLEAN]
ShownTyped == view \in Version /\ gap \in Version
QueueTyped ==
    /\ queue \in [Connection -> Seq(Version \ {Heartbeat})]
    /\ \A c \in Connection : Len(queue[c]) <= Buffer
PollingTyped ==
    /\ poll \in [active : BOOLEAN, timer : 0..MaxLoops, last : Version]
    /\ loops \in [Loop -> Check]
FetchTyped == fetch \in [sent : Nat, answers : [Version -> Nat]]
TroubleOK == trouble \in [times : 0..MaxTrouble, kinds : SUBSET (Kind \cup {"unasked"})]

LEMMA TypeParts ==
    TypeOK <=> /\ ServerTyped /\ QueueTyped /\ AppTyped /\ ch \in Channel
               /\ PollingTyped /\ FetchTyped /\ ShownTyped /\ TroubleOK
BY DEF TypeOK, ServerTyped, QueueTyped, AppTyped, PollingTyped, FetchTyped, ShownTyped, TroubleOK

LEMMA TypePartsNext ==
    TypeOK' <=> /\ ServerTyped' /\ QueueTyped' /\ AppTyped' /\ ch' \in Channel
                /\ PollingTyped' /\ FetchTyped' /\ ShownTyped' /\ TroubleOK'
BY DEF TypeOK, ServerTyped, QueueTyped, AppTyped, PollingTyped, FetchTyped, ShownTyped, TroubleOK

\* A part whose variables a step leaves alone stays typed.
LEMMA Frames ==
    TypeOK => /\ UNCHANGED <<article, pubs>> => ServerTyped'
              /\ UNCHANGED queue => QueueTyped'
              /\ UNCHANGED app => AppTyped'
              /\ UNCHANGED ch => ch' \in Channel
              /\ UNCHANGED <<poll, loops>> => PollingTyped'
              /\ UNCHANGED fetch => FetchTyped'
              /\ UNCHANGED <<view, gap>> => ShownTyped'
              /\ UNCHANGED trouble => TroubleOK'
BY DEF TypeOK, ServerTyped, QueueTyped, AppTyped, PollingTyped, FetchTyped, ShownTyped, TroubleOK

LEMMA ChannelOps ==
    \A c \in Channel : /\ CancelStream(c) \in Channel
                       /\ ResetBackoff(c) \in Channel
                       /\ TryExitFallback(c) \in Channel
                       /\ Start(c) \in Channel
BY DEF Channel, CancelStream, ResetBackoff, TryExitFallback, Start

LEMMA KeepQueuesTyped == TypeOK /\ KeepQueues => QueueTyped'
<1> SUFFICES ASSUME TypeOK, KeepQueues
             PROVE  QueueTyped'
    OBVIOUS
<1>1. <<>> \in Seq(Version \ {Heartbeat}) /\ Len(<<>>) = 0
    OBVIOUS
<1>2. Buffer \in Nat
    BY UpdatesAssumption
<1>3. QED
    BY <1>1, <1>2 DEF KeepQueues, QueueTyped, TypeOK

\* A push or a heartbeat is a version, and what was received leaves the queue.
LEMMA ArrivesTyped ==
    ASSUME TypeOK, NEW c \in Connection, NEW v, Arrives(c, v)
    PROVE  QueueTyped' /\ (v = Heartbeat \/ v \in Version)
<1>1. queue[c] \in Seq(Version \ {Heartbeat}) /\ Len(queue[c]) <= Buffer /\ Buffer \in Nat
    BY UpdatesAssumption DEF TypeOK
<1>2. CASE v = Heartbeat /\ UNCHANGED queue
    BY <1>2 DEF TypeOK, QueueTyped
<1>3. CASE queue[c] # <<>> /\ v = Head(queue[c]) /\ queue' = [queue EXCEPT ![c] = Tail(@)]
    <2>1. /\ Tail(queue[c]) \in Seq(Version \ {Heartbeat})
          /\ Len(Tail(queue[c])) = Len(queue[c]) - 1
          /\ Head(queue[c]) \in Version \ {Heartbeat}
        BY <1>1, <1>3
    <2>2. Len(Tail(queue[c])) <= Buffer
        BY <1>1, <2>1
    <2>3. QED
        BY <1>3, <2>1, <2>2 DEF TypeOK, QueueTyped
<1>4. QED
    BY <1>2, <1>3 DEF Arrives

LEMMA VersionNow == TypeOK => article.version \in Version /\ 0 \in Version /\ MaxUpdates \in Nat
BY UpdatesAssumption DEF TypeOK, Version

LEMMA CancelTimerTyped == TypeOK => CancelTimer \in [Loop -> Check]
<1>1. TypeOK => NoCheck \in Check
    BY VersionNow DEF NoCheck, Check
<1>2. QED
    BY <1>1 DEF TypeOK, CancelTimer

LEMMA StartCheckingTyped == TypeOK /\ StartChecking => PollingTyped'
<1> SUFFICES ASSUME TypeOK, StartChecking
             PROVE  PollingTyped'
    OBVIOUS
<1>1. PICK l \in Loop : /\ loops' = [CancelTimer EXCEPT ![l].pc = "timer"]
                        /\ poll' = [poll EXCEPT !.active = TRUE, !.timer = l]
    BY DEF StartChecking
<1>2. loops' \in [Loop -> Check]
    BY <1>1, CancelTimerTyped DEF Check
<1>3. l \in 0..MaxLoops
    BY UpdatesAssumption DEF Loop
<1>4. QED
    BY <1>1, <1>2, <1>3 DEF TypeOK, PollingTyped

LEMMA StopCheckingTyped == TypeOK /\ StopChecking => PollingTyped'
<1>1. 0 \in 0..MaxLoops
    BY UpdatesAssumption
<1>2. QED
    BY <1>1, CancelTimerTyped DEF TypeOK, StopChecking, PollingTyped

LEMMA RefetchTyped == TypeOK /\ Refetch => FetchTyped' /\ TroubleOK'
<1> SUFFICES ASSUME TypeOK, Refetch
             PROVE  FetchTyped' /\ TroubleOK'
    OBVIOUS
<1>1. CASE app.online
    <2>1. fetch' = [fetch EXCEPT !.sent = @ + 1] /\ trouble' = trouble
        BY <1>1 DEF Refetch
    <2>2. FetchTyped'
        BY <2>1 DEF TypeOK, FetchTyped
    <2>3. QED
        BY <2>1, <2>2 DEF TypeOK, TroubleOK
<1>2. CASE ~app.online
    <2>1. fetch' = fetch /\ trouble' = [trouble EXCEPT !.kinds = @ \cup {"unasked"}]
        BY <1>2 DEF Refetch
    <2>2. trouble.kinds \cup {"unasked"} \in SUBSET (Kind \cup {"unasked"})
        BY DEF TypeOK
    <2>3. TroubleOK'
        BY <2>1, <2>2 DEF TypeOK, TroubleOK
    <2>4. QED
        BY <2>1, <2>3 DEF TypeOK, FetchTyped
<1>3. QED
    BY <1>1, <1>2

LEMMA ScheduleNextTyped ==
    ASSUME TypeOK, NEW l \in Loop,
           NEW p \in [active : BOOLEAN, timer : 0..MaxLoops, last : Version],
           ScheduleNext(l, p)
    PROVE  PollingTyped'
<1>1. NoCheck \in Check /\ [NoCheck EXCEPT !.pc = "timer"] \in Check
    BY VersionNow DEF NoCheck, Check
<1>2. l \in 0..MaxLoops
    BY UpdatesAssumption DEF Loop
<1>3. CASE p.active
    <2>1. /\ loops' = [loops EXCEPT ![l] = [NoCheck EXCEPT !.pc = "timer"]]
          /\ poll' = [p EXCEPT !.timer = l]
        BY <1>3 DEF ScheduleNext
    <2>2. loops' \in [Loop -> Check]
        BY <1>1, <2>1 DEF TypeOK
    <2>3. QED
        BY <1>2, <2>1, <2>2 DEF PollingTyped
<1>4. CASE ~p.active
    <2>1. loops' = [loops EXCEPT ![l] = NoCheck] /\ poll' = p
        BY <1>4 DEF ScheduleNext
    <2>2. loops' \in [Loop -> Check]
        BY <1>1, <2>1 DEF TypeOK
    <2>3. QED
        BY <2>1, <2>2 DEF PollingTyped
<1>5. QED
    BY <1>3, <1>4

\* What is received is shown, and its time kept, as versions.
LEMMA ShownAndSeen ==
    ASSUME TypeOK, NEW v \in Version,
           NEW p \in [active : BOOLEAN, timer : 0..MaxLoops, last : Version]
    PROVE  /\ Shown(v) \in Version
           /\ Seen(p, v) \in [active : BOOLEAN, timer : 0..MaxLoops, last : Version]
BY VersionNow DEF TypeOK, Shown, Seen

----------------------------------------------------------------------------
(* Types *)

LEMMA InitTyped == Init => TypeOK
<1> SUFFICES ASSUME Init
             PROVE  TypeOK
    OBVIOUS
<1>1. 0 \in Version /\ 0 \in 0..MaxLoops /\ 0 \in 0..MaxTrouble /\ Buffer \in Nat
    BY UpdatesAssumption DEF Version
<1>2. ServerTyped /\ AppTyped /\ ShownTyped /\ TroubleOK
    BY <1>1 DEF Init, ServerTyped, AppTyped, ShownTyped, TroubleOK
<1>3. <<>> \in Seq(Version \ {Heartbeat}) /\ Len(<<>>) = 0
    OBVIOUS
<1>4. QueueTyped
    BY <1>1, <1>3 DEF Init, QueueTyped
<1>5. ch \in Channel
    BY DEF Init, Channel
<1>6. PollingTyped
    BY <1>1 DEF Init, PollingTyped, Check, NoCheck
<1>7. FetchTyped
    BY DEF Init, FetchTyped
<1>8. QED
    BY <1>2, <1>4, <1>5, <1>6, <1>7, TypeParts

\* The steps of the backend.
LEMMA BackendTyped ==
    ASSUME TypeOK,
           \/ \E touches \in BOOLEAN : Commit(touches)
           \/ PubNext
           \/ \E c \in Connection : Subscribe(c)
    PROVE  TypeOK'
<1>1. /\ article.version \in Nat /\ article.version \in 0..MaxUpdates
      /\ MaxUpdates \in Nat /\ Buffer \in Nat
    BY VersionNow, UpdatesAssumption DEF Version
<1>2. CASE \E touches \in BOOLEAN : Commit(touches)
    <2>1. PICK touches \in BOOLEAN : Commit(touches)
        BY <1>2
    <2>2. article.version + 1 \in Version /\ article.version + 1 \in Nat
        BY <1>1, <2>1 DEF Commit, Version
    <2>3. article' \in [version : Version, touched : Version]
          /\ article'.version = article.version + 1
        BY <2>1, <2>2 DEF Commit, TypeOK
    <2>4. pubs' = pubs \cup {[n |-> article.version + 1, pc |-> "read", seen |-> 0]}
        BY <2>1 DEF Commit
    <2>5. ServerTyped'
        BY <1>1, <2>2, <2>3, <2>4 DEF TypeOK, ServerTyped
    <2>6. QED
        BY <2>1, <2>5, Frames, TypePartsNext DEF Commit, polling
<1>3. ASSUME NEW p \in pubs, PubRead(p)
      PROVE  TypeOK'
    <2>1. p.n \in 1..article.version /\ p.pc = "read"
        BY <1>3 DEF PubRead, TypeOK
    <2>2. article.version # 0
        BY <1>1, <2>1
    <2>3. /\ article' = article
          /\ pubs' = (pubs \ {p}) \cup {[p EXCEPT !.pc = "send", !.seen = article.version]}
        BY <1>3 DEF PubRead
    <2> DEFINE r == [p EXCEPT !.pc = "send", !.seen = article.version]
    <2>4. /\ r \in [n : 1..article.version, pc : {"read", "send"}, seen : 0..article.version]
          /\ r.seen # 0
        <3>1. p \in [n : 1..article.version, pc : {"read", "send"}, seen : 0..article.version]
            BY DEF TypeOK
        <3>2. article.version \in 0..article.version
            BY <1>1
        <3>3. QED
            BY <2>2, <3>1, <3>2
    <2> HIDE DEF r
    <2>5. ServerTyped'
        BY <2>3, <2>4 DEF r, TypeOK, ServerTyped
    <2>6. QED
        BY <1>3, <2>5, Frames, TypePartsNext DEF PubRead, polling
<1>4. ASSUME NEW p \in pubs, PubSend(p)
      PROVE  TypeOK'
    <2> DEFINE listening == {c \in Connection : ch[c] \in {"waiting", "live"}}
               room == {c \in listening : Len(queue[c]) < Buffer}
               kinds == If(\E r \in pubs : r.pc = "send" /\ r.seen < p.seen, "overtake")
                          \cup If(room # listening, "full")
    <2>1. /\ Trouble(kinds)
          /\ queue' = [c \in Connection |->
               IF c \in room THEN Append(queue[c], p.seen) ELSE queue[c]]
          /\ pubs' = pubs \ {p}
          /\ UNCHANGED <<article, app, ch, poll, loops, fetch, view, gap>>
        BY <1>4 DEF PubSend, polling
    <2>2. IsFiniteSet(kinds)
        BY IfFinite, FS_Union
    <2>3. TroubleOK'
        BY <2>1, <2>2, TroubleTyped DEF TroubleOK
    <2>4. p.seen \in Version \ {Heartbeat}
        BY <1>1, <1>4 DEF PubSend, TypeOK, Version, Heartbeat
    <2>5. ASSUME NEW c \in Connection
          PROVE  queue'[c] \in Seq(Version \ {Heartbeat}) /\ Len(queue'[c]) <= Buffer
        <3>1. queue[c] \in Seq(Version \ {Heartbeat}) /\ Len(queue[c]) <= Buffer
            BY DEF TypeOK
        <3>2. CASE c \in room
            <4>1. Len(queue[c]) < Buffer /\ queue'[c] = Append(queue[c], p.seen)
                BY <2>1, <3>2
            <4>2. QED
                BY <1>1, <2>4, <3>1, <4>1
        <3>3. CASE c \notin room
            BY <2>1, <3>1, <3>3
        <3>4. QED
            BY <3>2, <3>3
    <2>6. queue' \in [Connection -> Seq(Version \ {Heartbeat})]
        <3> HIDE DEF room
        <3>1. queue' = [c \in Connection |-> queue'[c]]
            BY <2>1
        <3>2. QED
            BY <2>5, <3>1
    <2>7. QueueTyped'
        BY <2>5, <2>6 DEF QueueTyped
    <2>8. ServerTyped'
        BY <2>1 DEF TypeOK, ServerTyped
    <2>9. QED
        <3> HIDE DEF room, kinds
        <3>1. QED
            BY <2>1, <2>3, <2>7, <2>8, Frames, TypePartsNext
<1>5. ASSUME NEW p \in pubs, PubFail(p)
      PROVE  TypeOK'
    <2>1. TroubleOK'
        BY <1>5, FS_Singleton, TroubleTyped DEF PubFail, TroubleOK
    <2>2. ServerTyped'
        BY <1>5 DEF PubFail, TypeOK, ServerTyped
    <2>3. QED
        BY <1>5, <2>1, <2>2, Frames, TypePartsNext DEF PubFail, polling
<1>6. ASSUME NEW c \in Connection, Subscribe(c)
      PROVE  TypeOK'
    <2>1. ch' \in Channel
        BY <1>6 DEF Subscribe, Channel, Connection, TypeOK
    <2>2. ShownTyped'
        BY <1>6, VersionNow DEF Subscribe, TypeOK, ShownTyped
    <2>3. QED
        BY <1>6, <2>1, <2>2, Frames, TypePartsNext DEF Subscribe, server, polling
<1>7. QED
    BY <1>2, <1>3, <1>4, <1>5, <1>6 DEF PubNext

\* The callbacks of the channel.
ChannelNext ==
    \/ StreamNext \/ StreamBreaks \/ ReconnectTimer
    \/ ProbeTimer \/ ProbeNext \/ ProbeBreaks
    \/ GoOffline \/ GoOnline \/ Suspend \/ Resume

LEMMA ChannelTyped == TypeOK /\ ChannelNext => TypeOK'
<1> SUFFICES ASSUME TypeOK, ChannelNext
             PROVE  TypeOK'
    OBVIOUS
<1>1. ch \in Channel /\ view \in Version /\ gap \in Version /\ AppTyped
      /\ poll \in [active : BOOLEAN, timer : 0..MaxLoops, last : Version]
      /\ loops \in [Loop -> Check] /\ 0 \in 0..MaxLoops
    BY UpdatesAssumption DEF TypeOK, AppTyped
<1>2. ASSUME NEW v \in Version, StreamConnects(v)
      PROVE  TypeOK'
    <2>1. QueueTyped'
        BY <1>2, ArrivesTyped DEF StreamConnects, Connection
    <2>2. ch' \in Channel
        BY <1>1, <1>2 DEF StreamConnects, ResetBackoff, Channel
    <2>3. FetchTyped' /\ TroubleOK'
        BY <1>2, Frames, RefetchTyped DEF StreamConnects
    <2>4. ShownTyped' /\ PollingTyped'
        BY <1>1, <1>2, ShownAndSeen DEF StreamConnects, ShownTyped, PollingTyped
    <2>5. QED
        BY <1>2, <2>1, <2>2, <2>3, <2>4, Frames, TypePartsNext DEF StreamConnects, server
<1>3. ASSUME NEW v \in Version, StreamEvent(v)
      PROVE  TypeOK'
    <2>1. QueueTyped'
        BY <1>3, ArrivesTyped DEF StreamEvent, Connection
    <2>2. ShownTyped' /\ PollingTyped'
        BY <1>1, <1>3, ShownAndSeen DEF StreamEvent, ShownTyped, PollingTyped
    <2>3. QED
        BY <1>3, <2>1, <2>2, Frames, TypePartsNext DEF StreamEvent, server
<1>4. CASE StreamBreaks
    <2> DEFINE failed == [CancelStream(ch) EXCEPT !.failures = @ + 1]
    <2>1. failed \in Channel
        <3>1. CancelStream(ch) \in Channel
            BY <1>1, ChannelOps
        <3>2. QED
            BY <3>1 DEF Channel
    <2>2. \/ ch' = [failed EXCEPT !.timer = TRUE] /\ UNCHANGED <<poll, loops>>
          \/ ch' = [failed EXCEPT !.fallback = TRUE] /\ StartChecking
        BY <1>4 DEF StreamBreaks, polling
    <2> HIDE DEF failed
    <2>3. ch' \in Channel
        BY <2>1, <2>2 DEF Channel
    <2>4. PollingTyped'
        BY <2>2, Frames, StartCheckingTyped
    <2>5. QueueTyped' /\ TroubleOK'
        BY <1>4, KeepQueuesTyped, IfFinite, TroubleTyped DEF StreamBreaks, TroubleOK
    <2>6. QED
        BY <1>4, <2>3, <2>4, <2>5, Frames, TypePartsNext DEF StreamBreaks, server
<1>5. CASE ReconnectTimer
    <2>1. [ch EXCEPT !.timer = FALSE] \in Channel
        BY <1>1 DEF Channel
    <2>2. ch' \in Channel
        BY <1>1, <1>5, <2>1, ChannelOps DEF ReconnectTimer
    <2>3. QED
        BY <1>5, <2>2, KeepQueuesTyped, Frames, TypePartsNext DEF ReconnectTimer, server, polling
<1>6. CASE ProbeTimer
    <2>1. ch' \in Channel
        BY <1>1, <1>6, ChannelOps DEF ProbeTimer
    <2>2. QED
        BY <1>6, <2>1, Frames, TypePartsNext DEF ProbeTimer, server, polling
<1>7. ASSUME NEW v \in Version, ProbeEvent(v)
      PROVE  TypeOK'
    <2>1. [ch EXCEPT !.probe = "none", !.fallback = FALSE] \in Channel
        BY <1>1 DEF Channel
    <2>2. ch' \in Channel
        BY <1>7, <2>1, ChannelOps DEF ProbeEvent
    <2>3. [poll EXCEPT !.active = FALSE, !.timer = 0]
             \in [active : BOOLEAN, timer : 0..MaxLoops, last : Version]
        BY <1>1
    <2>4. loops' \in [Loop -> Check]
        BY <1>1, <1>7, CancelTimerTyped DEF ProbeEvent
    <2>5. ShownTyped' /\ PollingTyped'
        <3>1. view' = Shown(v) /\ gap' = gap
            BY <1>7 DEF ProbeEvent
        <3>2. \/ poll' = Seen([poll EXCEPT !.active = FALSE, !.timer = 0], v)
              \/ poll' = Seen(poll, v)
            BY <1>7 DEF ProbeEvent
        <3>3. poll' \in [active : BOOLEAN, timer : 0..MaxLoops, last : Version]
            <4>1. /\ Seen([poll EXCEPT !.active = FALSE, !.timer = 0], v)
                       \in [active : BOOLEAN, timer : 0..MaxLoops, last : Version]
                  /\ Seen(poll, v) \in [active : BOOLEAN, timer : 0..MaxLoops, last : Version]
                BY <1>1, <2>3, VersionNow DEF Seen
            <4>2. QED
                BY <3>2, <4>1
        <3>4. Shown(v) \in Version
            BY <1>1, ShownAndSeen
        <3>5. QED
            BY <1>1, <2>4, <3>1, <3>3, <3>4 DEF ShownTyped, PollingTyped
    <2>6. QED
        BY <1>7, <2>2, <2>5, KeepQueuesTyped, Frames, TypePartsNext DEF ProbeEvent, server
<1>8. CASE ProbeBreaks
    <2>1. ch' \in Channel
        BY <1>1, <1>8 DEF ProbeBreaks, Channel
    <2>2. QueueTyped' /\ TroubleOK'
        BY <1>8, KeepQueuesTyped, IfFinite, TroubleTyped DEF ProbeBreaks, TroubleOK
    <2>3. QED
        BY <1>8, <2>1, <2>2, Frames, TypePartsNext DEF ProbeBreaks, server, polling
<1>9. CASE GoOffline
    <2>1. ch' \in Channel /\ AppTyped'
        BY <1>1, <1>9, ChannelOps DEF GoOffline, AppTyped
    <2>2. QueueTyped' /\ TroubleOK'
        BY <1>9, KeepQueuesTyped, FS_Singleton, TroubleTyped DEF GoOffline, TroubleOK
    <2>3. QED
        BY <1>9, <2>1, <2>2, Frames, TypePartsNext DEF GoOffline, server, polling
<1>10. CASE GoOnline
    <2>1. ch' \in Channel
        BY <1>1, <1>10, ChannelOps DEF GoOnline
    <2>2. AppTyped'
        BY <1>1, <1>10 DEF GoOnline, AppTyped
    <2>3. QED
        BY <1>10, <2>1, <2>2, KeepQueuesTyped, Frames, TypePartsNext DEF GoOnline, server, polling
<1>11. CASE Suspend
    <2>1. ch' \in Channel
        <3>1. CancelStream(ch) \in Channel
            BY <1>1, ChannelOps
        <3>2. QED
            BY <1>11, <3>1 DEF Suspend, Channel
    <2>2. AppTyped'
        BY <1>1, <1>11 DEF Suspend, AppTyped
    <2>3. QueueTyped' /\ TroubleOK'
        BY <1>11, KeepQueuesTyped, FS_Singleton, TroubleTyped DEF Suspend, TroubleOK
    <2>4. QED
        BY <1>11, <2>1, <2>2, <2>3, StopCheckingTyped, Frames, TypePartsNext DEF Suspend, server
<1>12. CASE Resume
    <2>1. ch' \in Channel
        BY <1>1, <1>12, ChannelOps DEF Resume
    <2>2. AppTyped'
        BY <1>1, <1>12 DEF Resume, AppTyped
    <2>3. QED
        BY <1>12, <2>1, <2>2, KeepQueuesTyped, Frames, TypePartsNext DEF Resume, server, polling
<1>13. QED
    BY <1>2, <1>3, <1>4, <1>5, <1>6, <1>7, <1>8, <1>9, <1>10, <1>11, <1>12
       DEF ChannelNext, StreamNext, ProbeNext

\* The checks and refetches of the hub and the list.
LEMMA CheckTyped ==
    ASSUME TypeOK, NEW l \in Loop, CheckNext(l)
    PROVE  TypeOK'
<1>1. /\ poll \in [active : BOOLEAN, timer : 0..MaxLoops, last : Version]
      /\ loops \in [Loop -> Check] /\ 0 \in 0..MaxLoops /\ loops[l].since \in Version
    BY UpdatesAssumption DEF TypeOK, Check
<1>2. CASE CheckAsk(l)
    <2>1. [NoCheck EXCEPT !.pc = "asked", !.since = poll.last] \in Check
        BY <1>1 DEF NoCheck, Check
    <2>2. PollingTyped'
        BY <1>1, <1>2, <2>1 DEF CheckAsk, PollingTyped
    <2>3. QED
        BY <1>2, <2>2, Frames, TypePartsNext DEF CheckAsk, server
<1>3. CASE CheckLater(l)
    BY <1>1, <1>3, ScheduleNextTyped, Frames, TypePartsNext DEF CheckLater, server
<1>4. CASE CheckQuery(l)
    <2>1. PollingTyped'
        <3>1. (article.touched > loops[l].since) \in BOOLEAN
            OBVIOUS
        <3>2. loops' \in [Loop -> Check] /\ poll' = poll
            BY <1>1, <1>4, <3>1 DEF CheckQuery, Check
        <3>3. QED
            BY <1>1, <3>2 DEF PollingTyped
    <2>2. QED
        BY <1>4, <2>1, Frames, TypePartsNext DEF CheckQuery, server
<1>5. CASE CheckStamp(l)
    <2>1. PollingTyped'
        BY <1>1, <1>5, VersionNow DEF CheckStamp, PollingTyped, Check
    <2>2. QED
        BY <1>5, <2>1, Frames, TypePartsNext DEF CheckStamp, server
<1>6. CASE CheckDone(l)
    <2>1. [poll EXCEPT !.last = loops[l].since]
             \in [active : BOOLEAN, timer : 0..MaxLoops, last : Version]
        BY <1>1
    <2>2. PollingTyped'
        BY <1>1, <1>6, <2>1, ScheduleNextTyped DEF CheckDone
    <2>3. FetchTyped' /\ TroubleOK'
        BY <1>6, Frames, RefetchTyped DEF CheckDone
    <2>4. QED
        BY <1>6, <2>2, <2>3, Frames, TypePartsNext DEF CheckDone, server
<1>7. CASE CheckFails(l)
    <2>1. TroubleOK'
        BY <1>7, FS_Singleton, TroubleTyped DEF CheckFails, TroubleOK
    <2>2. QED
        BY <1>1, <1>7, <2>1, ScheduleNextTyped, Frames, TypePartsNext DEF CheckFails, server
<1>8. QED
    BY <1>2, <1>3, <1>4, <1>5, <1>6, <1>7 DEF CheckNext

LEMMA FetchStepTyped == TypeOK /\ FetchNext => TypeOK'
<1> SUFFICES ASSUME TypeOK, FetchNext
             PROVE  TypeOK'
    OBVIOUS
<1>1. fetch \in [sent : Nat, answers : [Version -> Nat]] /\ gap \in Version
    BY DEF TypeOK
<1>2. CASE FetchAnswer
    <2>1. FetchTyped'
        <3>1. fetch.sent - 1 \in Nat /\ fetch.answers \in [Version -> Nat]
            BY <1>1, <1>2 DEF FetchAnswer
        <3>2. [fetch.answers EXCEPT ![article.version] = @ + 1] \in [Version -> Nat]
            <4>1. \A f \in [Version -> Nat] : \A n \in Version :
                    [f EXCEPT ![n] = @ + 1] \in [Version -> Nat]
                OBVIOUS
            <4>2. QED
                BY <3>1, <4>1, VersionNow
        <3>3. fetch' = [fetch EXCEPT !.sent = fetch.sent - 1,
                           !.answers = [fetch.answers EXCEPT ![article.version] = @ + 1]]
            BY <1>1, <1>2 DEF FetchAnswer
        <3>4. QED
            BY <1>1, <3>1, <3>2, <3>3 DEF FetchTyped
    <2>2. QED
        BY <1>2, <2>1, Frames, TypePartsNext DEF FetchAnswer, server, polling
<1>3. ASSUME NEW v \in Version, FetchApply(v)
      PROVE  TypeOK'
    <2>1. FetchTyped' /\ ShownTyped'
        BY <1>1, <1>3 DEF FetchApply, FetchTyped, ShownTyped
    <2>2. TroubleOK'
        BY <1>3, IfFinite, TroubleTyped DEF FetchApply, TroubleOK
    <2>3. QED
        BY <1>3, <2>1, <2>2, Frames, TypePartsNext DEF FetchApply, server, polling
<1>4. CASE FetchFails
    <2>1. FetchTyped'
        BY <1>1, <1>4 DEF FetchFails, FetchTyped
    <2>2. TroubleOK'
        BY <1>4, FS_Singleton, TroubleTyped DEF FetchFails, TroubleOK
    <2>3. QED
        BY <1>4, <2>1, <2>2, Frames, TypePartsNext DEF FetchFails, server, polling
<1>5. QED
    BY <1>2, <1>3, <1>4 DEF FetchNext

LEMMA NextTyped == TypeOK /\ [Next]_vars => TypeOK'
<1>1. TypeOK /\ UNCHANGED vars => TypeOK'
    BY Frames, TypePartsNext DEF vars
<1>2. QED
    BY <1>1, BackendTyped, ChannelTyped, CheckTyped, FetchStepTyped DEF Next, ChannelNext

\* Every variable keeps its type; the broker's buffers never hold more than their
\* size, and what is pushed is a version that was read.
THEOREM UpdatesTypeCorrect == Spec => []TypeOK
<1>1. QED
    BY InitTyped, NextTyped, PTL DEF Spec

----------------------------------------------------------------------------
(* The channel is never deaf *)

Polls == \E l \in Loop : loops[l].pc # "none"

\* What the hub does about polling, seen from the channel: starting it leaves a
\* loop, stopping it leaves it off, and a check that ends has a successor.
LEMMA StartCheckingPolls == TypeOK /\ StartChecking => poll'.active /\ Polls'
<1> SUFFICES ASSUME TypeOK, StartChecking
             PROVE  poll'.active /\ Polls'
    OBVIOUS
<1>1. PICK l \in Loop : /\ loops' = [CancelTimer EXCEPT ![l].pc = "timer"]
                        /\ poll' = [poll EXCEPT !.active = TRUE, !.timer = l]
    BY DEF StartChecking
<1>2. loops'[l].pc = "timer"
    BY <1>1, CancelTimerTyped DEF Check
<1>3. poll'.active
    BY <1>1 DEF TypeOK
<1>4. QED
    BY <1>2, <1>3 DEF Polls

LEMMA ScheduleNextPolls ==
    ASSUME TypeOK, NEW l \in Loop, NEW p, ScheduleNext(l, p),
           p \in [active : BOOLEAN, timer : 0..MaxLoops, last : Version]
    PROVE  poll'.active = p.active /\ (p.active => Polls')
<1>1. CASE p.active
    <2>1. /\ loops' = [loops EXCEPT ![l] = [NoCheck EXCEPT !.pc = "timer"]]
          /\ poll' = [p EXCEPT !.timer = l]
        BY <1>1 DEF ScheduleNext
    <2>2. loops'[l].pc = "timer"
        BY <2>1 DEF TypeOK, NoCheck
    <2>3. QED
        BY <2>1, <2>2 DEF Polls
<1>2. CASE ~p.active
    BY <1>2 DEF ScheduleNext
<1>3. QED
    BY <1>1, <1>2

\* ChannelInv depends on these only.
LEMMA ChannelFrame ==
    ASSUME ChannelInv, UNCHANGED <<app, ch>>, poll'.active = poll.active,
           poll.active /\ Polls => Polls'
    PROVE  ChannelInv'
BY DEF ChannelInv, PollsOn, NoStreamAway, StreamsOrPolls, NeverDeaf, Polls

LEMMA InitChannel == Init => ChannelInv
<1> SUFFICES ASSUME Init
             PROVE  ChannelInv
    OBVIOUS
<1>1. app.online \in BOOLEAN /\ app.suspended = FALSE
    BY DEF Init
<1>2. QED
    BY <1>1 DEF Init, ChannelInv, PollsOn, NoStreamAway, StreamsOrPolls, NeverDeaf

LEMMA CheckChannel ==
    ASSUME TypeOK, ChannelInv, NEW l \in Loop, CheckNext(l)
    PROVE  ChannelInv'
<1>1. /\ poll \in [active : BOOLEAN, timer : 0..MaxLoops, last : Version]
      /\ loops \in [Loop -> Check] /\ loops[l].since \in Version
    BY DEF TypeOK, Check
<1>2. UNCHANGED <<app, ch>>
    BY DEF CheckNext, CheckAsk, CheckLater, CheckQuery, CheckStamp, CheckDone, CheckFails
<1>3. CASE CheckAsk(l)
    <2>1. loops'[l].pc = "asked" /\ poll'.active = poll.active
        BY <1>1, <1>3 DEF CheckAsk, NoCheck
    <2>2. QED
        BY <1>2, <2>1, ChannelFrame DEF Polls
<1>4. CASE CheckQuery(l) \/ CheckStamp(l)
    <2>1. loops'[l].pc # "none" /\ poll' = poll
        BY <1>1, <1>4 DEF CheckQuery, CheckStamp, Check
    <2>2. QED
        BY <1>2, <2>1, ChannelFrame DEF Polls
<1>5. CASE CheckLater(l) \/ CheckFails(l)
    <2>1. ScheduleNext(l, poll)
        BY <1>5 DEF CheckLater, CheckFails
    <2>2. QED
        BY <1>1, <1>2, <2>1, ScheduleNextPolls, ChannelFrame
<1>6. CASE CheckDone(l)
    <2>1. PICK p \in [active : BOOLEAN, timer : 0..MaxLoops, last : Version] :
             ScheduleNext(l, p) /\ p.active = poll.active
        <3>1. CASE loops[l].has
            <4> DEFINE p == [poll EXCEPT !.last = loops[l].since]
            <4>1. /\ p \in [active : BOOLEAN, timer : 0..MaxLoops, last : Version]
                  /\ p.active = poll.active
                BY <1>1
            <4>2. ScheduleNext(l, p)
                BY <1>6, <3>1 DEF CheckDone
            <4>3. QED
                BY <4>1, <4>2
        <3>2. CASE ~loops[l].has
            BY <1>1, <1>6, <3>2 DEF CheckDone
        <3>3. QED
            BY <3>1, <3>2
    <2>2. QED
        BY <1>2, <2>1, ScheduleNextPolls, ChannelFrame
<1>7. QED
    BY <1>3, <1>4, <1>5, <1>6 DEF CheckNext

LEMMA ChannelKept == TypeOK /\ ChannelInv /\ ChannelNext => ChannelInv'
<1> SUFFICES ASSUME TypeOK, ChannelInv, ChannelNext
             PROVE  ChannelInv'
    OBVIOUS
<1>1. /\ ch \in Channel /\ app \in [online : BOOLEAN, suspended : BOOLEAN, streaming : BOOLEAN]
      /\ poll \in [active : BOOLEAN, timer : 0..MaxLoops, last : Version]
    BY DEF TypeOK
<1>2. ASSUME NEW v \in Version, StreamConnects(v) \/ StreamEvent(v)
      PROVE  ChannelInv'
    <2>1. /\ UNCHANGED <<app, loops>> /\ poll'.active = poll.active
          /\ ch.stream \in {"waiting", "live"} /\ ch'.stream = "live"
          /\ ch'.timer = ch.timer /\ ch'.fallback = ch.fallback /\ ch'.probe = ch.probe
        BY <1>1, <1>2 DEF StreamConnects, StreamEvent, ResetBackoff, Channel, Seen
    <2>2. QED
        BY <2>1 DEF ChannelInv, PollsOn, NoStreamAway, StreamsOrPolls, NeverDeaf
<1>3. CASE StreamBreaks
    <2> DEFINE failed == [CancelStream(ch) EXCEPT !.failures = @ + 1]
    <2>1. /\ failed \in Channel /\ failed.stream = "none" /\ failed.timer = FALSE
          /\ failed.fallback = ch.fallback /\ failed.probe = ch.probe
        <3> DEFINE cancelled == CancelStream(ch)
        <3>1. /\ cancelled \in Channel /\ cancelled.stream = "none" /\ cancelled.timer = FALSE
              /\ cancelled.fallback = ch.fallback /\ cancelled.probe = ch.probe
            BY <1>1 DEF CancelStream, Channel
        <3> HIDE DEF cancelled
        <3>2. failed = [cancelled EXCEPT !.failures = @ + 1]
            BY DEF cancelled
        <3>3. QED
            BY <3>1, <3>2 DEF Channel
    <2>2. \/ ch' = [failed EXCEPT !.timer = TRUE] /\ UNCHANGED <<poll, loops>>
          \/ ch' = [failed EXCEPT !.fallback = TRUE] /\ StartChecking
        BY <1>3 DEF StreamBreaks, polling
    <2>3. /\ app' = app /\ ch.stream # "none"
          /\ app.online /\ ~app.suspended /\ ~ch.fallback /\ ~poll.active
        BY <1>1, <1>3 DEF StreamBreaks, ChannelInv, NoStreamAway, StreamsOrPolls
    <2> HIDE DEF failed
    <2>4. CASE ch' = [failed EXCEPT !.timer = TRUE] /\ UNCHANGED <<poll, loops>>
        <3>1. ch'.stream = "none" /\ ch'.timer /\ ~ch'.fallback
            BY <2>1, <2>3, <2>4 DEF Channel
        <3>2. QED
            BY <2>3, <2>4, <3>1 DEF ChannelInv, PollsOn, NoStreamAway, StreamsOrPolls, NeverDeaf
    <2>5. CASE ch' = [failed EXCEPT !.fallback = TRUE] /\ StartChecking
        <3>1. ch'.stream = "none" /\ ~ch'.timer /\ ch'.fallback
            BY <2>1, <2>5 DEF Channel
        <3>2. poll'.active /\ Polls'
            BY <2>5, StartCheckingPolls
        <3>3. QED
            BY <2>3, <3>1, <3>2 DEF ChannelInv, PollsOn, NoStreamAway, StreamsOrPolls, NeverDeaf, Polls
    <2>6. QED
        BY <2>2, <2>4, <2>5
<1>4. CASE ReconnectTimer
    <2>1. /\ UNCHANGED <<app, poll, loops>> /\ ch.timer
          /\ app.online /\ ~app.suspended /\ ~ch.fallback
        BY <1>1, <1>4 DEF ReconnectTimer, polling, ChannelInv, NoStreamAway, StreamsOrPolls
    <2>2. ch'.stream = "opening" /\ ~ch'.timer /\ ~ch'.fallback
        BY <1>1, <1>4, <2>1 DEF ReconnectTimer, Start, CancelStream, Channel
    <2>3. QED
        BY <2>1, <2>2 DEF ChannelInv, PollsOn, NoStreamAway, StreamsOrPolls, NeverDeaf
<1>5. CASE ProbeTimer \/ ProbeBreaks
    <2>1. /\ UNCHANGED <<app, poll, loops>>
          /\ ch'.stream = ch.stream /\ ch'.timer = ch.timer /\ ch'.fallback = ch.fallback
          /\ ch.fallback \/ ch'.probe = "none"
        BY <1>1, <1>5 DEF ProbeTimer, ProbeBreaks, TryExitFallback, polling, Channel
    <2>2. QED
        BY <2>1 DEF ChannelInv, PollsOn, NoStreamAway, StreamsOrPolls, NeverDeaf
<1>6. ASSUME NEW v \in Version, ProbeEvent(v)
      PROVE  ChannelInv'
    <2> DEFINE left == [ch EXCEPT !.probe = "none", !.fallback = FALSE]
    <2>1. /\ left \in Channel /\ left.stream = ch.stream /\ left.timer = ch.timer
          /\ ~left.fallback /\ left.probe = "none"
        BY <1>1 DEF Channel
    <2>2. app' = app /\ ch' = Start(left) /\ ~app.suspended
        BY <1>1, <1>6 DEF ProbeEvent, ChannelInv, NoStreamAway
    <2> HIDE DEF left
    <2>3. /\ ~ch'.fallback /\ ~ch'.timer /\ ch'.probe = "none"
          /\ ch'.stream = IF app.online THEN "opening" ELSE "none"
        BY <1>1, <2>1, <2>2 DEF Start, CancelStream, Channel
    <2>4. ~poll'.active
        <3>1. CASE ch.fallback
            BY <1>1, <1>6, <3>1 DEF ProbeEvent, Seen
        <3>2. CASE ~ch.fallback
            BY <1>1, <1>6, <3>2 DEF ProbeEvent, Seen, ChannelInv, StreamsOrPolls
        <3>3. QED
            BY <3>1, <3>2
    <2>5. QED
        BY <1>1, <2>2, <2>3, <2>4 DEF ChannelInv, PollsOn, NoStreamAway, StreamsOrPolls, NeverDeaf
<1>7. CASE GoOffline
    <2>1. /\ UNCHANGED <<poll, loops>> /\ ~app'.online /\ app'.suspended = app.suspended
          /\ ch'.stream = "none" /\ ~ch'.timer /\ ch'.fallback = ch.fallback /\ ch'.probe = ch.probe
        BY <1>1, <1>7 DEF GoOffline, CancelStream, polling, Channel
    <2>2. QED
        BY <2>1 DEF ChannelInv, PollsOn, NoStreamAway, StreamsOrPolls, NeverDeaf
<1>8. CASE GoOnline
    <2>1. /\ UNCHANGED <<poll, loops>> /\ app'.online /\ app'.suspended = app.suspended
          /\ ch.stream = "none" /\ ~ch.timer /\ ~app.online
        BY <1>1, <1>8 DEF GoOnline, polling, ChannelInv, NoStreamAway
    <2>2. ResetBackoff(ch) \in Channel
        BY <1>1, ChannelOps
    <2>3. /\ ResetBackoff(ch).stream = ch.stream /\ ResetBackoff(ch).timer = ch.timer
          /\ ResetBackoff(ch).fallback = ch.fallback /\ ResetBackoff(ch).probe = ch.probe
        BY <1>1 DEF ResetBackoff, Channel
    <2>4. CASE ch.fallback
        <3>1. /\ ch'.stream = "none" /\ ~ch'.timer /\ ch'.fallback
            BY <1>8, <2>1, <2>2, <2>3, <2>4 DEF GoOnline, TryExitFallback, Channel
        <3>2. QED
            BY <2>1, <2>4, <3>1 DEF ChannelInv, PollsOn, NoStreamAway, StreamsOrPolls, NeverDeaf
    <2>5. CASE ~ch.fallback
        <3>1. /\ ~ch'.timer /\ ~ch'.fallback /\ ch'.probe = ch.probe
              /\ ch'.stream = IF app.suspended THEN "none" ELSE "opening"
            BY <1>8, <2>1, <2>2, <2>3, <2>5 DEF GoOnline, Start, CancelStream, Channel
        <3>2. QED
            BY <1>1, <2>1, <2>5, <3>1 DEF ChannelInv, PollsOn, NoStreamAway, StreamsOrPolls, NeverDeaf
    <2>6. QED
        BY <2>4, <2>5
<1>9. CASE Suspend
    <2>1. /\ app'.suspended /\ ~poll'.active
          /\ ch'.stream = "none" /\ ~ch'.timer /\ ~ch'.fallback /\ ch'.probe = "none"
        BY <1>1, <1>9 DEF Suspend, StopChecking, CancelStream, Channel
    <2>2. QED
        BY <2>1 DEF ChannelInv, PollsOn, NoStreamAway, StreamsOrPolls, NeverDeaf
<1>10. CASE Resume
    <2>1. /\ UNCHANGED <<poll, loops>> /\ ~app'.suspended /\ app'.online = app.online
          /\ ch.stream = "none" /\ ~ch.timer /\ ~ch.fallback /\ ch.probe = "none"
        BY <1>1, <1>10 DEF Resume, polling, ChannelInv, NoStreamAway
    <2>2. ResetBackoff(ch) \in Channel
        BY <1>1, ChannelOps
    <2>3. /\ ResetBackoff(ch).stream = ch.stream /\ ResetBackoff(ch).timer = ch.timer
          /\ ResetBackoff(ch).fallback = ch.fallback /\ ResetBackoff(ch).probe = ch.probe
        BY <1>1 DEF ResetBackoff, Channel
    <2>4. /\ ~ch'.timer /\ ~ch'.fallback /\ ch'.probe = "none"
          /\ ch'.stream = IF app.online THEN "opening" ELSE "none"
        BY <1>10, <2>1, <2>2, <2>3 DEF Resume, Start, CancelStream, Channel
    <2>5. QED
        BY <1>1, <2>1, <2>4 DEF ChannelInv, PollsOn, NoStreamAway, StreamsOrPolls, NeverDeaf
<1>11. QED
    BY <1>2, <1>3, <1>4, <1>5, <1>6, <1>7, <1>8, <1>9, <1>10 DEF ChannelNext, StreamNext, ProbeNext

LEMMA NextChannel == TypeOK /\ ChannelInv /\ [Next]_vars => ChannelInv'
<1> SUFFICES ASSUME TypeOK, ChannelInv, [Next]_vars
             PROVE  ChannelInv'
    OBVIOUS
<1>1. ASSUME NEW c \in Connection, Subscribe(c)
      PROVE  ChannelInv'
    <2>1. /\ UNCHANGED <<app, poll, loops>> /\ ch[c] = "opening" /\ ch' = [ch EXCEPT ![c] = "waiting"]
        BY <1>1 DEF Subscribe, polling
    <2>2. CASE c = "stream"
        <3>1. /\ ch.stream = "opening" /\ ch'.stream = "waiting" /\ ch'.timer = ch.timer
              /\ ch'.fallback = ch.fallback /\ ch'.probe = ch.probe
            BY <2>1, <2>2 DEF TypeOK, Channel
        <3>2. QED
            BY <2>1, <3>1 DEF ChannelInv, PollsOn, NoStreamAway, StreamsOrPolls, NeverDeaf
    <2>3. CASE c = "probe"
        <3>1. /\ ch.probe = "opening" /\ ch'.stream = ch.stream /\ ch'.timer = ch.timer
              /\ ch'.fallback = ch.fallback
            BY <2>1, <2>3 DEF TypeOK, Channel
        <3>2. QED
            BY <2>1, <3>1 DEF ChannelInv, PollsOn, NoStreamAway, StreamsOrPolls, NeverDeaf
    <2>4. QED
        BY <2>2, <2>3 DEF Connection
<1>2. CASE (\E touches \in BOOLEAN : Commit(touches)) \/ PubNext \/ FetchNext \/ UNCHANGED vars
    <2>1. UNCHANGED <<app, ch, poll, loops>>
        BY <1>2 DEF Commit, PubNext, PubRead, PubSend, PubFail, FetchNext, FetchAnswer, FetchApply,
                    FetchFails, polling, vars
    <2>2. QED
        BY <2>1, ChannelFrame DEF Polls
<1>3. QED
    BY <1>1, <1>2, ChannelKept, CheckChannel DEF Next, ChannelNext

\* The inductive invariant of channel and hub.
THEOREM ChannelInvAlways == Spec => []ChannelInv
<1>1. Init => TypeOK /\ ChannelInv
    BY InitTyped, InitChannel
<1>2. TypeOK /\ ChannelInv /\ [Next]_vars => (TypeOK /\ ChannelInv)'
    BY NextTyped, NextChannel
<1>3. QED
    BY <1>1, <1>2, PTL DEF Spec

\* An app that is online and in the foreground streams, is about to, or polls.
THEOREM NeverDeafAlways == Spec => []NeverDeaf
<1>1. ChannelInv => NeverDeaf
    BY DEF ChannelInv
<1>2. QED
    BY <1>1, ChannelInvAlways, PTL

\* The hub polls exactly while its channel is in the fallback, which excludes a
\* stream and a reconnection.
THEOREM StreamsOrPollsAlways == Spec => []StreamsOrPolls
<1>1. ChannelInv => StreamsOrPolls
    BY DEF ChannelInv
<1>2. QED
    BY <1>1, ChannelInvAlways, PTL

----------------------------------------------------------------------------
(* What was missed is shown after a reconnection *)

\* FromThePast in parts.
ViewPast == view <= article.version
AnswersPast == \A v \in Version : fetch.answers[v] > 0 => v <= article.version
QueuePast ==
    \A c \in Connection : \A i \in 1..Len(queue[c]) : queue[c][i] <= article.version
PubsPast == \A p \in pubs : p.pc = "send" => p.n <= p.seen
EmptyBefore == ch.stream \in {"none", "opening"} => queue["stream"] = <<>>
StreamCarried ==
    Lossless /\ ch.stream \in {"waiting", "live"} => Carried \/ article.version <= gap

LEMMA DeliveryParts ==
    DeliveryInv <=> /\ ViewPast /\ AnswersPast /\ QueuePast /\ PubsPast /\ EmptyBefore
                    /\ Lossless => YoungestLast
                    /\ StreamCarried
BY DEF DeliveryInv, FromThePast, ViewPast, AnswersPast, QueuePast, PubsPast, EmptyBefore, StreamCarried

LEMMA DeliveryPartsNext ==
    DeliveryInv' <=> /\ ViewPast' /\ AnswersPast' /\ QueuePast' /\ PubsPast' /\ EmptyBefore'
                     /\ Lossless' => YoungestLast'
                     /\ StreamCarried'
BY DEF DeliveryInv, FromThePast, ViewPast, AnswersPast, QueuePast, PubsPast, EmptyBefore, StreamCarried

LEMMA Numbers ==
    ASSUME TypeOK
    PROVE  /\ article.version \in Nat /\ article.version \in Version
           /\ view \in Nat /\ gap \in Nat /\ 0 \in Version /\ \A v \in Version : v \in Nat
           /\ \A p \in pubs : p.n \in Nat /\ p.seen \in Nat /\ p.n <= article.version
                              /\ p.seen <= article.version
                              /\ p.pc \in {"read", "send"} /\ (p.pc = "send" => p.seen # 0)
           /\ fetch \in [sent : Nat, answers : [Version -> Nat]]
           /\ \A c \in Connection : queue[c] \in Seq(Version \ {Heartbeat})
           /\ "stream" \in Connection /\ "probe" \in Connection
           /\ queue \in [Connection -> Seq(Version \ {Heartbeat})]
           /\ ch \in Channel
<1>1. article.version \in Nat /\ article.version \in Version /\ view \in Nat /\ gap \in Nat
      /\ 0 \in Version /\ \A v \in Version : v \in Nat
    BY UpdatesAssumption DEF TypeOK, Version
<1>2. \A p \in pubs : p.n \in Nat /\ p.seen \in Nat /\ p.n <= article.version
                      /\ p.seen <= article.version
                      /\ p.pc \in {"read", "send"} /\ (p.pc = "send" => p.seen # 0)
    BY <1>1 DEF TypeOK
<1>3. QED
    BY <1>1, <1>2 DEF TypeOK, Connection

\* What once went wrong stays known.
LEMMA TroubleGrows == TypeOK /\ [Next]_vars => (Lossless' => Lossless)
<1> SUFFICES ASSUME TypeOK, [Next]_vars
             PROVE  trouble.kinds \subseteq trouble'.kinds
    BY DEF Lossless, Spared
<1>1. ASSUME NEW kinds, Trouble(kinds)
      PROVE  trouble.kinds \subseteq trouble'.kinds
    BY <1>1 DEF Trouble
<1>2. Refetch => trouble.kinds \subseteq trouble'.kinds
    BY DEF Refetch, TypeOK
<1>3. CASE (\E touches \in BOOLEAN : Commit(touches)) \/ PubNext \/ \E c \in Connection : Subscribe(c)
    BY <1>1, <1>3 DEF Commit, PubNext, PubRead, PubSend, PubFail, Subscribe
<1>4. CASE ChannelNext
    BY <1>1, <1>2, <1>4 DEF ChannelNext, StreamNext, StreamConnects, StreamEvent, StreamBreaks,
        ReconnectTimer, ProbeTimer, ProbeNext, ProbeEvent, ProbeBreaks, GoOffline, GoOnline,
        Suspend, Resume
<1>5. CASE (\E l \in Loop : CheckNext(l)) \/ FetchNext
    BY <1>1, <1>2, <1>5 DEF CheckNext, CheckAsk, CheckLater, CheckQuery, CheckStamp, CheckDone,
        CheckFails, FetchNext, FetchAnswer, FetchApply, FetchFails
<1>6. CASE UNCHANGED vars
    BY <1>6 DEF vars
<1>7. QED
    BY <1>3, <1>4, <1>5, <1>6 DEF Next, ChannelNext

\* A step that asks for a page at most keeps what is carried.
LEMMA DeliveryFrame ==
    ASSUME TypeOK, DeliveryInv, Lossless' => Lossless,
           UNCHANGED <<article, pubs, queue, view, gap>>,
           ch'.stream = ch.stream, ch'.once = ch.once,
           fetch'.answers = fetch.answers, fetch.sent > 0 => fetch'.sent > 0
    PROVE  DeliveryInv'
<1>1. ViewPast' /\ AnswersPast' /\ QueuePast' /\ PubsPast' /\ EmptyBefore'
    BY DeliveryParts DEF ViewPast, AnswersPast, QueuePast, PubsPast, EmptyBefore
<1>2. Lossless' => YoungestLast'
    BY DeliveryParts DEF YoungestLast
<1>3. StreamCarried'
    BY DeliveryParts DEF StreamCarried, Carried, UnderWay, Settling
<1>4. QED
    BY <1>1, <1>2, <1>3, DeliveryPartsNext

\* Closing a connection empties it, and no other.
LEMMA KeepQueuesPast ==
    TypeOK /\ QueuePast /\ KeepQueues /\ UNCHANGED article => QueuePast' /\ EmptyBefore'
<1> SUFFICES ASSUME TypeOK, QueuePast, KeepQueues, UNCHANGED article
             PROVE  QueuePast' /\ EmptyBefore'
    OBVIOUS
<1>1. \A c \in Connection : queue'[c] = <<>> \/ queue'[c] = queue[c]
    BY DEF KeepQueues
<1>2. EmptyBefore'
    BY Numbers DEF KeepQueues, EmptyBefore
<1>3. QueuePast'
    BY <1>1 DEF QueuePast
<1>4. QED
    BY <1>2, <1>3

\* A channel that has no subscribed stream owes nothing.
LEMMA CutFrame ==
    ASSUME TypeOK, DeliveryInv, Lossless' => Lossless, KeepQueues,
           UNCHANGED <<article, pubs, fetch>>, view' <= article.version,
           ch'.stream \in {"none", "opening"}
    PROVE  DeliveryInv'
<1>1. QueuePast' /\ EmptyBefore'
    BY KeepQueuesPast, DeliveryParts
<1>2. ViewPast' /\ AnswersPast' /\ PubsPast'
    BY DeliveryParts DEF ViewPast, AnswersPast, PubsPast
<1>3. Lossless' => YoungestLast'
    BY DeliveryParts DEF YoungestLast
<1>4. StreamCarried'
    BY DEF StreamCarried
<1>5. QED
    BY <1>1, <1>2, <1>3, <1>4, DeliveryPartsNext

\* Received in order: the last of a queue stays last until it is received, and
\* what is received is not younger than the article.
LEMMA ArrivesPast ==
    ASSUME TypeOK, QueuePast, NEW c \in Connection, NEW v, Arrives(c, v), UNCHANGED article
    PROVE  /\ QueuePast' /\ v \in Nat /\ v <= article.version
           /\ \/ queue' = queue /\ v = Heartbeat
              \/ /\ v # Heartbeat /\ queue[c] # <<>> /\ queue'[c] = Tail(queue[c])
                 /\ \/ queue'[c] = <<>> /\ v = queue[c][Len(queue[c])]
                    \/ queue'[c] # <<>>
                       /\ queue'[c][Len(queue'[c])] = queue[c][Len(queue[c])]
<1>1. queue[c] \in Seq(Version \ {Heartbeat}) /\ article.version \in Nat /\ Heartbeat = 0
      /\ queue \in [Connection -> Seq(Version \ {Heartbeat})]
    BY Numbers DEF Heartbeat
<1>2. CASE v = Heartbeat /\ UNCHANGED queue
    BY <1>1, <1>2 DEF QueuePast
<1>3. CASE queue[c] # <<>> /\ v = Head(queue[c]) /\ queue' = [queue EXCEPT ![c] = Tail(@)]
    <2> DEFINE q == queue[c]
    <2>1. /\ q \in Seq(Version \ {Heartbeat}) /\ Len(q) \in Nat /\ Len(q) >= 1
          /\ v = q[1] /\ q[1] \in Version \ {Heartbeat}
          /\ Len(Tail(q)) = Len(q) - 1 /\ \A i \in 1..Len(Tail(q)) : Tail(q)[i] = q[i + 1]
        BY <1>1, <1>3
    <2>2. queue'[c] = Tail(q) /\ \A d \in Connection \ {c} : queue'[d] = queue[d]
        BY <1>1, <1>3
    <2>3. v <= article.version /\ v \in Nat
        BY <2>1, Numbers DEF QueuePast
    <2>4. \A i \in 1..Len(Tail(q)) : Tail(q)[i] <= article.version
        BY <2>1 DEF QueuePast
    <2>5. QueuePast'
        BY <2>2, <2>4 DEF QueuePast
    <2>6. CASE Len(q) = 1
        <3>1. Tail(q) = <<>>
            BY <2>1, <2>6
        <3>2. QED
            BY <1>3, <2>1, <2>2, <2>3, <2>5, <2>6, <3>1
    <2>7. CASE Len(q) # 1
        <3> DEFINE t == Tail(q)
        <3>1. Len(t) \in Nat /\ Len(t) >= 1 /\ Len(t) \in 1..Len(t) /\ t # <<>>
            <4>1. Len(t) = Len(q) - 1 /\ Len(q) \in Nat /\ Len(q) >= 1
                BY <2>1
            <4> HIDE DEF t, q
            <4>2. Len(t) \in Nat /\ Len(t) >= 1
                BY <2>7, <4>1
            <4>3. QED
                BY <4>2
        <3>2. Tail(q)[Len(Tail(q))] = q[Len(q)]
            BY <2>1, <3>1
        <3>3. QED
            BY <1>3, <2>1, <2>2, <2>3, <2>5, <3>1, <3>2
    <2>8. QED
        BY <2>6, <2>7
<1>4. QED
    BY <1>2, <1>3 DEF Arrives

\* The first page, the stream and the app know of no change.
LEMMA InitDelivery == Init => DeliveryInv
<1> SUFFICES ASSUME Init
             PROVE  DeliveryInv
    OBVIOUS
<1>1. /\ article.version = 0 /\ view = 0 /\ pubs = {}
      /\ \A v \in Version : fetch.answers[v] = 0
      /\ \A c \in Connection : queue[c] = <<>>
      /\ ch.stream \in {"none", "opening"}
    BY DEF Init
<1>2. ViewPast /\ AnswersPast /\ QueuePast /\ PubsPast /\ EmptyBefore
    BY <1>1 DEF ViewPast, AnswersPast, QueuePast, PubsPast, EmptyBefore, Connection
<1>3. YoungestLast /\ StreamCarried
    BY <1>1 DEF YoungestLast, StreamCarried
<1>4. QED
    BY <1>2, <1>3, DeliveryParts

\* A change is under way as soon as it is made, and a preview that was read
\* before it will not be the last.
LEMMA CommitDelivery ==
    ASSUME TypeOK, DeliveryInv, NEW touches \in BOOLEAN, Commit(touches)
    PROVE  DeliveryInv'
<1> DEFINE n == article.version + 1
           r == [n |-> n, pc |-> "read", seen |-> 0]
<1>1. /\ article'.version = n /\ pubs' = pubs \cup {r} /\ n \in Nat /\ article.version < n
      /\ UNCHANGED <<queue, ch, fetch, view, gap, trouble>>
    BY Numbers DEF Commit
<1>2. r.n = n /\ r.pc = "read"
    OBVIOUS
<1> HIDE DEF r
<1>3. ViewPast' /\ AnswersPast'
    BY <1>1, Numbers, DeliveryParts DEF ViewPast, AnswersPast
<1>4. QueuePast'
    <2> SUFFICES ASSUME NEW c \in Connection, NEW i \in 1..Len(queue[c])
                 PROVE  queue[c][i] <= n
        BY <1>1 DEF QueuePast
    <2>1. queue[c] \in Seq(Version \ {Heartbeat})
        BY Numbers
    <2>2. queue[c][i] \in Version
        BY <2>1
    <2>3. queue[c][i] <= article.version
        BY DeliveryParts DEF QueuePast
    <2> HIDE DEF n
    <2>4. QED
        BY <1>1, <2>2, <2>3, Numbers
<1>5. PubsPast' /\ EmptyBefore'
    BY <1>1, <1>2, DeliveryParts DEF PubsPast, EmptyBefore
<1>6. YoungestLast'
    BY <1>1, <1>2 DEF YoungestLast
<1>7. StreamCarried'
    BY <1>1, <1>2 DEF StreamCarried, Carried, UnderWay
<1>8. QED
    BY <1>3, <1>4, <1>5, <1>6, <1>7, DeliveryPartsNext

LEMMA PubReadDelivery ==
    ASSUME TypeOK, DeliveryInv, NEW p \in pubs, PubRead(p)
    PROVE  DeliveryInv'
<1> DEFINE r == [p EXCEPT !.pc = "send", !.seen = article.version]
<1>1. /\ pubs' = (pubs \ {p}) \cup {r} /\ p.pc = "read"
      /\ UNCHANGED <<article, queue, ch, fetch, view, gap, trouble>>
    BY DEF PubRead
<1>2. r.n = p.n /\ r.pc = "send" /\ r.seen = article.version
    BY DEF TypeOK
<1> HIDE DEF r
<1>3. ViewPast' /\ AnswersPast' /\ QueuePast' /\ EmptyBefore'
    BY <1>1, DeliveryParts DEF ViewPast, AnswersPast, QueuePast, EmptyBefore
<1>4. PubsPast'
    BY <1>1, <1>2, Numbers, DeliveryParts DEF PubsPast
<1>5. Lossless' => YoungestLast'
    <2> SUFFICES ASSUME Lossless, NEW o \in pubs', o.pc = "send", o.seen < article.version
                 PROVE  \E s \in pubs' : s.n = article.version
        BY <1>1 DEF YoungestLast, Lossless, Spared
    <2>1. o \in pubs
        BY <1>1, <1>2, Numbers
    <2>2. PICK s \in pubs : s.n = article.version
        BY <2>1, DeliveryParts DEF YoungestLast
    <2>3. QED
        BY <1>1, <1>2, <2>2
<1>6. StreamCarried'
    BY <1>1, <1>2 DEF StreamCarried, Carried, UnderWay
<1>7. QED
    BY <1>3, <1>4, <1>5, <1>6, DeliveryPartsNext

\* The last push of a change is the youngest, or one went wrong.
LEMMA PubSendDelivery ==
    ASSUME TypeOK, DeliveryInv, NEW p \in pubs, PubSend(p), Lossless' => Lossless
    PROVE  DeliveryInv'
<1> DEFINE listening == {c \in Connection : ch[c] \in {"waiting", "live"}}
           room == {c \in listening : Len(queue[c]) < Buffer}
<1>1. /\ p.pc = "send" /\ pubs' = pubs \ {p}
      /\ Trouble(If(\E r \in pubs : r.pc = "send" /\ r.seen < p.seen, "overtake")
                   \cup If(room # listening, "full"))
      /\ queue' = [c \in Connection |->
           IF c \in room THEN Append(queue[c], p.seen) ELSE queue[c]]
      /\ UNCHANGED <<article, ch, fetch, view, gap>>
    BY DEF PubSend
<1>2. Lossless' => room = listening /\ \A r \in pubs : r.pc = "send" => ~(r.seen < p.seen)
    BY <1>1 DEF Trouble, If, Lossless, Spared
<1>3. room \subseteq listening /\ listening \subseteq Connection
      /\ (\A c \in listening : ch[c] \in {"waiting", "live"})
      /\ (ch.stream \in {"waiting", "live"} => "stream" \in listening)
    BY Numbers
<1> HIDE DEF room, listening
<1>4. ViewPast' /\ AnswersPast' /\ PubsPast'
    BY <1>1, DeliveryParts DEF ViewPast, AnswersPast, PubsPast
<1>5. ASSUME NEW c \in Connection, c \in room
      PROVE  /\ queue'[c] # <<>> /\ Len(queue'[c]) \in Nat
             /\ queue'[c][Len(queue'[c])] = p.seen
             /\ \A i \in 1..Len(queue'[c]) : queue'[c][i] <= article.version
    <2> DEFINE q == queue[c]
               x == p.seen
    <2>1. q \in Seq(Version \ {Heartbeat}) /\ queue'[c] = Append(q, x)
        BY <1>1, <1>5, Numbers
    <2>2. x \in Version \ {Heartbeat} /\ x <= article.version
        <3>1. x \in 0..MaxUpdates /\ x # 0 /\ x <= article.version
            BY <1>1, Numbers, VersionNow DEF Version
        <3>2. QED
            BY <3>1 DEF Version, Heartbeat
    <2>3. \A i \in 1..Len(q) : q[i] <= article.version
        BY DeliveryParts DEF QueuePast
    <2> HIDE DEF q, x
    <2>4. /\ Len(Append(q, x)) = Len(q) + 1 /\ Len(q) \in Nat
          /\ Append(q, x)[Len(q) + 1] = x
          /\ \A i \in 1..Len(q) : Append(q, x)[i] = q[i]
        BY <2>1, <2>2
    <2>5. Append(q, x) # <<>>
        BY <2>1, <2>2
    <2>6. \A i \in 1..(Len(q) + 1) : i = Len(q) + 1 \/ i \in 1..Len(q)
        BY <2>4
    <2>7. QED
        BY <2>1, <2>2, <2>3, <2>4, <2>5, <2>6 DEF x
<1>6. QueuePast'
    <2>1. \A c \in Connection : c \notin room => queue'[c] = queue[c]
        BY <1>1
    <2>2. QED
        BY <1>1, <1>5, <2>1, DeliveryParts DEF QueuePast
<1>7. EmptyBefore'
    BY <1>1, <1>3, Numbers, DeliveryParts DEF EmptyBefore
<1>8. Lossless' /\ p.seen < article.version
        => \E r \in pubs' : r.n = article.version /\ (r.pc = "read" \/ r.seen = article.version)
    <2> SUFFICES ASSUME Lossless', p.seen < article.version
                 PROVE  \E r \in pubs' : /\ r.n = article.version
                                         /\ r.pc = "read" \/ r.seen = article.version
        OBVIOUS
    <2>1. PICK r \in pubs : r.n = article.version
        BY <1>1, DeliveryParts DEF YoungestLast
    <2>2. r # p
        BY <1>1, <2>1, Numbers, DeliveryParts DEF PubsPast
    <2>3. r.pc = "read" \/ r.seen = article.version
        BY <2>1, Numbers, DeliveryParts DEF PubsPast
    <2>4. QED
        BY <1>1, <2>1, <2>2, <2>3
<1>9. Lossless' => YoungestLast'
    <2> SUFFICES ASSUME Lossless', NEW o \in pubs', o.pc = "send", o.seen < article.version
                 PROVE  \E r \in pubs' : r.n = article.version
        BY <1>1 DEF YoungestLast
    <2>1. o \in pubs /\ ~(o.seen < p.seen)
        BY <1>1, <1>2
    <2>2. p.seen < article.version
        BY <2>1, Numbers
    <2>3. QED
        BY <1>8, <2>2
<1>10. StreamCarried'
    <2> SUFFICES ASSUME Lossless', ch.stream \in {"waiting", "live"}
                 PROVE  Carried' \/ article.version <= gap
        BY <1>1 DEF StreamCarried
    <2>1. "stream" \in room
        BY <1>2, <1>3
    <2>2. CASE p.seen = article.version
        <3>1. queue'["stream"] # <<>> /\ queue'["stream"][Len(queue'["stream"])] = article'.version
            BY <1>1, <1>5, <2>1, <2>2, Numbers
        <3>2. QED
            BY <3>1 DEF Carried
    <2>3. CASE p.seen # article.version
        <3>1. UnderWay'
            BY <1>1, <1>8, <2>3, Numbers DEF UnderWay
        <3>2. QED
            BY <3>1 DEF Carried
    <2>4. QED
        BY <2>2, <2>3
<1>11. QED
    BY <1>4, <1>6, <1>7, <1>9, <1>10, DeliveryPartsNext

LEMMA PubFailDelivery ==
    ASSUME TypeOK, DeliveryInv, NEW p \in pubs, PubFail(p)
    PROVE  DeliveryInv'
<1>1. /\ pubs' = pubs \ {p} /\ UNCHANGED <<article, queue, ch, fetch, view, gap>>
      /\ ~Lossless'
    BY DEF PubFail, Trouble, Lossless, Spared
<1>2. ViewPast' /\ AnswersPast' /\ QueuePast' /\ PubsPast' /\ EmptyBefore'
    BY <1>1, DeliveryParts DEF ViewPast, AnswersPast, QueuePast, PubsPast, EmptyBefore
<1>3. StreamCarried'
    BY <1>1 DEF StreamCarried
<1>4. QED
    BY <1>1, <1>2, <1>3, DeliveryPartsNext

\* The first subscription owes nothing yet; a later one is followed by a refetch.
LEMMA SubscribeDelivery ==
    ASSUME TypeOK, DeliveryInv, NEW c \in Connection, Subscribe(c)
    PROVE  DeliveryInv'
<1>1. /\ ch[c] = "opening" /\ ch' = [ch EXCEPT ![c] = "waiting"]
      /\ gap' = (IF c = "stream" /\ ~ch.once THEN article.version ELSE gap)
      /\ UNCHANGED <<article, pubs, queue, fetch, view, trouble>>
    BY DEF Subscribe, server
<1>2. Lossless' = Lossless
    BY <1>1 DEF Lossless, Spared
<1>3. CASE c = "probe"
    <2>1. ch'.stream = ch.stream /\ ch'.once = ch.once /\ gap' = gap
        BY <1>1, <1>3, Numbers DEF Channel
    <2>2. QED
        BY <1>1, <1>2, <2>1, DeliveryFrame
<1>4. CASE c = "stream"
    <2>1. ch.stream = "opening" /\ ch'.stream = "waiting" /\ ch'.once = ch.once
        BY <1>1, <1>4, Numbers DEF Channel
    <2>2. queue["stream"] = <<>>
        BY <2>1, DeliveryParts DEF EmptyBefore
    <2>3. ViewPast' /\ AnswersPast' /\ QueuePast' /\ PubsPast' /\ EmptyBefore'
        BY <1>1, <2>2, DeliveryParts DEF ViewPast, AnswersPast, QueuePast, PubsPast, EmptyBefore
    <2>4. Lossless' => YoungestLast'
        BY <1>1, <1>2, DeliveryParts DEF YoungestLast
    <2>5. StreamCarried'
        <3>1. CASE ch.once
            BY <1>1, <2>1, <2>2, <3>1 DEF StreamCarried, Carried, Settling
        <3>2. CASE ~ch.once
            BY <1>1, <1>4, <3>2, Numbers DEF StreamCarried
        <3>3. QED
            BY <3>1, <3>2
    <2>6. QED
        BY <2>3, <2>4, <2>5, DeliveryPartsNext
<1>5. QED
    BY <1>3, <1>4 DEF Connection

\* What the stream receives is shown, and the last of it is the present version.
LEMMA ReceiveDelivery ==
    ASSUME TypeOK, DeliveryInv, Lossless' => Lossless, NEW v \in Version,
           Arrives("stream", v), view' = Shown(v),
           ch.stream \in {"waiting", "live"}, ch'.stream = "live",
           UNCHANGED <<article, pubs, gap>>, fetch'.answers = fetch.answers,
           fetch.sent > 0 => fetch'.sent > 0,
           ch.stream = "waiting" /\ ch.once => fetch'.sent > 0
    PROVE  DeliveryInv'
<1>1. /\ QueuePast' /\ v \in Nat /\ v <= article.version
      /\ \/ queue' = queue /\ v = Heartbeat
         \/ /\ v # Heartbeat /\ queue["stream"] # <<>>
            /\ \/ queue'["stream"] = <<>> /\ v = queue["stream"][Len(queue["stream"])]
               \/ queue'["stream"] # <<>>
                  /\ queue'["stream"][Len(queue'["stream"])] = queue["stream"][Len(queue["stream"])]
    BY ArrivesPast, Numbers, DeliveryParts
<1>2. ViewPast' /\ AnswersPast' /\ PubsPast' /\ EmptyBefore'
    BY <1>1, DeliveryParts DEF ViewPast, AnswersPast, PubsPast, EmptyBefore, Shown
<1>3. Lossless' => YoungestLast'
    BY DeliveryParts DEF YoungestLast
<1>4. StreamCarried'
    <2> SUFFICES ASSUME Lossless, ~(article.version <= gap)
                 PROVE  Carried'
        BY DEF StreamCarried
    <2>1. Carried
        BY DeliveryParts DEF StreamCarried
    <2>2. CASE UnderWay
        BY <2>2 DEF Carried, UnderWay
    <2>3. CASE queue' = queue /\ v = Heartbeat
        BY <2>1, <2>3 DEF Carried, Settling, UnderWay, Shown
    <2>4. CASE ~UnderWay /\ v # Heartbeat
        <3>1. queue["stream"][Len(queue["stream"])] = article.version
            BY <1>1, <2>1, <2>4 DEF Carried
        <3>2. QED
            BY <1>1, <2>4, <3>1 DEF Carried, Settling, Shown
    <2>5. QED
        BY <1>1, <2>2, <2>3, <2>4
<1>5. QED
    BY <1>1, <1>2, <1>3, <1>4, DeliveryPartsNext

LEMMA RefetchAsks ==
    TypeOK /\ Refetch => /\ fetch'.answers = fetch.answers
                         /\ fetch.sent > 0 => fetch'.sent > 0
                         /\ app.online => fetch'.sent > 0
BY Numbers DEF Refetch

LEMMA ChannelDelivery ==
    ASSUME TypeOK, ChannelInv, DeliveryInv, ChannelNext, Lossless' => Lossless
    PROVE  DeliveryInv'
<1>1. /\ ch \in Channel /\ view \in Nat /\ view <= article.version
      /\ QueuePast /\ "stream" \in Connection /\ "probe" \in Connection
    BY Numbers, DeliveryParts DEF ViewPast
<1>2. ASSUME NEW v \in Version, StreamConnects(v)
      PROVE  DeliveryInv'
    <2>1. app.online
        BY <1>2 DEF StreamConnects, ChannelInv, NoStreamAway
    <2>2. /\ ch'.stream = "live" /\ ch.stream = "waiting"
          /\ Arrives("stream", v) /\ view' = Shown(v) /\ UNCHANGED <<article, pubs, gap>>
        BY <1>1, <1>2 DEF StreamConnects, ResetBackoff, Channel, server
    <2>3. /\ fetch'.answers = fetch.answers
          /\ fetch.sent > 0 => fetch'.sent > 0
          /\ ch.once => fetch'.sent > 0
        BY <1>2, <2>1, RefetchAsks DEF StreamConnects
    <2>4. QED
        BY <2>2, <2>3, ReceiveDelivery
<1>3. ASSUME NEW v \in Version, StreamEvent(v)
      PROVE  DeliveryInv'
    <2>1. /\ ch'.stream = "live" /\ ch.stream = "live" /\ fetch' = fetch
          /\ Arrives("stream", v) /\ view' = Shown(v) /\ UNCHANGED <<article, pubs, gap>>
        BY <1>3 DEF StreamEvent, server
    <2>2. QED
        BY <2>1, ReceiveDelivery
<1>4. CASE StreamBreaks
    <2>1. ch'.stream = "none"
        <3> DEFINE failed == [CancelStream(ch) EXCEPT !.failures = @ + 1]
        <3>1. CancelStream(ch) \in Channel /\ CancelStream(ch).stream = "none"
            BY <1>1 DEF CancelStream, Channel
        <3>2. failed \in Channel /\ failed.stream = "none"
            BY <3>1 DEF Channel
        <3>3. \/ ch' = [failed EXCEPT !.timer = TRUE]
              \/ ch' = [failed EXCEPT !.fallback = TRUE]
            BY <1>4 DEF StreamBreaks
        <3> HIDE DEF failed
        <3>4. QED
            BY <3>2, <3>3 DEF Channel
    <2>2. KeepQueues /\ UNCHANGED <<article, pubs, fetch, view>>
        BY <1>4 DEF StreamBreaks, server
    <2>3. QED
        BY <1>1, <2>1, <2>2, CutFrame
<1>5. CASE ReconnectTimer
    <2>1. ch'.stream \in {"none", "opening"}
        BY <1>1, <1>5 DEF ReconnectTimer, Start, CancelStream, Channel, ChannelInv, NoStreamAway
    <2>2. KeepQueues /\ UNCHANGED <<article, pubs, fetch, view>>
        BY <1>5 DEF ReconnectTimer, server
    <2>3. QED
        BY <1>1, <2>1, <2>2, CutFrame
<1>6. CASE ProbeTimer
    <2>1. ch'.stream = ch.stream /\ ch'.once = ch.once
        BY <1>1, <1>6 DEF ProbeTimer, TryExitFallback, Channel
    <2>2. UNCHANGED <<article, pubs, queue, fetch, view, gap>>
        BY <1>6 DEF ProbeTimer, server
    <2>3. QED
        BY <2>1, <2>2, DeliveryFrame
<1>7. ASSUME NEW v \in Version, ProbeEvent(v)
      PROVE  DeliveryInv'
    <2>1. ch'.stream \in {"none", "opening"}
        BY <1>1, <1>7 DEF ProbeEvent, Start, CancelStream, Channel, ChannelInv, NoStreamAway
    <2>2. view' = Shown(v) /\ KeepQueues /\ UNCHANGED <<article, pubs, fetch>>
        BY <1>7 DEF ProbeEvent, server
    <2>3. view' <= article.version
        <3>1. CASE v = Heartbeat
            BY <1>1, <2>2, <3>1 DEF Shown
        <3>2. CASE v # Heartbeat
            <4>1. queue["probe"] # <<>> /\ v = Head(queue["probe"])
                BY <1>7, <3>2 DEF ProbeEvent
            <4>2. 1 \in 1..Len(queue["probe"]) /\ v = queue["probe"][1]
                BY <1>1, <4>1, Numbers
            <4>3. QED
                BY <1>1, <2>2, <3>2, <4>2 DEF QueuePast, Shown
        <3>3. QED
            BY <3>1, <3>2
    <2>4. QED
        BY <2>1, <2>2, <2>3, CutFrame
<1>8. CASE ProbeBreaks
    <2>1. /\ ch'.stream = ch.stream /\ ch'.once = ch.once /\ KeepQueues
          /\ UNCHANGED <<article, pubs, fetch, view, gap>>
        BY <1>1, <1>8 DEF ProbeBreaks, server, Channel
    <2>2. CASE ch.stream \in {"none", "opening"}
        BY <1>1, <2>1, <2>2, CutFrame
    <2>3. CASE ch.stream \notin {"none", "opening"}
        <3>1. queue'["stream"] = queue["stream"]
            BY <1>1, <2>1, <2>3 DEF KeepQueues
        <3>2. QueuePast' /\ EmptyBefore'
            BY <1>1, <2>1, KeepQueuesPast
        <3>3. ViewPast' /\ AnswersPast' /\ PubsPast'
            BY <2>1, DeliveryParts DEF ViewPast, AnswersPast, PubsPast
        <3>4. Lossless' => YoungestLast'
            BY <2>1, DeliveryParts DEF YoungestLast
        <3>5. StreamCarried'
            BY <2>1, <3>1, DeliveryParts DEF StreamCarried, Carried, UnderWay, Settling
        <3>6. QED
            BY <3>2, <3>3, <3>4, <3>5, DeliveryPartsNext
    <2>4. QED
        BY <2>2, <2>3
<1>9. CASE GoOffline \/ Suspend
    <2>1. ch'.stream = "none"
        BY <1>1, <1>9 DEF GoOffline, Suspend, CancelStream, Channel
    <2>2. KeepQueues /\ UNCHANGED <<article, pubs, fetch, view>>
        BY <1>9 DEF GoOffline, Suspend, server
    <2>3. QED
        BY <1>1, <2>1, <2>2, CutFrame
<1>10. CASE GoOnline \/ Resume
    <2>1. ch.stream = "none"
        BY <1>1, <1>10 DEF GoOnline, Resume, ChannelInv, NoStreamAway
    <2> DEFINE d == ResetBackoff(ch)
    <2>2. d \in Channel /\ d.stream = "none"
        BY <1>1, <2>1 DEF ResetBackoff, Channel
    <2>3. ch' = Start(d) \/ ch' = TryExitFallback(d)
        BY <1>10 DEF GoOnline, Resume
    <2> HIDE DEF d
    <2>4. ch'.stream \in {"none", "opening"}
        BY <2>2, <2>3 DEF Start, CancelStream, TryExitFallback, Channel
    <2>5. KeepQueues /\ UNCHANGED <<article, pubs, fetch, view>>
        BY <1>10 DEF GoOnline, Resume, server
    <2>6. QED
        BY <1>1, <2>4, <2>5, CutFrame
<1>11. QED
    BY <1>2, <1>3, <1>4, <1>5, <1>6, <1>7, <1>8, <1>9, <1>10
       DEF ChannelNext, StreamNext, ProbeNext

LEMMA CheckDelivery ==
    ASSUME TypeOK, DeliveryInv, NEW l \in Loop, CheckNext(l), Lossless' => Lossless
    PROVE  DeliveryInv'
<1>1. UNCHANGED <<article, pubs, queue, ch, view, gap>>
    BY DEF CheckNext, CheckAsk, CheckLater, CheckQuery, CheckStamp, CheckDone, CheckFails, server
<1>2. UNCHANGED fetch \/ Refetch
    BY DEF CheckNext, CheckAsk, CheckLater, CheckQuery, CheckStamp, CheckDone, CheckFails
<1>3. fetch'.answers = fetch.answers /\ (fetch.sent > 0 => fetch'.sent > 0)
    BY <1>2, RefetchAsks
<1>4. QED
    BY <1>1, <1>3, DeliveryFrame

\* A page answers with the present version; shown, it may only be late.
LEMMA FetchDelivery ==
    ASSUME TypeOK, DeliveryInv, FetchNext, Lossless' => Lossless
    PROVE  DeliveryInv'
<1>1. /\ fetch \in [sent : Nat, answers : [Version -> Nat]]
      /\ article.version \in Version /\ article.version \in Nat /\ view \in Nat
      /\ \A v \in Version : v \in Nat
    BY Numbers
<1>2. UNCHANGED <<article, pubs, queue, ch, gap>>
    BY DEF FetchNext, FetchAnswer, FetchApply, FetchFails, server
<1>3. QueuePast' /\ PubsPast' /\ EmptyBefore' /\ (Lossless' => YoungestLast')
    BY <1>2, DeliveryParts DEF QueuePast, PubsPast, EmptyBefore, YoungestLast
<1>4. CASE FetchAnswer
    <2>1. /\ view' = view /\ fetch'.answers[article.version] > 0
          /\ \A v \in Version \ {article.version} : fetch'.answers[v] = fetch.answers[v]
        <3>1. fetch'.answers = [fetch.answers EXCEPT ![article.version] = @ + 1] /\ view' = view
            BY <1>1, <1>4 DEF FetchAnswer
        <3>2. QED
            BY <1>1, <3>1
    <2>2. ViewPast' /\ AnswersPast'
        BY <1>1, <1>2, <2>1, DeliveryParts DEF ViewPast, AnswersPast
    <2>3. StreamCarried'
        BY <1>2, <2>1, DeliveryParts DEF StreamCarried, Carried, UnderWay, Settling
    <2>4. QED
        BY <1>3, <2>2, <2>3, DeliveryPartsNext
<1>5. ASSUME NEW v \in Version, FetchApply(v)
      PROVE  DeliveryInv'
    <2>1. /\ fetch.answers[v] > 0 /\ view' = v /\ fetch'.sent = fetch.sent
          /\ fetch'.answers = [fetch.answers EXCEPT ![v] = @ - 1]
          /\ Trouble(If(v < view, "overtake"))
        BY <1>1, <1>5 DEF FetchApply
    <2>2. /\ v <= article.version
          /\ \A u \in Version : fetch'.answers[u] > 0 => fetch.answers[u] > 0
          /\ \A u \in Version \ {v} : fetch'.answers[u] = fetch.answers[u]
        BY <1>1, <2>1, DeliveryParts DEF AnswersPast
    <2>3. ViewPast' /\ AnswersPast'
        BY <1>2, <2>1, <2>2, DeliveryParts DEF ViewPast, AnswersPast
    <2>4. Lossless' => ~(v < view)
        BY <2>1 DEF Trouble, If, Lossless, Spared
    <2>5. Lossless' /\ view = article.version => v = article.version
        BY <1>1, <2>2, <2>4
    <2>6. StreamCarried'
        BY <1>1, <1>2, <2>1, <2>2, <2>5, DeliveryParts
           DEF StreamCarried, Carried, UnderWay, Settling
    <2>7. QED
        BY <1>3, <2>3, <2>6, DeliveryPartsNext
<1>6. CASE FetchFails
    <2>1. view' = view /\ fetch'.answers = fetch.answers /\ ~Lossless'
        BY <1>1, <1>6 DEF FetchFails, Trouble, Lossless, Spared
    <2>2. ViewPast' /\ AnswersPast' /\ StreamCarried'
        BY <1>2, <2>1, DeliveryParts DEF ViewPast, AnswersPast, StreamCarried
    <2>3. QED
        BY <1>3, <2>2, DeliveryPartsNext
<1>7. QED
    BY <1>4, <1>5, <1>6 DEF FetchNext

LEMMA NextDelivery == TypeOK /\ ChannelInv /\ DeliveryInv /\ [Next]_vars => DeliveryInv'
<1> SUFFICES ASSUME TypeOK, ChannelInv, DeliveryInv, [Next]_vars
             PROVE  DeliveryInv'
    OBVIOUS
<1>1. Lossless' => Lossless
    BY TroubleGrows
<1>2. CASE \E touches \in BOOLEAN : Commit(touches)
    BY <1>2, CommitDelivery
<1>3. CASE PubNext
    BY <1>1, <1>3, PubReadDelivery, PubSendDelivery, PubFailDelivery DEF PubNext
<1>4. CASE \E c \in Connection : Subscribe(c)
    BY <1>4, SubscribeDelivery
<1>5. CASE ChannelNext
    BY <1>1, <1>5, ChannelDelivery
<1>6. CASE (\E l \in Loop : CheckNext(l)) \/ FetchNext
    BY <1>1, <1>6, CheckDelivery, FetchDelivery
<1>7. CASE UNCHANGED vars
    BY <1>1, <1>7, DeliveryFrame DEF vars
<1>8. QED
    BY <1>2, <1>3, <1>4, <1>5, <1>6, <1>7 DEF Next, ChannelNext

\* The present version is never lost between the parts while a stream is
\* subscribed: a push, the queue, a page or the screen has it.
THEOREM DeliveryInvAlways == Spec => []DeliveryInv
<1>1. Init => TypeOK /\ ChannelInv /\ DeliveryInv
    BY InitTyped, InitChannel, InitDelivery
<1>2. TypeOK /\ ChannelInv /\ DeliveryInv /\ [Next]_vars => (TypeOK /\ ChannelInv /\ DeliveryInv)'
    BY NextTyped, NextChannel, NextDelivery
<1>3. QED
    BY <1>1, <1>2, PTL DEF Spec

\* A live stream with nothing under way shows the present version, whatever was
\* missed before, unless a push or a page went wrong or the change is older than
\* the first live subscription.
THEOREM CaughtUpSinceConnectedAlways == Spec => []CaughtUpSinceConnected
<1>1. TypeOK /\ DeliveryInv => CaughtUpSinceConnected
    <2> SUFFICES ASSUME TypeOK, DeliveryInv, ch.stream = "live", Quiet, Lossless,
                        ~(article.version <= gap)
                 PROVE  view = article.version
        BY DEF CaughtUpSinceConnected
    <2>1. Carried
        BY DeliveryParts DEF StreamCarried
    <2>2. ~UnderWay /\ queue["stream"] = <<>>
        BY DEF Quiet, UnderWay
    <2>3. Settling /\ ch.stream # "waiting"
        BY <2>1, <2>2 DEF Carried
    <2>4. fetch.sent = 0 /\ fetch.answers[article.version] = 0
        BY Numbers DEF Quiet
    <2>5. QED
        BY <2>3, <2>4 DEF Settling
<1>2. QED
    BY <1>1, UpdatesTypeCorrect, DeliveryInvAlways, PTL

=============================================================================
