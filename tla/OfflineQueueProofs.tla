------------------------- MODULE OfflineQueueProofs -------------------------
(***************************************************************************)
(* The app's queue of operations, for any articles and operations, however *)
(* much is queued, fails, and dies.  Everything rests on where a pass is:  *)
(* its snapshot is the beginning of the queue, and the queue is in the     *)
(* order of its ids (QueueInv), so that what a pass does it does to the    *)
(* first row (PassAtFirst).  Cached previews follow the queue (CacheInv):  *)
(* what it comes to is a row for every operation of it, so that a lemma    *)
(* says what an operation more, and one less, make of them.                *)
(***************************************************************************)
EXTENDS OfflineQueue, SequenceTheorems, TLAPS

----------------------------------------------------------------------------
(* Rows and the queue. *)

\* An operation turns a row into a row.
LEMMA RowAgain ==
    ASSUME NEW op \in Operation, NEW row \in Rows PROVE Apply(op, row) \in Rows
<1>1. op.type \in {"parse_article", "delete_article", "set_article_state"}
  BY DEF Operation
<1>2. CASE op.type = "parse_article" \/ op.type = "delete_article"
  BY <1>2 DEF Apply, Rows, Row, Gone, Fresh
<1>3. CASE op.type = "set_article_state"
  <2>1. op.list \in {"inbox", "archive", "null"} /\ op.fav \in {"yes", "no", "null"}
    BY <1>3 DEF Operation
  <2>2. CASE row = Gone
    BY <1>3, <2>2 DEF Apply, Rows
  <2>3. CASE row # Gone
    <3>1. row \in Row
      BY <2>3 DEF Rows
    <3> QED
      BY <1>3, <2>1, <2>3, <3>1 DEF Apply, Rows, Row
  <2> QED
    BY <2>2, <2>3
<1> QED
  BY <1>1, <1>2, <1>3

\* Deleting the first row of the queue leaves the others.
LEMMA FirstRemoved ==
    ASSUME ops \in Seq(Pending), ops # <<>>
    PROVE Without(ops[1].id) = Tail(ops)
<1> DEFINE Test(p) == p.id = ops[1].id
           I == {i \in 1..Len(ops) : Test(ops[i])}
<1>1. Len(ops) \in Nat \ {0}
  BY EmptySeq
<1>2. 1 \in I /\ I \subseteq 1..Len(ops)
  BY <1>1
<1>3. Min(I) = 1
  BY <1>2, <1>1 DEF Min
<1>4. Without(ops[1].id) = RemoveAt(ops, 1)
  BY <1>1, <1>2, <1>3 DEF Without, RemoveFirstMatch, SelectInSeq
<1>5. SubSeq(ops, 1, 0) = <<>> /\ SubSeq(ops, 2, Len(ops)) = Tail(ops)
  BY SubSeqEmpty, TailIsSubSeq
<1>6. Tail(ops) \in Seq(Pending)
  BY HeadTailProperties
<1> QED
  BY <1>4, <1>5, <1>6, ConcatEmptySeq DEF RemoveAt

----------------------------------------------------------------------------
(* Types: rows, pages and operations under way. *)

CallOK ==
    /\ call \in [Call -> Carried]
    /\ \A c \in Call : call[c].pc # "none" => call[c].op \in Operation

AppOK ==
    /\ server \in [Article -> Rows] /\ cache \in [Article -> Rows]
    /\ online \in BOOLEAN /\ refetch \in BOOLEAN /\ missed \in BOOLEAN
    /\ CallOK /\ read \in [Slot -> Page]
    /\ disturbed \subseteq Article

\* An operation goes on ...
LEMMA CallMoves ==
    ASSUME CallOK, NEW c \in Call, call[c].pc # "none",
           NEW pc \in {"written", "sent", "error"}, call' = [call EXCEPT ![c].pc = pc]
    PROVE CallOK'
<1>1. call[c] \in Carried
  BY DEF CallOK
<1>2. /\ [call[c] EXCEPT !.pc = pc] \in Carried
      /\ [call[c] EXCEPT !.pc = pc].op = call[c].op
  BY <1>1 DEF Carried
<1> QED
  BY <1>1, <1>2 DEF CallOK

\* ... or ends.
LEMMA CallEnds ==
    ASSUME CallOK, NEW c \in Call, call' = [call EXCEPT ![c] = NoCall]
    PROVE CallOK'
<1>1. NoCall \in Carried /\ NoCall.pc = "none"
  BY DEF NoCall, Carried, Rows
<1> QED
  BY <1>1 DEF CallOK

\* Its article is one.
LEMMA OperationArticle == \A op \in Operation : op.art \in Article
  BY DEF Operation

\* The article of an operation under way is one, and its rows are rows.
LEMMA CallFacts ==
    ASSUME CallOK, NEW c \in Call, call[c].pc # "none"
    PROVE /\ call[c].op \in Operation /\ call[c].op.art \in Article
          /\ call[c].previous \in Rows
  BY OperationArticle DEF CallOK, Carried

\* A page that an article changes under is a page.
LEMMA PagesTouched ==
    ASSUME read \in [Slot -> Page], NEW a \in Article,
           read' = [r \in Slot |-> [read[r] EXCEPT !.clean[a] = FALSE]]
    PROVE read' \in [Slot -> Page]
<1>1. ASSUME NEW p \in Page PROVE [p EXCEPT !.clean[a] = FALSE] \in Page
  BY DEF Page
<1> QED
  BY <1>1

\* What is read of the rows, and no page, are pages.
LEMMA SnapshotPage ==
    ASSUME server \in [Article -> Rows], NEW S
    PROVE Snapshot(S) \in Page
<1> DEFINE rows == [a \in Article |-> IF a \in S THEN server[a] ELSE Gone]
           clean == [a \in Article |-> ~QueuedFor(a) /\ ~CarriedOut(a)]
<1>1. rows \in [Article -> Rows]
  BY DEF Rows
<1>2. clean \in [Article -> BOOLEAN]
  OBVIOUS
<1> HIDE DEF rows, clean
<1>3. [on |-> TRUE, rows |-> rows, clean |-> clean] \in Page
  BY <1>1, <1>2 DEF Page
<1> QED
  BY <1>3 DEF Snapshot, rows, clean

\* No page is one, too.
LEMMA NoPage == NoRead \in Page
  BY DEF NoRead, Page, Rows

\* The backend executes operations on its rows.
LEMMA Executed ==
    ASSUME server \in [Article -> Rows], NEW op \in Operation, Execute(op)
    PROVE server' \in [Article -> Rows]
  BY RowAgain, OperationArticle DEF Execute

\* The pass is at an operation that is queued.
LEMMA HeadOfPass ==
    ASSUME pass \in Pass, pass.todo # <<>>
    PROVE Head(pass.todo) \in Pending /\ Head(pass.todo).op \in Operation
<1>1. pass.todo \in Seq(Pending)
  BY DEF Pass
<1>2. Head(pass.todo) \in Pending
  BY <1>1, HeadTailProperties
<1> QED
  BY <1>2 DEF Pending

\* Every step keeps the types of what the queue is not.
LEMMA AppStep ==
    ASSUME AppOK, pass \in Pass, (pass.pc = "idle") = (pass.todo = <<>>), [Next]_vars
         PROVE AppOK'
<1> USE DEF AppOK, vars, queue, history
<1>1. ASSUME NEW c \in Call, NEW op \in Operations, Begin(c, op) PROVE AppOK'
  <2>1. op \in Operation /\ op.art \in Article
    BY QueueAssumption, OperationArticle
  <2>2. cache[op.art] \in Rows
    BY <2>1
  <2> DEFINE pc == IF op.type = "parse_article" THEN "written" ELSE "read"
             new == [pc |-> pc, op |-> op, previous |-> cache[op.art]]
  <2>3. new \in Carried /\ new.op = op
    BY <2>1, <2>2 DEF Carried
  <2>4. call' = [call EXCEPT ![c] = new]
    BY <1>1 DEF Begin
  <2> HIDE DEF new
  <2>5. CallOK'
    BY <2>1, <2>3, <2>4 DEF CallOK
  <2>6. read' \in [Slot -> Page]
    BY <1>1, <2>1, PagesTouched DEF Begin
  <2>7. disturbed' \subseteq Article
    BY <1>1, <2>1 DEF Begin
  <2> QED
    BY <1>1, <2>5, <2>6, <2>7 DEF Begin
<1>2. ASSUME NEW c \in Call, Write(c) PROVE AppOK'
  <2>1. CallOK'
    BY <1>2, CallMoves DEF Write
  <2>2. call[c].op \in Operation /\ call[c].op.art \in Article
    BY <1>2, CallFacts DEF Write
  <2>3. cache' \in [Article -> Rows]
    BY <1>2, <2>2, RowAgain DEF Write
  <2> QED
    BY <1>2, <2>1, <2>3 DEF Write
<1>3. ASSUME NEW c \in Call, Send(c) PROVE AppOK'
  <2>1. CallOK'
    BY <1>3, CallMoves DEF Send
  <2>2. call[c].op.art \in Article
    BY <1>3, CallFacts DEF Send
  <2> QED
    BY <1>3, <2>1, <2>2 DEF Send
<1>4. ASSUME NEW c \in Call, Enqueue(c) PROVE AppOK'
  <2>1. CallOK'
    BY <1>4, CallEnds DEF Enqueue
  <2> QED
    BY <1>4, <2>1 DEF Enqueue
<1>5. ASSUME NEW c \in Call, Served(c) PROVE AppOK'
  <2>1. CallOK'
    BY <1>5, CallEnds, CallMoves DEF Served
  <2>2. call[c].op \in Operation /\ call[c].op.art \in Article
    BY <1>5, CallFacts DEF Served
  <2>3. server' \in [Article -> Rows]
    BY <1>5, <2>2, Executed DEF Served
  <2>4. disturbed' \subseteq Article
    BY <1>5, <2>2 DEF Served
  <2> QED
    BY <1>5, <2>1, <2>3, <2>4 DEF Served
<1>6. ASSUME NEW c \in Call, Refused(c) PROVE AppOK'
  <2>1. CallOK'
    BY <1>6, CallMoves DEF Refused
  <2> QED
    BY <1>6, <2>1 DEF Refused
<1>7. ASSUME NEW c \in Call, Restore(c) PROVE AppOK'
  <2>1. CallOK'
    BY <1>7, CallEnds DEF Restore
  <2>2. call[c].op.art \in Article /\ call[c].previous \in Rows
    BY <1>7, CallFacts DEF Restore
  <2>3. cache' \in [Article -> Rows]
    BY <1>7, <2>2 DEF Restore
  <2> QED
    BY <1>7, <2>1, <2>3 DEF Restore
<1>8. CASE OpServed
  <2>1. Head(pass.todo).op \in Operation
    BY <1>8, HeadOfPass DEF OpServed
  <2>2. server' \in [Article -> Rows]
    BY <1>8, <2>1, Executed DEF OpServed
  <2> QED
    BY <1>8, <2>2 DEF OpServed, CallOK
<1>9. CASE OpRefused
  BY <1>9 DEF OpRefused, CallOK
<1>10. CASE OpDone
  BY <1>10 DEF OpDone, NextOp, CallOK
<1>11. CASE OpFailed
  <2>1. Head(pass.todo).op.art \in Article
    BY <1>11, HeadOfPass, OperationArticle DEF OpFailed
  <2>2. refetch' \in BOOLEAN
    BY <1>11 DEF OpFailed, NextOp, Break, Pass
  <2>3. disturbed' \subseteq Article
    BY <1>11, <2>1 DEF OpFailed
  <2> QED
    BY <1>11, <2>2, <2>3 DEF OpFailed, CallOK
<1>12. CASE TimerFires
  BY <1>12 DEF TimerFires, CallOK
<1>13. CASE GoOffline
  BY <1>13 DEF GoOffline, CallOK
<1>14. CASE ComeOnline
  BY <1>14 DEF ComeOnline, CallOK
<1>15. CASE Restart
  <2>1. NoCall \in Carried /\ NoCall.pc = "none"
    BY DEF NoCall, Carried, Rows
  <2>2. CallOK'
    BY <1>15, <2>1 DEF Restart, Reboot, CallOK
  <2>3. read' \in [Slot -> Page]
    BY <1>15, NoPage DEF Restart, Reboot
  <2>4. disturbed' \subseteq Article
    BY <1>15, CallFacts DEF Restart, Reboot
  <2> QED
    BY <1>15, <2>2, <2>3, <2>4 DEF Restart, Reboot
<1>16. ASSUME NEW r \in Read, NEW S \in SUBSET Article, Serve(r, S) PROVE AppOK'
  <2>1. Snapshot(S) \in Page
    BY SnapshotPage
  <2>2. read' \in [Slot -> Page]
    BY <1>16, <2>1 DEF Serve, Slot
  <2> QED
    BY <1>16, <2>2 DEF Serve, CallOK
<1>17. ASSUME NEW r \in Slot, Store(r) PROVE AppOK'
  <2>1. read[r].rows \in [Article -> Rows]
    BY DEF Page
  <2>2. cache' \in [Article -> Rows]
    BY <1>17, <2>1 DEF Store
  <2>3. read' \in [Slot -> Page]
    BY <1>17, NoPage DEF Store
  <2>4. disturbed' \subseteq Article
    BY <1>17 DEF Store
  <2> QED
    BY <1>17, <2>2, <2>3, <2>4 DEF Store, CallOK
<1>18. CASE Refetch
  <2>1. read' \in [Slot -> Page]
    BY <1>18, SnapshotPage DEF Refetch
  <2> QED
    BY <1>18, <2>1 DEF Refetch, CallOK
<1>19. ASSUME NEW op \in Operations, Elsewhere(op) PROVE AppOK'
  <2>1. op \in Operation /\ op.art \in Article
    BY QueueAssumption, OperationArticle
  <2>2. server' \in [Article -> Rows]
    BY <1>19, <2>1, Executed DEF Elsewhere
  <2>3. read' \in [Slot -> Page]
    BY <1>19, <2>1, PagesTouched DEF Elsewhere
  <2> QED
    BY <1>19, <2>1, <2>2, <2>3 DEF Elsewhere, CallOK
<1>20. CASE UNCHANGED vars
  BY <1>20 DEF CallOK
<1> QED
  BY <1>1, <1>2, <1>3, <1>4, <1>5, <1>6, <1>7, <1>8, <1>9, <1>10, <1>11, <1>12, <1>13,
       <1>14, <1>15, <1>16, <1>17, <1>18, <1>19, <1>20
  DEF Next

----------------------------------------------------------------------------
(* Types: the queue and its pass. *)

PassOK ==
    /\ pass \in Pass
    /\ (pass.pc = "idle") = (pass.todo = <<>>)

\* Timers nobody can cancel any more are left by failures.
QueueOK ==
    /\ ops \in Seq(Pending) /\ failed \subseteq OpId /\ issued \in 0..MaxQueued
    /\ PassOK
    /\ timer \in [set : BOOLEAN, stray : Nat]
    /\ applied \in Seq(OpId) /\ resent \subseteq OpId
    /\ offlines \in 0..MaxOffline /\ trouble \in 0..MaxTrouble
    /\ timer.stray + (IF timer.set THEN 1 ELSE 0) + (IF pass.pc = "error" THEN 1 ELSE 0)
          <= trouble

Quiet ==
    /\ UNCHANGED <<ops, failed, issued, pass, timer, applied, resent, offlines,
                   online, missed>>
    /\ trouble' \in {trouble, trouble + 1} /\ (trouble' # trouble => trouble < MaxTrouble)

\* These steps do something to the queue, and no others.
LEMMA QueueSteps ==
    ASSUME Next
    PROVE \/ Quiet \/ OpServed \/ OpRefused \/ OpDone \/ OpFailed \/ TimerFires
          \/ GoOffline \/ ComeOnline \/ Restart \/ \E c \in Call : Enqueue(c)
<1> USE DEF Quiet, queue, history
<1>1. ASSUME NEW c \in Call, NEW op \in Operations, Begin(c, op) PROVE Quiet
  BY <1>1 DEF Begin
<1>2. ASSUME NEW c \in Call, Write(c) PROVE Quiet
  BY <1>2 DEF Write
<1>3. ASSUME NEW c \in Call, Send(c) PROVE Quiet
  BY <1>3 DEF Send
<1>4. ASSUME NEW c \in Call, Served(c) PROVE Quiet
  BY <1>4 DEF Served, Trouble
<1>5. ASSUME NEW c \in Call, Refused(c) PROVE Quiet
  BY <1>5 DEF Refused, Trouble
<1>6. ASSUME NEW c \in Call, Restore(c) PROVE Quiet
  BY <1>6 DEF Restore
<1>7. ASSUME NEW r \in Read, NEW S \in SUBSET Article, Serve(r, S) PROVE Quiet
  BY <1>7 DEF Serve
<1>8. ASSUME NEW r \in Slot, Store(r) PROVE Quiet
  BY <1>8 DEF Store
<1>9. CASE Refetch
  BY <1>9 DEF Refetch
<1>10. ASSUME NEW op \in Operations, Elsewhere(op) PROVE Quiet
  BY <1>10 DEF Elsewhere, Trouble
<1> QED
  BY <1>1, <1>2, <1>3, <1>4, <1>5, <1>6, <1>7, <1>8, <1>9, <1>10 DEF Next

\* A pass that is started takes the whole queue, unless one is under way.
LEMMA Started ==
    ASSUME QueueOK, pass' = StartPass
    PROVE /\ PassOK'
          /\ pass.pc # "idle" => pass' = pass
          /\ pass.pc = "idle" => pass'.todo = ops /\ pass'.pc \in {"idle", "call"}
<1>1. CASE pass.pc # "idle"
  BY <1>1 DEF StartPass, QueueOK, PassOK
<1>2. CASE pass.pc = "idle"
  <2> DEFINE pc == IF ops = <<>> THEN "idle" ELSE "call"
  <2>1. pass' = [pc |-> pc, todo |-> ops, processed |-> FALSE]
    BY <1>2 DEF StartPass, Idle
  <2>2. pass' \in Pass /\ pass'.pc = pc /\ pass'.todo = ops
    BY <2>1 DEF Pass, QueueOK
  <2> QED
    BY <1>2, <2>2 DEF PassOK
<1> QED
  BY <1>1, <1>2

\* A pass that goes on is at the next operation, or over.
LEMMA WentOn ==
    ASSUME QueueOK, pass.pc # "idle", NextOp
    PROVE /\ PassOK' /\ pass'.todo = Tail(pass.todo) /\ pass'.pc \in {"idle", "call"}
          /\ UNCHANGED timer
<1>1. pass.todo \in Seq(Pending) /\ pass.todo # <<>>
  BY DEF QueueOK, PassOK, Pass
<1>2. Tail(pass.todo) \in Seq(Pending)
  BY <1>1, HeadTailProperties
<1>3. CASE Tail(pass.todo) = <<>>
  BY <1>2, <1>3 DEF NextOp, Idle, PassOK, Pass
<1>4. CASE Tail(pass.todo) # <<>>
  <2>1. pass' = [pc |-> "call", todo |-> Tail(pass.todo), processed |-> TRUE]
    BY <1>4 DEF NextOp
  <2>2. pass' \in Pass
    BY <1>2, <2>1 DEF Pass
  <2> QED
    BY <1>4, <2>1, <2>2 DEF NextOp, PassOK
<1> QED
  BY <1>3, <1>4

\* A pass that fails is over, and a timer is set.
LEMMA BrokeOff ==
    ASSUME QueueOK, Break
    PROVE /\ PassOK' /\ pass'.todo = <<>> /\ pass'.pc = "idle"
          /\ timer'.set = TRUE /\ timer' \in [set : BOOLEAN, stray : Nat]
          /\ timer'.stray = IF timer.set THEN timer.stray + 1 ELSE timer.stray
<1>1. <<>> \in Seq(Pending)
  BY EmptySeq
<1>2. PassOK' /\ pass'.todo = <<>> /\ pass'.pc = "idle"
  BY <1>1 DEF Break, Idle, PassOK, Pass
<1>3. timer.stray \in Nat
  BY DEF QueueOK
<1> QED
  BY <1>2, <1>3 DEF Break

----------------------------------------------------------------------------
(* The pass and the queue. *)

\* The queue is in the order of its ids; a pass is at its beginning, and has
\* recorded what it has got an answer for.
QueueInv ==
    /\ \A i, j \in 1..Len(ops) : i < j => ops[i].id < ops[j].id
    /\ \A i \in 1..Len(ops) : ops[i].id <= issued
    /\ Len(pass.todo) <= Len(ops)
    /\ \A i \in 1..Len(pass.todo) : pass.todo[i].id = ops[i].id
    /\ Applied \subseteq 1..issued
    /\ pass.pc = "ok" => Head(pass.todo).id \in Applied

First == Head(pass.todo)

\* The pass is at the first operation that is queued.
LEMMA PassAtFirst ==
    ASSUME QueueOK, QueueInv, pass.pc # "idle"
    PROVE /\ ops # <<>> /\ Len(ops) \in Nat \ {0}
          /\ pass.todo \in Seq(Pending) /\ pass.todo # <<>> /\ Len(pass.todo) \in Nat \ {0}
          /\ First \in Pending /\ First.id = ops[1].id /\ First.id \in OpId
          /\ First.id \in 1..issued
<1>1. pass.todo \in Seq(Pending) /\ pass.todo # <<>>
  BY DEF QueueOK, PassOK, Pass
<1>2. Len(pass.todo) \in Nat \ {0}
  BY <1>1, EmptySeq
<1>3. Len(ops) \in Nat \ {0} /\ ops # <<>>
  <2>1. Len(ops) \in Nat
    BY DEF QueueOK
  <2> QED
    BY <1>2, <2>1, EmptySeq DEF QueueInv
<1>4. First = pass.todo[1]
  BY <1>1 DEF First
<1>5. First \in Pending
  BY <1>1, HeadTailProperties DEF First
<1>6. First.id \in OpId
  BY <1>5 DEF Pending
<1>7. First.id = ops[1].id /\ ops[1].id <= issued
  BY <1>2, <1>3, <1>4 DEF QueueInv
<1> QED
  BY <1>1, <1>2, <1>3, <1>5, <1>6, <1>7 DEF OpId, QueueOK

\* The first operation is done with.
FirstGone ==
    /\ ops' \in Seq(Pending) /\ Len(ops') = Len(ops) - 1
    /\ \A i \in 1..Len(ops') : ops'[i] = ops[i + 1]
    /\ pass'.todo \in Seq(Pending) /\ Len(pass'.todo) = Len(pass.todo) - 1
    /\ \A i \in 1..Len(pass'.todo) : pass'.todo[i] = pass.todo[i + 1]
    /\ PassOK' /\ pass'.pc \in {"idle", "call"}

\* It is when its row is deleted and the pass goes on.
LEMMA GoesFirst ==
    ASSUME QueueOK, QueueInv, pass.pc # "idle", ops' = Without(First.id), NextOp
    PROVE FirstGone
<1>1. ops' = Tail(ops)
  BY PassAtFirst, FirstRemoved DEF QueueOK
<1>2. /\ ops' \in Seq(Pending) /\ Len(ops') = Len(ops) - 1
      /\ \A i \in 1..Len(ops') : ops'[i] = ops[i + 1]
  BY <1>1, PassAtFirst, HeadTailProperties DEF QueueOK
<1>3. PassOK' /\ pass'.todo = Tail(pass.todo) /\ pass'.pc \in {"idle", "call"}
  BY WentOn
<1>4. /\ pass'.todo \in Seq(Pending) /\ Len(pass'.todo) = Len(pass.todo) - 1
      /\ \A i \in 1..Len(pass'.todo) : pass'.todo[i] = pass.todo[i + 1]
  BY <1>3, PassAtFirst, HeadTailProperties
<1> QED
  BY <1>2, <1>3, <1>4 DEF FirstGone

\* It stays queued for another try.
FirstStays ==
    /\ ops' \in Seq(Pending) /\ Len(ops') = Len(ops)
    /\ \A i \in 1..Len(ops) : ops'[i].id = ops[i].id /\ ops'[i].op = ops[i].op
    /\ PassOK' /\ pass'.todo = <<>> /\ pass'.pc = "idle"
    /\ timer'.set = TRUE /\ timer' \in [set : BOOLEAN, stray : Nat]
    /\ timer'.stray = IF timer.set THEN timer.stray + 1 ELSE timer.stray

\* A failure is the last of an operation, or another one of it.
LEMMA FailsFirst ==
    ASSUME QueueOK, QueueInv, OpFailed
    PROVE /\ pass.pc = "error"
          /\ \/ /\ FirstGone /\ failed' = failed \cup {First.id} /\ UNCHANGED timer
                /\ disturbed' = disturbed \cup {First.op.art}
             \/ FirstStays /\ UNCHANGED failed
<1>1. pass.pc = "error"
  BY DEF OpFailed
<1>2. CASE Exhausted(First)
  <2>1. /\ ops' = Without(First.id) /\ failed' = failed \cup {First.id}
        /\ disturbed' = disturbed \cup {First.op.art} /\ NextOp
    BY <1>2 DEF OpFailed, First
  <2> QED
    BY <1>1, <2>1, GoesFirst, WentOn
<1>3. CASE ~Exhausted(First)
  <2> DEFINE Again(p) == IF p.id = First.id
                         THEN [p EXCEPT !.retries = First.retries + 1] ELSE p
  <2>1. /\ ops' = [i \in DOMAIN ops |-> Again(ops[i])]
        /\ Break /\ UNCHANGED failed
    BY <1>3 DEF OpFailed, First
  <2>2. First.retries + 1 \in 0..MaxRetries - 1
    BY <1>1, <1>3, PassAtFirst, QueueAssumption DEF Exhausted, Pending
  <2>3. ASSUME NEW p \in Pending
        PROVE Again(p) \in Pending /\ Again(p).id = p.id /\ Again(p).op = p.op
    BY <2>2 DEF Pending
  <2>4. /\ Len(ops) \in Nat /\ DOMAIN ops = 1..Len(ops)
        /\ \A i \in 1..Len(ops) : ops[i] \in Pending
    BY DEF QueueOK
  <2> HIDE DEF Again
  <2>5. ops' \in [1..Len(ops) -> Pending]
    BY <2>1, <2>3, <2>4
  <2>6. ops' \in Seq(Pending)
    BY <2>4, <2>5, SeqDef
  <2>7. Len(ops') = Len(ops)
    BY <2>4, <2>5, <2>6, LenProperties
  <2>8. \A i \in 1..Len(ops) : ops'[i].id = ops[i].id /\ ops'[i].op = ops[i].op
    BY <2>1, <2>3, <2>4
  <2> QED
    BY <1>1, <2>1, <2>6, <2>7, <2>8, BrokeOff DEF FirstStays
<1> QED
  BY <1>1, <1>2, <1>3

\* The ids that are queued then.
LEMMA IdsGone ==
    ASSUME QueueOK, QueueInv, pass.pc # "idle", FirstGone
    PROVE PendingIds = PendingIds' \cup {First.id} /\ First.id \notin PendingIds'
<1>1. /\ DOMAIN ops = 1..Len(ops) /\ DOMAIN ops' = 1..Len(ops') /\ Len(ops) \in Nat \ {0}
      /\ First.id = ops[1].id /\ Len(ops') = Len(ops) - 1
      /\ \A i \in 1..Len(ops') : ops'[i] = ops[i + 1]
  BY PassAtFirst DEF FirstGone, QueueOK
<1>2. \A i \in 1..Len(ops) : i # 1 => i - 1 \in 1..Len(ops') /\ ops'[i - 1] = ops[i]
  BY <1>1
<1>3. PendingIds \subseteq PendingIds' \cup {First.id}
  <2> SUFFICES ASSUME NEW i \in 1..Len(ops) PROVE ops[i].id \in PendingIds' \cup {First.id}
    BY <1>1 DEF PendingIds
  <2>1. CASE i = 1
    BY <1>1, <2>1
  <2>2. CASE i # 1
    <3>1. i - 1 \in DOMAIN ops' /\ ops'[i - 1].id = ops[i].id
      BY <1>1, <1>2, <2>2
    <3>2. \A j \in DOMAIN ops' : ops'[j].id \in PendingIds'
      BY DEF PendingIds
    <3> QED
      BY <3>1, <3>2
  <2> QED
    BY <2>1, <2>2
<1>4. PendingIds' \subseteq PendingIds /\ First.id \in PendingIds
  BY <1>1 DEF PendingIds
<1>5. First.id \notin PendingIds'
  <2> SUFFICES ASSUME NEW i \in 1..Len(ops') PROVE ops'[i].id # First.id
    BY <1>1 DEF PendingIds
  <2>1. ops'[i] = ops[i + 1] /\ i + 1 \in 1..Len(ops) /\ 1 < i + 1 /\ 1 \in 1..Len(ops)
    BY <1>1
  <2>2. ops[1].id < ops[i + 1].id
    BY <2>1 DEF QueueInv
  <2>3. ops[1].id \in Nat /\ ops[i + 1].id \in Nat
    <3>1. ops[1] \in Pending /\ ops[i + 1] \in Pending
      BY <1>1, <2>1, ElementOfSeq DEF QueueOK
    <3> QED
      BY <3>1 DEF Pending, OpId
  <2> QED
    BY <1>1, <2>1, <2>2, <2>3
<1> QED
  BY <1>3, <1>4, <1>5

\* A failure that is not the last of its operation leaves them.
LEMMA IdsStay == ASSUME QueueOK, FirstStays PROVE PendingIds' = PendingIds
<1>1. DOMAIN ops = 1..Len(ops) /\ DOMAIN ops' = 1..Len(ops)
  BY DEF QueueOK, FirstStays
<1> QED
  BY <1>1 DEF FirstStays, PendingIds

\* An operation the backend executes is appended to those it executed.
LEMMA Appended ==
    ASSUME QueueOK, NEW id \in OpId, applied' = Append(applied, id)
    PROVE /\ applied' \in Seq(OpId) /\ Len(applied') = Len(applied) + 1
          /\ Len(applied) \in Nat
          /\ \A i \in 1..Len(applied) : applied'[i] = applied[i]
          /\ applied'[Len(applied) + 1] = id
          /\ Applied' = Applied \cup {id}
<1>1. /\ applied' \in Seq(OpId) /\ Len(applied') = Len(applied) + 1 /\ Len(applied) \in Nat
      /\ \A i \in 1..Len(applied) : applied'[i] = applied[i]
      /\ applied'[Len(applied) + 1] = id
  BY DEF QueueOK
<1>2. DOMAIN applied = 1..Len(applied) /\ DOMAIN applied' = 1..(Len(applied) + 1)
  BY <1>1 DEF QueueOK
<1>3. \A i \in 1..(Len(applied) + 1) : i \in 1..Len(applied) \/ i = Len(applied) + 1
  BY <1>1
<1>4. Len(applied) + 1 \in DOMAIN applied' /\ DOMAIN applied \subseteq DOMAIN applied'
  BY <1>1, <1>2
<1>5. Applied' = Applied \cup {id}
  BY <1>1, <1>2, <1>3, <1>4 DEF Applied
<1> QED
  BY <1>1, <1>5

\* An operation is queued behind the others.
LEMMA Enqueued ==
    ASSUME QueueOK, NEW c \in Call, CallOK, Enqueue(c)
    PROVE /\ ops' \in Seq(Pending) /\ Len(ops') = Len(ops) + 1 /\ Len(ops) \in Nat
          /\ issued' = issued + 1 /\ issued' \in 0..MaxQueued
          /\ \A i \in 1..Len(ops) : ops'[i] = ops[i]
          /\ ops'[Len(ops) + 1].id = issued + 1 /\ ops'[Len(ops) + 1].op = call[c].op
          /\ PendingIds' = PendingIds \cup {issued + 1}
          /\ ~online
          /\ UNCHANGED <<failed, pass, timer, online, missed, applied, resent,
                         offlines, trouble>>
<1> DEFINE p == [id |-> issued + 1, op |-> call[c].op, retries |-> 0]
<1>1. call[c].op \in Operation
  BY CallFacts DEF Enqueue
<1>2. issued \in Nat /\ issued + 1 \in OpId /\ issued + 1 \in 0..MaxQueued
  BY QueueAssumption DEF QueueOK, Enqueue, OpId
<1>3. p \in Pending /\ p.id = issued + 1 /\ p.op = call[c].op
  BY <1>1, <1>2, QueueAssumption DEF Pending
<1>4. ops' = Append(ops, p)
  BY DEF Enqueue
<1> HIDE DEF p
<1>5. /\ ops' \in Seq(Pending) /\ Len(ops') = Len(ops) + 1 /\ Len(ops) \in Nat
      /\ \A i \in 1..Len(ops) : ops'[i] = ops[i]
      /\ ops'[Len(ops) + 1] = p
  BY <1>3, <1>4 DEF QueueOK
<1>6. DOMAIN ops = 1..Len(ops) /\ DOMAIN ops' = 1..(Len(ops) + 1)
  BY <1>5 DEF QueueOK
<1>7. \A i \in 1..(Len(ops) + 1) : i \in 1..Len(ops) \/ i = Len(ops) + 1
  BY <1>5
<1>8. Len(ops) + 1 \in DOMAIN ops' /\ DOMAIN ops \subseteq DOMAIN ops'
  BY <1>5, <1>6
<1>9. PendingIds' = PendingIds \cup {issued + 1}
  BY <1>3, <1>5, <1>6, <1>7, <1>8 DEF PendingIds
<1> QED
  BY <1>2, <1>3, <1>5, <1>9 DEF Enqueue, history

\* After a restart a pass takes the whole queue.
LEMMA Rebooted ==
    ASSUME QueueOK, Restart
    PROVE PassOK' /\ pass'.todo = ops /\ ops' = ops /\ pass'.pc \in {"idle", "call"}
<1> DEFINE pc == IF ops = <<>> THEN "idle" ELSE "call"
<1>1. pass' = [pc |-> pc, todo |-> ops, processed |-> FALSE] /\ ops' = ops
  BY DEF Restart, Reboot, Idle
<1>2. pass' \in Pass /\ pass'.pc = pc /\ pass'.todo = ops
  BY <1>1 DEF Pass, QueueOK
<1> QED
  BY <1>1, <1>2 DEF PassOK

----------------------------------------------------------------------------
(* What every step keeps. *)

\* Every step keeps the types of the queue.
LEMMA QueueTypeStep ==
    ASSUME QueueOK, QueueInv, CallOK, [Next]_vars PROVE QueueOK'
<1> USE QueueAssumption DEF QueueOK
<1>1. CASE Quiet
  BY <1>1 DEF Quiet, PassOK
<1>2. CASE OpServed
  <2>1. pass.pc = "call" /\ First.id \in OpId
    BY <1>2, PassAtFirst DEF OpServed
  <2>2. applied' \in Seq(OpId)
    BY <1>2, <2>1, Appended DEF OpServed, First
  <2>3. CASE pass' = [pass EXCEPT !.pc = "ok"] /\ UNCHANGED <<resent, trouble>>
    <3>1. PassOK' /\ pass'.pc = "ok"
      BY <2>1, <2>3 DEF PassOK, Pass
    <3> QED
      BY <1>2, <2>1, <2>2, <2>3, <3>1 DEF OpServed, queue
  <2>4. CASE /\ pass' = [pass EXCEPT !.pc = "error"] /\ Trouble("lost")
             /\ resent' = resent \cup {First.id}
    <3>1. PassOK' /\ pass'.pc = "error"
      BY <2>1, <2>4 DEF PassOK, Pass
    <3> QED
      BY <1>2, <2>1, <2>2, <2>4, <3>1 DEF OpServed, queue, Trouble
  <2> QED
    BY <1>2, <2>3, <2>4 DEF OpServed, First
<1>3. CASE OpRefused
  <2>1. pass.pc = "call" /\ PassOK' /\ pass'.pc = "error"
    BY <1>3 DEF OpRefused, PassOK, Pass
  <2> QED
    BY <1>3, <2>1 DEF OpRefused, queue, history, Trouble
<1>4. CASE OpDone
  <2>1. FirstGone /\ pass.pc = "ok" /\ UNCHANGED timer
    BY <1>4, GoesFirst, WentOn DEF OpDone, First
  <2> QED
    BY <1>4, <2>1 DEF OpDone, history, FirstGone
<1>5. CASE OpFailed
  <2>1. CASE FirstGone /\ failed' = failed \cup {First.id} /\ UNCHANGED timer
    BY <1>5, <2>1, FailsFirst, PassAtFirst DEF OpFailed, history, FirstGone
  <2>2. CASE FirstStays /\ UNCHANGED failed
    BY <1>5, <2>2, FailsFirst DEF OpFailed, history, FirstStays
  <2> QED
    BY <1>5, <2>1, <2>2, FailsFirst
<1>6. CASE TimerFires
  <2>1. PassOK' /\ (pass'.pc = "error" => pass.pc = "error")
    BY <1>6, Started DEF TimerFires
  <2>2. timer' \in [set : BOOLEAN, stray : Nat]
    <3>1. CASE timer' = [timer EXCEPT !.set = FALSE]
      BY <3>1
    <3>2. CASE timer.stray > 0 /\ timer' = [timer EXCEPT !.stray = timer.stray - 1]
      <4>1. timer.stray - 1 \in Nat
        BY <3>2
      <4> QED
        BY <3>2, <4>1
    <3> QED
      BY <1>6, <3>1, <3>2 DEF TimerFires
  <2>3. timer'.stray + (IF timer'.set THEN 1 ELSE 0) <= timer.stray + (IF timer.set THEN 1 ELSE 0)
    BY <1>6 DEF TimerFires
  <2> QED
    BY <1>6, <2>1, <2>2, <2>3 DEF TimerFires, queue, history
<1>7. CASE GoOffline
  <2>1. timer' \in [set : BOOLEAN, stray : Nat] /\ timer'.set = FALSE /\ timer'.stray = timer.stray
    BY <1>7 DEF GoOffline
  <2>2. offlines' \in 0..MaxOffline
    BY <1>7 DEF GoOffline
  <2>3. PassOK'
    BY <1>7 DEF GoOffline, PassOK
  <2> QED
    BY <1>7, <2>1, <2>2, <2>3 DEF GoOffline, queue
<1>8. CASE ComeOnline
  <2>1. PassOK' /\ (pass'.pc = "error" => pass.pc = "error")
    BY <1>8, Started DEF ComeOnline
  <2> QED
    BY <1>8, <2>1 DEF ComeOnline, queue, history
<1>9. CASE Restart
  <2>1. PassOK' /\ pass'.pc # "error"
    BY <1>9, Rebooted
  <2>2. pass.pc = "ok" => Head(pass.todo).id \in OpId
    BY PassAtFirst DEF First
  <2>3. timer' = [set |-> FALSE, stray |-> 0]
    BY <1>9 DEF Restart, Reboot
  <2> QED
    BY <1>9, <2>1, <2>2, <2>3 DEF Restart, Reboot, Trouble
<1>10. ASSUME NEW c \in Call, Enqueue(c) PROVE QueueOK'
  BY <1>10, Enqueued DEF PassOK
<1>11. CASE UNCHANGED vars
  BY <1>11 DEF vars, PassOK
<1> QED
  BY <1>1, <1>2, <1>3, <1>4, <1>5, <1>6, <1>7, <1>8, <1>9, <1>10, <1>11, QueueSteps

\* A pass stays at the beginning of the queue.
LEMMA QueueStep ==
    ASSUME QueueOK, QueueInv, CallOK, [Next]_vars PROVE QueueInv'
<1> USE QueueAssumption
<1>1. CASE Quiet
  BY <1>1 DEF Quiet, QueueInv, Applied
<1>2. CASE OpServed
  <2>1. pass.pc = "call" /\ First.id \in OpId /\ First.id \in 1..issued
    BY <1>2, PassAtFirst DEF OpServed
  <2>2. Applied' = Applied \cup {First.id}
    BY <1>2, <2>1, Appended DEF OpServed, First
  <2>3. pass'.todo = pass.todo /\ UNCHANGED <<ops, issued>>
    BY <1>2 DEF OpServed, queue, QueueOK, PassOK, Pass
  <2> QED
    BY <2>1, <2>2, <2>3 DEF QueueInv, First
<1>3. CASE OpRefused
  <2>1. pass'.todo = pass.todo /\ pass'.pc = "error" /\ UNCHANGED <<ops, issued, applied>>
    BY <1>3 DEF OpRefused, queue, history, QueueOK, PassOK, Pass
  <2> QED
    BY <2>1 DEF QueueInv, Applied
<1>4. ASSUME FirstGone, pass.pc # "idle", UNCHANGED <<issued, applied>> PROVE QueueInv'
  <2>1. /\ \A i \in 1..Len(ops') : ops'[i] = ops[i + 1] /\ i + 1 \in 1..Len(ops)
        /\ Len(ops') = Len(ops) - 1 /\ Len(ops) \in Nat \ {0}
    BY <1>4, PassAtFirst DEF FirstGone
  <2>2. /\ \A i \in 1..Len(pass'.todo) : pass'.todo[i] = pass.todo[i + 1]
                                         /\ i + 1 \in 1..Len(pass.todo)
        /\ Len(pass'.todo) = Len(pass.todo) - 1 /\ Len(pass.todo) \in Nat \ {0}
    BY <1>4, PassAtFirst DEF FirstGone
  <2>3. \A i, j \in 1..Len(ops') : i < j => ops'[i].id < ops'[j].id
    BY <2>1 DEF QueueInv
  <2>4. \A i \in 1..Len(ops') : ops'[i].id <= issued
    BY <2>1 DEF QueueInv
  <2>5. Len(pass'.todo) <= Len(ops')
    BY <2>1, <2>2 DEF QueueInv
  <2>6. \A i \in 1..Len(pass'.todo) : pass'.todo[i].id = ops'[i].id
    BY <2>1, <2>2, <2>5 DEF QueueInv
  <2>7. pass'.pc # "ok"
    BY <1>4 DEF FirstGone
  <2> QED
    BY <1>4, <2>3, <2>4, <2>5, <2>6, <2>7 DEF QueueInv, Applied
<1>5. CASE OpDone
  <2>1. FirstGone /\ pass.pc = "ok"
    BY <1>5, GoesFirst DEF OpDone, First
  <2> QED
    BY <1>4, <1>5, <2>1 DEF OpDone, history
<1>6. CASE OpFailed
  <2>1. CASE FirstGone
    BY <1>4, <1>6, <2>1, FailsFirst DEF OpFailed, history
  <2>2. CASE FirstStays
    <3>1. Len(pass'.todo) = 0 /\ Len(ops) \in Nat
      BY <2>2, EmptySeq DEF FirstStays, QueueOK
    <3> QED
      BY <1>6, <2>2, <3>1 DEF OpFailed, history, FirstStays, QueueInv, Applied
  <2> QED
    BY <1>6, <2>1, <2>2, FailsFirst
<1>7. ASSUME pass' = StartPass, UNCHANGED <<ops, issued, applied>> PROVE QueueInv'
  <2>1. CASE pass.pc # "idle"
    BY <1>7, <2>1, Started DEF QueueInv, Applied
  <2>2. CASE pass.pc = "idle"
    <3>1. pass'.todo = ops /\ pass'.pc # "ok" /\ Len(ops) \in Nat
      BY <1>7, <2>2, Started DEF QueueOK
    <3> QED
      BY <1>7, <3>1 DEF QueueInv, Applied
  <2> QED
    BY <2>1, <2>2
<1>8. CASE TimerFires
  BY <1>7, <1>8 DEF TimerFires, queue, history
<1>9. CASE GoOffline
  BY <1>9 DEF GoOffline, queue, QueueInv, Applied
<1>10. CASE ComeOnline
  BY <1>7, <1>10 DEF ComeOnline, queue, history
<1>11. CASE Restart
  <2>1. pass'.todo = ops /\ pass'.pc # "ok" /\ UNCHANGED <<ops, issued, applied>>
    BY <1>11, Rebooted DEF Restart, Reboot
  <2>2. Len(ops) \in Nat
    BY DEF QueueOK
  <2> QED
    BY <2>1, <2>2 DEF QueueInv, Applied
<1>12. ASSUME NEW c \in Call, Enqueue(c) PROVE QueueInv'
  <2>1. /\ Len(ops') = Len(ops) + 1 /\ Len(ops) \in Nat /\ issued' = issued + 1 /\ issued \in Nat
        /\ \A i \in 1..Len(ops) : ops'[i] = ops[i]
        /\ ops'[Len(ops) + 1].id = issued + 1
        /\ UNCHANGED <<pass, applied>>
    BY <1>12, Enqueued DEF QueueOK
  <2>2. \A i \in 1..Len(ops) : ops[i].id \in Nat /\ ops[i].id <= issued
    <3>1. \A i \in 1..Len(ops) : ops[i] \in Pending
      BY ElementOfSeq DEF QueueOK
    <3> QED
      BY <3>1 DEF QueueInv, Pending, OpId
  <2>3. \A i \in 1..Len(ops') : i \in 1..Len(ops) \/ i = Len(ops) + 1
    BY <2>1
  <2>4. \A i, j \in 1..Len(ops') : i < j => ops'[i].id < ops'[j].id
    <3> SUFFICES ASSUME NEW i \in 1..Len(ops'), NEW j \in 1..Len(ops'), i < j
                 PROVE ops'[i].id < ops'[j].id
      OBVIOUS
    <3>1. i \in 1..Len(ops)
      BY <2>1
    <3>2. CASE j \in 1..Len(ops)
      BY <2>1, <3>1, <3>2 DEF QueueInv
    <3>3. CASE j = Len(ops) + 1
      BY <2>1, <2>2, <3>1, <3>3
    <3> QED
      BY <2>3, <3>2, <3>3
  <2>5. \A i \in 1..Len(ops') : ops'[i].id <= issued'
    BY <2>1, <2>2, <2>3
  <2>6. Len(pass.todo) <= Len(ops')
    <3>1. Len(pass.todo) \in Nat
      BY DEF QueueOK, PassOK, Pass
    <3> QED
      BY <2>1, <3>1 DEF QueueInv
  <2>7. \A i \in 1..Len(pass.todo) : pass.todo[i].id = ops'[i].id
    <3>1. \A i \in 1..Len(pass.todo) : i \in 1..Len(ops)
      BY <2>1 DEF QueueInv
    <3> QED
      BY <2>1, <3>1 DEF QueueInv
  <2>8. Applied' \subseteq 1..issued'
    BY <2>1 DEF QueueInv, Applied
  <2>9. Applied' = Applied
    BY <2>1 DEF Applied
  <2> QED
    BY <2>1, <2>4, <2>5, <2>6, <2>7, <2>8, <2>9 DEF QueueInv
<1>13. CASE UNCHANGED vars
  BY <1>13 DEF vars, QueueInv, Applied
<1> QED
  BY <1>1, <1>2, <1>3, <1>5, <1>6, <1>8, <1>9, <1>10, <1>11, <1>12, <1>13, QueueSteps

\* A row is deleted after the call, or when it is given up.
LEMMA LostStep ==
    ASSUME QueueOK, QueueInv, CallOK, NothingLost, [Next]_vars PROVE NothingLost'
<1>1. ASSUME UNCHANGED <<ops, issued, failed>>, Applied \subseteq Applied' PROVE NothingLost'
  BY <1>1 DEF NothingLost, PendingIds
<1>2. CASE Quiet
  BY <1>1, <1>2 DEF Quiet, Applied
<1>3. CASE OpServed
  <2>1. First.id \in OpId
    BY <1>3, PassAtFirst DEF OpServed
  <2>2. Applied' = Applied \cup {First.id}
    BY <1>3, <2>1, Appended DEF OpServed, First
  <2> QED
    BY <1>1, <1>3, <2>2 DEF OpServed, queue
<1>4. CASE OpRefused \/ GoOffline \/ TimerFires \/ ComeOnline
  BY <1>1, <1>4 DEF OpRefused, GoOffline, TimerFires, ComeOnline, queue, history, Applied
<1>5. CASE OpDone
  <2>1. FirstGone /\ pass.pc = "ok"
    BY <1>5, GoesFirst DEF OpDone, First
  <2>2. PendingIds = PendingIds' \cup {First.id} /\ First.id \in Applied
    BY <2>1, IdsGone DEF QueueInv, First
  <2>3. UNCHANGED <<applied, issued, failed>>
    BY <1>5 DEF OpDone, history
  <2> QED
    BY <2>2, <2>3 DEF NothingLost, Applied
<1>6. CASE OpFailed
  <2>1. UNCHANGED <<applied, issued>>
    BY <1>6 DEF OpFailed, history
  <2>2. CASE FirstGone /\ failed' = failed \cup {First.id}
    <3>1. PendingIds = PendingIds' \cup {First.id}
      BY <1>6, <2>2, FailsFirst, IdsGone
    <3> QED
      BY <2>1, <2>2, <3>1 DEF NothingLost, Applied
  <2>3. CASE FirstStays /\ UNCHANGED failed
    BY <2>1, <2>3, IdsStay DEF NothingLost, Applied
  <2> QED
    BY <1>6, <2>2, <2>3, FailsFirst
<1>7. CASE Restart
  BY <1>1, <1>7, Rebooted DEF Restart, Reboot, Applied
<1>8. ASSUME NEW c \in Call, Enqueue(c) PROVE NothingLost'
  <2>1. /\ PendingIds' = PendingIds \cup {issued + 1} /\ issued' = issued + 1 /\ issued \in Nat
        /\ UNCHANGED <<applied, failed>>
    BY <1>8, Enqueued DEF QueueOK
  <2>2. 1..issued' \subseteq 1..issued \cup {issued + 1}
    BY <2>1
  <2> QED
    BY <2>1, <2>2 DEF NothingLost, Applied
<1>9. CASE UNCHANGED vars
  BY <1>1, <1>9 DEF vars, Applied
<1> QED
  BY <1>2, <1>3, <1>4, <1>5, <1>6, <1>7, <1>8, <1>9, QueueSteps

\* The first operation has the lowest id that is queued.
LEMMA OrderStep ==
    ASSUME QueueOK, QueueInv, CallOK, NothingLost, InOrder, [Next]_vars PROVE InOrder'
<1>1. ASSUME UNCHANGED applied, failed \subseteq failed' PROVE InOrder'
  BY <1>1 DEF InOrder, Applied
<1>2. CASE OpServed
  <2>1. pass.pc # "idle" /\ First.id \in OpId /\ First.id \in 1..issued
    BY <1>2, PassAtFirst DEF OpServed
  <2>2. Applied' = Applied \cup {First.id} /\ UNCHANGED failed
    BY <1>2, <2>1, Appended DEF OpServed, First, queue
  <2>3. \A i \in PendingIds : i >= First.id
    <3> SUFFICES ASSUME NEW n \in 1..Len(ops) PROVE ops[n].id >= First.id
      BY DEF PendingIds, QueueOK
    <3>1. /\ First.id = ops[1].id /\ 1 \in 1..Len(ops)
          /\ ops[n] \in Pending /\ ops[1] \in Pending
      BY <2>1, PassAtFirst, ElementOfSeq DEF QueueOK
    <3>2. ops[n].id \in Nat /\ ops[1].id \in Nat
      BY <3>1 DEF Pending, OpId
    <3>3. n = 1 \/ 1 < n
      OBVIOUS
    <3> QED
      BY <3>1, <3>2, <3>3 DEF QueueInv
  <2>4. \A i \in 1..First.id - 1 : i \in Applied \cup failed
    <3> SUFFICES ASSUME NEW i \in 1..First.id - 1 PROVE i \in Applied \cup failed
      OBVIOUS
    <3>1. i \in 1..issued /\ ~(i >= First.id)
      BY <2>1 DEF QueueOK, OpId
    <3> QED
      BY <2>3, <3>1 DEF NothingLost
  <2> QED
    BY <2>2, <2>4 DEF InOrder
<1>3. CASE Quiet \/ OpRefused \/ OpDone \/ TimerFires \/ GoOffline \/ ComeOnline
  BY <1>1, <1>3
  DEF Quiet, OpRefused, OpDone, TimerFires, GoOffline, ComeOnline, queue, history
<1>4. CASE OpFailed
  BY <1>1, <1>4, FailsFirst DEF OpFailed, history
<1>5. CASE Restart
  BY <1>1, <1>5 DEF Restart, Reboot
<1>6. ASSUME NEW c \in Call, Enqueue(c) PROVE InOrder'
  BY <1>1, <1>6, Enqueued
<1>7. CASE UNCHANGED vars
  BY <1>1, <1>7 DEF vars
<1> QED
  BY <1>2, <1>3, <1>4, <1>5, <1>6, <1>7, QueueSteps

\* What is queued and was executed is at the beginning of a pass that knows so,
\* or nobody could know of it.
OnceInv ==
    /\ OnceUnlessUnrecorded
    /\ \A id \in Applied \cap PendingIds :
          id \in resent \/ (pass.pc = "ok" /\ id = First.id)

\* So the operation a pass has executed is new, or one of those.
LEMMA OnceStep ==
    ASSUME QueueOK, QueueInv, CallOK, OnceInv, [Next]_vars PROVE OnceInv'
<1>1. ASSUME UNCHANGED <<applied, resent>>, PendingIds' \subseteq PendingIds,
             pass.pc # "ok" \/ UNCHANGED pass
      PROVE OnceInv'
  BY <1>1 DEF OnceInv, OnceUnlessUnrecorded, Applied, First
<1>2. CASE Quiet
  <2>1. PendingIds' = PendingIds
    BY <1>2 DEF Quiet, PendingIds
  <2> QED
    BY <1>1, <1>2, <2>1 DEF Quiet
<1>3. CASE OpServed
  <2>1. pass.pc = "call" /\ First.id \in OpId
    BY <1>3, PassAtFirst DEF OpServed
  <2>2. First.id \in PendingIds
    <3>1. First.id = ops[1].id /\ 1 \in DOMAIN ops
      BY <2>1, PassAtFirst DEF QueueOK
    <3> QED
      BY <3>1 DEF PendingIds
  <2>3. /\ Applied' = Applied \cup {First.id} /\ Len(applied) \in Nat
        /\ DOMAIN applied = 1..Len(applied) /\ DOMAIN applied' = 1..Len(applied) + 1
        /\ \A i \in 1..Len(applied) : applied'[i] = applied[i]
        /\ applied'[Len(applied) + 1] = First.id
    BY <1>3, <2>1, Appended DEF OpServed, First, QueueOK
  <2>4. /\ pass'.todo = pass.todo /\ PendingIds' = PendingIds
        /\ resent \subseteq resent' /\ (pass'.pc = "ok" \/ First.id \in resent')
    BY <1>3 DEF OpServed, queue, QueueOK, PassOK, Pass, PendingIds, First
  <2>5. First.id \in Applied => First.id \in resent
    BY <2>1, <2>2 DEF OnceInv
  <2>6. \A i \in 1..Len(applied) : applied[i] \in Applied
    BY <2>3 DEF Applied
  <2>7. \A i \in 1..Len(applied) + 1 : i \in 1..Len(applied) \/ i = Len(applied) + 1
    BY <2>3
  <2>8. ASSUME NEW i \in DOMAIN applied', NEW j \in DOMAIN applied',
               i # j, applied'[i] = applied'[j]
        PROVE applied'[i] \in resent'
    <3>1. CASE i \in 1..Len(applied) /\ j \in 1..Len(applied)
      BY <2>3, <2>4, <2>8, <3>1 DEF OnceInv, OnceUnlessUnrecorded
    <3>2. CASE i = Len(applied) + 1 \/ j = Len(applied) + 1
      BY <2>3, <2>4, <2>5, <2>6, <2>7, <2>8, <3>2
    <3> QED
      BY <2>3, <2>7, <2>8, <3>1, <3>2
  <2>9. OnceUnlessUnrecorded'
    BY <2>8 DEF OnceUnlessUnrecorded
  <2> QED
    BY <2>1, <2>3, <2>4, <2>9 DEF OnceInv, First
<1>4. CASE OpRefused
  <2>1. pass.pc = "call" /\ UNCHANGED <<ops, applied, resent>>
    BY <1>4 DEF OpRefused, queue, history
  <2> QED
    BY <1>1, <2>1 DEF PendingIds
<1>5. CASE OpDone
  <2>1. FirstGone /\ pass.pc = "ok" /\ UNCHANGED <<applied, resent>>
    BY <1>5, GoesFirst DEF OpDone, First, history
  <2>2. PendingIds = PendingIds' \cup {First.id} /\ First.id \notin PendingIds'
    BY <2>1, IdsGone
  <2> QED
    BY <2>1, <2>2 DEF OnceInv, OnceUnlessUnrecorded, Applied
<1>6. CASE OpFailed
  <2>1. pass.pc = "error" /\ UNCHANGED <<applied, resent>>
    BY <1>6 DEF OpFailed, history
  <2>2. PendingIds' \subseteq PendingIds
    BY <1>6, <2>1, FailsFirst, IdsGone, IdsStay
  <2> QED
    BY <1>1, <2>1, <2>2
<1>7. CASE TimerFires \/ ComeOnline
  <2>1. pass.pc # "ok" \/ UNCHANGED pass
    BY <1>7, Started DEF TimerFires, ComeOnline
  <2>2. UNCHANGED <<ops, applied, resent>>
    BY <1>7 DEF TimerFires, ComeOnline, queue, history
  <2> QED
    BY <1>1, <2>1, <2>2 DEF PendingIds
<1>8. CASE GoOffline
  <2>1. UNCHANGED <<ops, pass, applied, resent>>
    BY <1>8 DEF GoOffline, queue
  <2> QED
    BY <1>1, <2>1 DEF PendingIds
<1>9. CASE Restart
  <2>1. UNCHANGED <<ops, applied>>
    BY <1>9, Rebooted DEF Restart, Reboot
  <2>2. resent' = IF pass.pc = "ok" THEN resent \cup {First.id} ELSE resent
    BY <1>9 DEF Restart, Reboot, First
  <2> QED
    BY <2>1, <2>2 DEF OnceInv, OnceUnlessUnrecorded, Applied, PendingIds
<1>10. ASSUME NEW c \in Call, Enqueue(c) PROVE OnceInv'
  <2>1. /\ PendingIds' = PendingIds \cup {issued + 1} /\ issued \in Nat
        /\ UNCHANGED <<applied, resent, pass>>
    BY <1>10, Enqueued DEF QueueOK
  <2>2. issued + 1 \notin Applied
    BY <2>1 DEF QueueInv
  <2> QED
    BY <2>1, <2>2 DEF OnceInv, OnceUnlessUnrecorded, Applied, First
<1>11. CASE UNCHANGED vars
  BY <1>1, <1>11 DEF vars, PendingIds
<1> QED
  BY <1>2, <1>3, <1>4, <1>5, <1>6, <1>7, <1>8, <1>9, <1>10, <1>11, QueueSteps

\* Online, a pass knows all that is queued, unless coming online was ignored.
ForgottenInv ==
    /\ NeverForgotten
    /\ online /\ ~missed /\ pass.pc # "idle" => Len(pass.todo) = Len(ops)

\* So the queue is empty when the pass is over, or a timer is set.
LEMMA ForgottenStep ==
    ASSUME QueueOK, QueueInv, CallOK, ForgottenInv, [Next]_vars PROVE ForgottenInv'
<1>1. ASSUME UNCHANGED <<ops, timer, online, missed>>,
             pass'.pc # "idle", pass.pc # "idle", pass'.todo = pass.todo
      PROVE ForgottenInv'
  BY <1>1 DEF ForgottenInv, NeverForgotten
<1>2. CASE Quiet
  BY <1>2 DEF Quiet, ForgottenInv, NeverForgotten
<1>3. CASE OpServed
  <2>1. pass.pc # "idle" /\ pass'.pc # "idle" /\ pass'.todo = pass.todo
    BY <1>3 DEF OpServed, QueueOK, PassOK, Pass
  <2> QED
    BY <1>1, <1>3, <2>1 DEF OpServed, queue
<1>4. CASE OpRefused
  <2>1. pass.pc # "idle" /\ pass'.pc # "idle" /\ pass'.todo = pass.todo
    BY <1>4 DEF OpRefused, QueueOK, PassOK, Pass
  <2> QED
    BY <1>1, <1>4, <2>1 DEF OpRefused, queue
<1>5. ASSUME FirstGone, pass.pc # "idle", UNCHANGED <<timer, online, missed>>
      PROVE ForgottenInv'
  <2>1. /\ Len(ops') = Len(ops) - 1 /\ Len(pass'.todo) = Len(pass.todo) - 1
        /\ ops' \in Seq(Pending) /\ PassOK'
    BY <1>5 DEF FirstGone
  <2>2. Len(ops) \in Nat /\ Len(pass.todo) \in Nat
    BY <1>5, PassAtFirst
  <2>3. online /\ ~missed => Len(pass'.todo) = Len(ops')
    BY <1>5, <2>1, <2>2 DEF ForgottenInv
  <2>4. pass'.pc = "idle" => Len(pass'.todo) = 0
    BY <2>1, EmptySeq DEF PassOK
  <2>5. Len(ops') = 0 => ops' = <<>>
    BY <2>1, EmptySeq
  <2> QED
    BY <1>5, <2>3, <2>4, <2>5 DEF ForgottenInv, NeverForgotten
<1>6. CASE OpDone
  <2>1. FirstGone /\ pass.pc # "idle" /\ UNCHANGED timer
    BY <1>6, GoesFirst, WentOn DEF OpDone, First
  <2> QED
    BY <1>5, <1>6, <2>1 DEF OpDone
<1>7. CASE OpFailed
  <2>1. CASE FirstGone /\ UNCHANGED timer
    BY <1>5, <1>7, <2>1 DEF OpFailed
  <2>2. CASE FirstStays
    BY <2>2 DEF FirstStays, ForgottenInv, NeverForgotten
  <2> QED
    BY <1>7, <2>1, <2>2, FailsFirst
<1>8. ASSUME pass' = StartPass, UNCHANGED ops,
             pass.pc # "idle" /\ online' /\ ~missed' => Len(pass.todo) = Len(ops)
      PROVE ForgottenInv'
  <2>1. CASE pass.pc # "idle"
    BY <1>8, <2>1, Started DEF ForgottenInv, NeverForgotten
  <2>2. CASE pass.pc = "idle"
    <3>1. PassOK' /\ pass'.todo = ops
      BY <1>8, <2>2, Started
    <3> QED
      BY <1>8, <3>1 DEF ForgottenInv, NeverForgotten, PassOK
  <2> QED
    BY <2>1, <2>2
<1>9. CASE TimerFires
  <2>1. pass' = StartPass /\ UNCHANGED <<ops, online>>
    BY <1>9 DEF TimerFires, queue
  <2>2. pass.pc # "idle" /\ ~missed' => ~missed
    BY <1>9 DEF TimerFires
  <2> QED
    BY <1>8, <2>1, <2>2 DEF ForgottenInv
<1>10. CASE GoOffline
  BY <1>10 DEF GoOffline, ForgottenInv, NeverForgotten
<1>11. CASE ComeOnline
  <2>1. pass' = StartPass /\ UNCHANGED ops
    BY <1>11 DEF ComeOnline, queue
  <2>2. pass.pc # "idle" /\ ~missed' => ~(Len(pass.todo) < Len(ops))
    BY <1>11 DEF ComeOnline
  <2>3. Len(pass.todo) \in Nat /\ Len(ops) \in Nat
    BY DEF QueueOK, PassOK, Pass
  <2> QED
    BY <1>8, <2>1, <2>2, <2>3 DEF QueueInv
<1>12. CASE Restart
  <2>1. PassOK' /\ pass'.todo = ops /\ ops' = ops
    BY <1>12, Rebooted
  <2> QED
    BY <2>1 DEF ForgottenInv, NeverForgotten, PassOK
<1>13. ASSUME NEW c \in Call, Enqueue(c) PROVE ForgottenInv'
  BY <1>13, Enqueued DEF ForgottenInv, NeverForgotten
<1>14. CASE UNCHANGED vars
  BY <1>14 DEF vars, ForgottenInv, NeverForgotten
<1> QED
  BY <1>2, <1>3, <1>4, <1>6, <1>7, <1>9, <1>10, <1>11, <1>12, <1>13, <1>14, QueueSteps

----------------------------------------------------------------------------
(* The cached previews. *)

\* To execute an operation once more changes nothing.
LEMMA AppliedAgain ==
    ASSUME NEW op \in Operation, NEW row \in Rows
    PROVE Apply(op, Apply(op, row)) = Apply(op, row)
<1>1. op.type \in {"parse_article", "delete_article", "set_article_state"}
  BY DEF Operation
<1>2. CASE op.type = "parse_article" \/ op.type = "delete_article"
  BY <1>2 DEF Apply, Rows, Row, Gone, Fresh
<1>3. CASE op.type = "set_article_state"
  <2>1. CASE row = Gone
    BY <1>3, <2>1 DEF Apply
  <2>2. CASE row # Gone
    <3>1. row \in Row /\ Apply(op, row) \in Rows
      BY <2>2, RowAgain DEF Rows
    <3>2. Apply(op, row) = [list |-> IF op.list = "null" THEN row.list ELSE op.list,
                            fav |-> IF op.fav = "null" THEN row.fav ELSE op.fav]
      BY <1>3, <2>2 DEF Apply
    <3>3. CASE Apply(op, row) = Gone
      BY <1>3, <3>3 DEF Apply
    <3>4. CASE Apply(op, row) # Gone
      <4>1. Apply(op, Apply(op, row)) =
              [list |-> IF op.list = "null" THEN Apply(op, row).list ELSE op.list,
               fav |-> IF op.fav = "null" THEN Apply(op, row).fav ELSE op.fav]
        BY <1>3, <3>4 DEF Apply
      <4> QED
        BY <3>2, <4>1
    <3> QED
      BY <3>3, <3>4
  <2> QED
    BY <2>1, <2>2
<1> QED
  BY <1>1, <1>2, <1>3

\* With nothing queued for it, an article stays what it is.
LEMMA NothingQueued ==
    ASSUME AppOK, QueueOK, NEW a \in Article, ~QueuedFor(a), NEW row
    PROVE ComesTo(a, row) <=> row = server[a]
<1>1. DOMAIN ops = 1..Len(ops) /\ Len(ops) \in Nat
  BY DEF QueueOK
<1>2. \A m \in 1..Len(ops) : ops[m].op.art # a
  BY <1>1 DEF QueuedFor
<1>3. ASSUME ComesTo(a, row) PROVE row = server[a]
  <2>1. PICK rows \in [0..Len(ops) -> Rows] : Replays(a, rows) /\ rows[Len(ops)] = row
    BY <1>3 DEF ComesTo
  <2>2. 0 \in 0..Len(ops) /\ Len(ops) \in 0..Len(ops) /\ 0 <= Len(ops) /\ 0 + 1 = 1
    BY <1>1
  <2>3. rows[Len(ops)] = rows[0]
    BY <1>2, <2>1, <2>2 DEF Replays
  <2> QED
    BY <2>1, <2>3 DEF Replays, WorkedOff
<1>4. ComesTo(a, server[a])
  <2> DEFINE rows == [i \in 0..Len(ops) |-> server[a]]
  <2>1. rows \in [0..Len(ops) -> Rows] /\ rows[Len(ops)] = server[a]
    BY <1>1 DEF AppOK
  <2>2. WorkedOff(a, rows)
    BY <1>1, <1>2 DEF WorkedOff
  <2>3. Replays(a, rows)
    BY <2>2 DEF Replays
  <2> QED
    BY <2>1, <2>3 DEF ComesTo
<1> QED
  BY <1>3, <1>4

\* The same operations come to the same.
LEMMA SameQueue ==
    ASSUME NEW a, server'[a] = server[a], QueueOK, QueueOK', Len(ops') = Len(ops),
           \A i \in 1..Len(ops) : ops'[i].op = ops[i].op
    PROVE /\ QueuedFor(a)' <=> QueuedFor(a)
          /\ \A row : ComesTo(a, row) => ComesTo(a, row)'
<1>1. DOMAIN ops = 1..Len(ops) /\ DOMAIN ops' = 1..Len(ops) /\ Len(ops) \in Nat
  BY DEF QueueOK
<1>2. QueuedFor(a)' <=> QueuedFor(a)
  BY <1>1 DEF QueuedFor
<1>3. ASSUME NEW row, ComesTo(a, row) PROVE ComesTo(a, row)'
  <2>1. PICK rows \in [0..Len(ops) -> Rows] : Replays(a, rows) /\ rows[Len(ops)] = row
    BY <1>3 DEF ComesTo
  <2>2. WorkedOff(a, rows)'
    BY <1>1, <2>1 DEF Replays, WorkedOff
  <2>3. \A i, j \in 0..Len(ops) :
          i <= j /\ (\A m \in i + 1..j : ops'[m].op.art # a) => rows[j] = rows[i]
    <3>1. \A i, j \in 0..Len(ops) : i + 1..j \subseteq 1..Len(ops)
      BY <1>1
    <3> QED
      BY <2>1, <3>1 DEF Replays
  <2>4. Replays(a, rows)'
    BY <2>2, <2>3 DEF Replays
  <2> QED
    BY <2>1, <2>4 DEF ComesTo
<1> QED
  BY <1>2, <1>3

\* The backend executes the first operation, which stays queued.
LEMMA FirstExecuted ==
    ASSUME AppOK, QueueOK, ops # <<>>, ops' = ops, NEW a \in Article,
           server'[a] = IF ops[1].op.art = a THEN Apply(ops[1].op, server[a]) ELSE server[a],
           NEW row, ComesTo(a, row)
    PROVE ComesTo(a, row)'
<1>1. DOMAIN ops = 1..Len(ops) /\ Len(ops) \in Nat \ {0} /\ ops[1] \in Pending
  BY EmptySeq DEF QueueOK
<1>2. ops[1].op \in Operation
  BY <1>1 DEF Pending
<1>3. PICK rows \in [0..Len(ops) -> Rows] : Replays(a, rows) /\ rows[Len(ops)] = row
  BY DEF ComesTo
<1>4. CASE ops[1].op.art # a
  <2>1. Replays(a, rows)'
    BY <1>3, <1>4 DEF Replays, WorkedOff
  <2> QED
    BY <1>3, <2>1 DEF ComesTo
<1>5. CASE ops[1].op.art = a
  <2> DEFINE after == [rows EXCEPT ![0] = rows[1]]
  <2>1. rows[0] \in Rows /\ rows[1] \in Rows /\ 1 \in 0..Len(ops) /\ 1 \in 1..Len(ops)
    BY <1>1
  <2>2. rows[1] = Apply(ops[1].op, rows[0]) /\ rows[0] = server[a]
    BY <1>3, <1>5, <2>1 DEF Replays, WorkedOff
  <2>3. after \in [0..Len(ops) -> Rows] /\ after[0] = rows[1]
        /\ \A i \in 1..Len(ops) : after[i] = rows[i]
    BY <1>1, <2>1
  <2>4. after[Len(ops)] = row
    BY <1>1, <1>3, <2>3
  <2> HIDE DEF after
  <2>5. Apply(ops[1].op, after[0]) = after[1]
    BY <1>2, <2>1, <2>2, <2>3, AppliedAgain
  <2>6. \A i \in 1..Len(ops) : after[i] = IF ops[i].op.art = a
                                          THEN Apply(ops[i].op, after[i - 1]) ELSE after[i - 1]
    <3> SUFFICES ASSUME NEW i \in 1..Len(ops)
                 PROVE after[i] = IF ops[i].op.art = a
                                  THEN Apply(ops[i].op, after[i - 1]) ELSE after[i - 1]
      OBVIOUS
    <3>1. CASE i = 1
      BY <1>5, <2>5, <3>1
    <3>2. CASE i # 1
      <4>1. i - 1 \in 1..Len(ops)
        BY <1>1, <3>2
      <4> QED
        BY <1>3, <2>3, <4>1 DEF Replays, WorkedOff
    <3> QED
      BY <3>1, <3>2
  <2>7. \A i, j \in 0..Len(ops) :
          i <= j /\ (\A m \in i + 1..j : ops[m].op.art # a) => after[j] = after[i]
    <3> SUFFICES ASSUME NEW i \in 0..Len(ops), NEW j \in 0..Len(ops), i <= j,
                        \A m \in i + 1..j : ops[m].op.art # a
                 PROVE after[j] = after[i]
      OBVIOUS
    <3>1. CASE i = 0
      <4>1. 1 \notin i + 1..j
        BY <1>5
      <4>2. j = 0
        BY <3>1, <4>1
      <4> QED
        BY <3>1, <4>2
    <3>2. CASE i # 0
      <4>1. i \in 1..Len(ops) /\ j \in 1..Len(ops)
        BY <1>1, <3>2
      <4> QED
        BY <1>3, <2>3, <4>1 DEF Replays
    <3> QED
      BY <3>1, <3>2
  <2>8. Replays(a, after)'
    BY <1>5, <2>2, <2>3, <2>6, <2>7 DEF Replays, WorkedOff
  <2> QED
    BY <2>3, <2>4, <2>8 DEF ComesTo
<1> QED
  BY <1>4, <1>5

\* An operation is queued behind the others.
LEMMA OneMoreQueued ==
    ASSUME QueueOK, CallOK, NEW c \in Call, Enqueue(c), NEW a \in Article,
           NEW row \in Rows, ComesTo(a, row),
           NEW op, op = call[c].op,
           NEW after, after = IF op.art = a THEN Apply(op, row) ELSE row
    PROVE ComesTo(a, after)'
<1>1. PICK n \in Nat : n = Len(ops)
  BY Enqueued
<1>2. /\ Len(ops') = n + 1 /\ \A i \in 1..n : ops'[i] = ops[i]
      /\ ops'[n + 1].op = op /\ server' = server
  BY <1>1, Enqueued DEF Enqueue
<1>3. after \in Rows
  BY CallFacts, RowAgain DEF Enqueue
<1>4. PICK rows \in [0..n -> Rows] : Replays(a, rows) /\ rows[n] = row
  BY <1>1 DEF ComesTo
<1>5. PICK more : more = [i \in 0..n + 1 |-> IF i = n + 1 THEN after ELSE rows[i]]
  OBVIOUS
<1>6. /\ more \in [0..n + 1 -> Rows] /\ more[n + 1] = after
      /\ \A i \in 0..n : more[i] = rows[i]
  BY <1>3, <1>4, <1>5
<1>7. WorkedOff(a, more)'
  <2>1. more[0] = server'[a]
    BY <1>2, <1>4, <1>6 DEF Replays, WorkedOff
  <2>2. ASSUME NEW i \in 1..n + 1
        PROVE more[i] = IF ops'[i].op.art = a THEN Apply(ops'[i].op, more[i - 1])
                                              ELSE more[i - 1]
    <3>1. CASE i = n + 1
      BY <1>2, <1>4, <1>6, <3>1
    <3>2. CASE i # n + 1
      <4>1. i \in 1..n /\ i \in 0..n /\ i - 1 \in 0..n
        BY <3>2
      <4>2. rows[i] = IF ops[i].op.art = a THEN Apply(ops[i].op, rows[i - 1]) ELSE rows[i - 1]
        BY <1>1, <1>4, <4>1 DEF Replays, WorkedOff
      <4> QED
        BY <1>2, <1>6, <4>1, <4>2
    <3> QED
      BY <3>1, <3>2
  <2> QED
    BY <1>2, <2>1, <2>2 DEF WorkedOff
<1>8. \A i, j \in 0..n + 1 :
        i <= j /\ (\A m \in i + 1..j : ops'[m].op.art # a) => more[j] = more[i]
  <2> SUFFICES ASSUME NEW i \in 0..n + 1, NEW j \in 0..n + 1, i <= j, i # j,
                      \A m \in i + 1..j : ops'[m].op.art # a
               PROVE more[j] = more[i]
    OBVIOUS
  <2>1. PICK k \in i..n : k = IF j = n + 1 THEN n ELSE j
    OBVIOUS
  <2>2. i \in 0..n /\ k \in 0..n /\ i <= k /\ i + 1..k \subseteq i + 1..j
        /\ i + 1..k \subseteq 1..n
    BY <2>1
  <2>3. \A m \in i + 1..k : ops[m].op.art # a
    BY <1>2, <2>2
  <2>4. rows[k] = rows[i]
    BY <1>1, <1>4, <2>2, <2>3 DEF Replays
  <2>5. CASE j = n + 1
    <3>1. n + 1 \in i + 1..j
      BY <2>5
    <3> QED
      BY <1>2, <1>4, <1>6, <2>1, <2>2, <2>4, <2>5, <3>1
  <2>6. CASE j # n + 1
    BY <1>6, <2>1, <2>2, <2>4, <2>6
  <2> QED
    BY <2>5, <2>6
<1>9. Replays(a, more)'
  BY <1>2, <1>7, <1>8 DEF Replays
<1> QED
  BY <1>2, <1>6, <1>9 DEF ComesTo

\* The first operation is done with: nothing is missing, if it has nothing more
\* to change.
LEMMA OneLessQueued ==
    ASSUME QueueOK, ops # <<>>, FirstGone, NEW a \in Article, server' = server,
           ops[1].op.art = a => Apply(ops[1].op, server[a]) = server[a],
           NEW row, ComesTo(a, row)
    PROVE ComesTo(a, row)'
<1>1. PICK n \in Nat : n + 1 = Len(ops)
  <2>1. Len(ops) \in Nat \ {0} /\ Len(ops) - 1 \in Nat
    BY EmptySeq DEF QueueOK
  <2> QED
    BY <2>1
<1>2. Len(ops') = n /\ \A i \in 1..n : ops'[i] = ops[i + 1]
  BY <1>1 DEF FirstGone
<1>3. PICK rows \in [0..n + 1 -> Rows] : Replays(a, rows) /\ rows[n + 1] = row
  BY <1>1 DEF ComesTo
<1>4. rows[1] = server[a]
  <2>1. 1 \in 1..Len(ops)
    BY <1>1
  <2>2. rows[1] = IF ops[1].op.art = a THEN Apply(ops[1].op, rows[1 - 1]) ELSE rows[1 - 1]
    BY <1>3, <2>1 DEF Replays, WorkedOff
  <2> QED
    BY <1>3, <2>2 DEF Replays, WorkedOff
<1>5. PICK less : less = [i \in 0..n |-> rows[i + 1]]
  OBVIOUS
<1>6. /\ less \in [0..n -> Rows] /\ less[n] = row /\ less[0] = server[a]
      /\ \A i \in 0..n : less[i] = rows[i + 1]
  BY <1>3, <1>4, <1>5
<1>7. WorkedOff(a, less)'
  <2>1. ASSUME NEW i \in 1..n
        PROVE less[i] = IF ops'[i].op.art = a THEN Apply(ops'[i].op, less[i - 1])
                                              ELSE less[i - 1]
    <3>1. i + 1 \in 1..Len(ops) /\ i \in 0..n /\ i - 1 \in 0..n /\ (i - 1) + 1 = i
          /\ (i + 1) - 1 = i
      BY <1>1
    <3>2. rows[i + 1] = IF ops[i + 1].op.art = a
                        THEN Apply(ops[i + 1].op, rows[i]) ELSE rows[i]
      BY <1>3, <3>1 DEF Replays, WorkedOff
    <3>3. less[i] = rows[i + 1] /\ less[i - 1] = rows[i]
      BY <1>6, <3>1
    <3> QED
      BY <1>2, <3>2, <3>3
  <2> QED
    BY <1>2, <1>6, <2>1 DEF WorkedOff
<1>8. \A i, j \in 0..n :
        i <= j /\ (\A m \in i + 1..j : ops'[m].op.art # a) => less[j] = less[i]
  <2> SUFFICES ASSUME NEW i \in 0..n, NEW j \in 0..n, i <= j,
                      \A m \in i + 1..j : ops'[m].op.art # a
               PROVE less[j] = less[i]
    OBVIOUS
  <2>1. i + 1 \in 0..Len(ops) /\ j + 1 \in 0..Len(ops) /\ i + 1 <= j + 1
    BY <1>1
  <2>2. \A m \in (i + 1) + 1..j + 1 : ops[m].op.art # a
    <3>1. ASSUME NEW m \in (i + 1) + 1..j + 1 PROVE ops[m].op.art # a
      <4>1. PICK k \in 1..n : k + 1 = m /\ k \in i + 1..j
        <5>1. m - 1 \in 1..n /\ (m - 1) + 1 = m /\ m - 1 \in i + 1..j
          OBVIOUS
        <5> QED
          BY <5>1
      <4> QED
        BY <1>2, <4>1
    <3> QED
      BY <3>1
  <2>3. rows[j + 1] = rows[i + 1]
    BY <1>3, <2>1, <2>2 DEF Replays
  <2> QED
    BY <1>6, <2>3
<1>9. Replays(a, less)'
  BY <1>2, <1>7, <1>8 DEF Replays
<1> QED
  BY <1>2, <1>6, <1>9 DEF ComesTo

\* With nothing queued then, it is what the backend has.
LEMMA NothingQueuedThen ==
    ASSUME AppOK', QueueOK', NEW a \in Article, ~QueuedFor(a)'
    PROVE ComesTo(a, server[a])'
<1>1. PICK n \in Nat : n = Len(ops')
  BY DEF QueueOK
<1>2. PICK row \in Rows : row = server'[a]
  BY DEF AppOK
<1>3. \A m \in 1..n : ops'[m].op.art # a
  BY <1>1 DEF QueuedFor, QueueOK
<1>4. PICK rows : rows = [i \in 0..n |-> row]
  OBVIOUS
<1>5. WorkedOff(a, rows)'
  BY <1>1, <1>2, <1>3, <1>4 DEF WorkedOff
<1>6. Replays(a, rows)'
  BY <1>1, <1>4, <1>5 DEF Replays
<1>7. rows \in [0..n -> Rows] /\ rows[n] = row
  BY <1>4
<1> QED
  BY <1>1, <1>2, <1>6, <1>7 DEF ComesTo

\* A pass does what is queued.
TodoInv == \A i \in 1..Len(pass.todo) : pass.todo[i].op = ops[i].op

LEMMA FirstIsQueued ==
    ASSUME QueueOK, QueueInv, TodoInv, pass.pc # "idle"
    PROVE /\ First.op = ops[1].op /\ First.op \in Operation /\ QueuedFor(First.op.art)
          /\ ops # <<>> /\ pass.todo # <<>>
<1>1. /\ Len(pass.todo) \in Nat \ {0} /\ Len(ops) \in Nat \ {0} /\ DOMAIN ops = 1..Len(ops)
      /\ ops[1] \in Pending /\ First = pass.todo[1] /\ pass.todo # <<>>
  BY PassAtFirst, EmptySeq DEF QueueOK, PassOK, First
<1>2. First.op = ops[1].op
  BY <1>1 DEF TodoInv
<1> QED
  BY <1>1, <1>2, EmptySeq DEF QueuedFor, Pending

\* It does so in every step.
LEMMA TodoStep ==
    ASSUME QueueOK, QueueInv, CallOK, TodoInv, [Next]_vars PROVE TodoInv'
<1>1. CASE Quiet
  BY <1>1 DEF Quiet, TodoInv
<1>2. CASE OpServed \/ OpRefused
  <2>1. pass'.todo = pass.todo /\ UNCHANGED ops
    BY <1>2 DEF OpServed, OpRefused, queue, QueueOK, PassOK, Pass
  <2> QED
    BY <2>1 DEF TodoInv
<1>3. ASSUME FirstGone, pass.pc # "idle" PROVE TodoInv'
  <2>1. Len(ops) \in Nat /\ Len(pass.todo) \in Nat /\ Len(pass.todo) <= Len(ops)
    BY PassAtFirst DEF QueueOK, QueueInv, PassOK, Pass
  <2>2. \A i \in 1..Len(pass'.todo) :
          /\ i + 1 \in 1..Len(pass.todo) /\ i \in 1..Len(ops')
          /\ pass'.todo[i] = pass.todo[i + 1] /\ ops'[i] = ops[i + 1]
    BY <1>3, <2>1 DEF FirstGone
  <2> QED
    BY <2>2 DEF TodoInv
<1>4. CASE OpDone
  BY <1>3, <1>4, GoesFirst DEF OpDone, First
<1>5. CASE OpFailed
  <2>1. FirstStays => Len(pass'.todo) = 0
    BY EmptySeq DEF FirstStays
  <2> QED
    BY <1>3, <1>5, <2>1, FailsFirst DEF TodoInv
<1>6. ASSUME pass' = StartPass, UNCHANGED ops PROVE TodoInv'
  <2>1. pass' = pass \/ pass'.todo = ops
    BY <1>6, Started
  <2> QED
    BY <1>6, <2>1 DEF TodoInv
<1>7. CASE TimerFires \/ ComeOnline
  BY <1>6, <1>7 DEF TimerFires, ComeOnline, queue
<1>8. CASE GoOffline
  BY <1>8 DEF GoOffline, queue, TodoInv
<1>9. CASE Restart
  BY <1>9, Rebooted DEF TodoInv
<1>10. ASSUME NEW c \in Call, Enqueue(c) PROVE TodoInv'
  <2>1. Len(pass.todo) \in Nat /\ Len(pass.todo) <= Len(ops)
    BY DEF QueueOK, QueueInv, PassOK, Pass
  <2> QED
    BY <1>10, <2>1, Enqueued DEF TodoInv
<1>11. CASE UNCHANGED vars
  BY <1>11 DEF vars, TodoInv
<1> QED
  BY <1>1, <1>2, <1>4, <1>5, <1>7, <1>8, <1>9, <1>10, <1>11, QueueSteps

\* An article is queued for only when an operation of it is queued.
LEMMA QueuedMore ==
    ASSUME QueueOK, CallOK, NEW c \in Call, Enqueue(c), NEW a, call[c].op.art # a
    PROVE QueuedFor(a)' => QueuedFor(a)
<1>1. PICK n \in Nat : n = Len(ops)
  BY Enqueued
<1>2. /\ DOMAIN ops = 1..n /\ DOMAIN ops' = 1..n + 1
      /\ \A i \in 1..n : ops'[i] = ops[i]
      /\ ops'[n + 1].op = call[c].op
  BY <1>1, Enqueued DEF QueueOK
<1>3. ASSUME NEW i \in 1..n + 1, ops'[i].op.art = a PROVE i \in 1..n
  BY <1>2, <1>3
<1>4. ASSUME NEW i \in 1..n + 1, ops'[i].op.art = a PROVE QueuedFor(a)
  BY <1>2, <1>3, <1>4 DEF QueuedFor
<1> QED
  BY <1>2, <1>4 DEF QueuedFor

\* It is not when the first operation is done with.
LEMMA QueuedLess ==
    ASSUME QueueOK, QueueInv, FirstGone, pass.pc # "idle", NEW a
    PROVE QueuedFor(a)' => QueuedFor(a)
<1>1. DOMAIN ops = 1..Len(ops) /\ Len(ops) \in Nat /\ DOMAIN ops' = 1..Len(ops')
  BY DEF QueueOK, FirstGone
<1>2. \A i \in 1..Len(ops') : i + 1 \in 1..Len(ops) /\ ops'[i] = ops[i + 1]
  BY <1>1 DEF FirstGone
<1> QED
  BY <1>1, <1>2 DEF QueuedFor

\* An operation that is carried out on another article is none on this one.
LEMMA OthersCarried ==
    ASSUME NEW a, NEW c \in Call, NEW new, CallOK, call' = [call EXCEPT ![c] = new],
           call[c].pc = "none" \/ call[c].op.art # a, new.pc = "none" \/ new.op.art # a
    PROVE /\ Carrying(a)' = Carrying(a) /\ c \notin Carrying(a)
          /\ \A d \in Carrying(a) : call'[d] = call[d]
  BY DEF Carrying, CallOK

\* The pages of an article that a step leaves alone, or makes untrue, are as good
\* as before.
LEMMA PageKept ==
    ASSUME NEW r \in Slot, NEW a \in Article, PageInv(r, a),
           read'[r].on /\ read'[r].clean[a] =>
              /\ read[r].on /\ read[r].clean[a] /\ read'[r].rows[a] = read[r].rows[a]
              /\ server'[a] = server[a] \/ ~(~QueuedFor(a) /\ Carrying(a) = {})
              /\ (QueuedFor(a)' => QueuedFor(a)) /\ Carrying(a)' \subseteq Carrying(a)
    PROVE PageInv(r, a)'
  BY DEF PageInv

\* A page that is read now is true.
LEMMA PageRead ==
    ASSUME NEW r \in Slot, NEW a \in Article, NEW S, AppOK,
           read'[r] = Snapshot(S), UNCHANGED <<server, ops, call>>
    PROVE PageInv(r, a)'
<1>1. /\ read'[r].rows[a] \in {server[a], Gone}
      /\ read'[r].clean[a] = (~QueuedFor(a) /\ ~CarriedOut(a))
  BY DEF Snapshot
<1>2. ~CarriedOut(a) => Carrying(a) = {}
  BY DEF CarriedOut, Carrying
<1> QED
  BY <1>1, <1>2 DEF PageInv, QueuedFor, Carrying

\* Every step keeps pages that are taken for true true.
LEMMA PageStep ==
    ASSUME AppOK, QueueOK, QueueInv, TodoInv, NEW r \in Slot, NEW a \in Article,
           PageInv(r, a), [Next]_vars
    PROVE PageInv(r, a)'
<1>1. ASSUME UNCHANGED <<server, ops, call>>, read'[r] = read[r] PROVE PageInv(r, a)'
  BY <1>1 DEF PageInv, QueuedFor, Carrying
<1>2. ASSUME NEW op \in Operation, NEW new \in Page, read'[r] = new,
             new = [read[r] EXCEPT !.clean[op.art] = FALSE]
      PROVE /\ new.on = read[r].on /\ new.rows = read[r].rows
            /\ new.clean[a] => read[r].clean[a] /\ op.art # a
  <2>1. read[r] \in Page /\ op.art \in Article
    BY OperationArticle DEF AppOK
  <2> QED
    BY <1>2, <2>1 DEF Page
<1>3. ASSUME NEW c \in Call, NEW op \in Operations, Begin(c, op) PROVE PageInv(r, a)'
  <2>1. op \in Operation
    BY QueueAssumption
  <2>2. read'[r] = [read[r] EXCEPT !.clean[op.art] = FALSE] /\ read'[r] \in Page
    <3>1. read' \in [Slot -> Page]
      BY <1>3, <2>1, OperationArticle, PagesTouched DEF Begin, AppOK
    <3> QED
      BY <1>3, <3>1 DEF Begin
  <2>3. PICK new : new = [pc |-> IF op.type = "parse_article" THEN "written" ELSE "read",
                          op |-> op, previous |-> cache[op.art]]
    OBVIOUS
  <2>4. call' = [call EXCEPT ![c] = new] /\ call[c].pc = "none" /\ new.op = op
    BY <1>3, <2>3 DEF Begin
  <2>5. UNCHANGED <<server, ops>>
    BY <1>3 DEF Begin, queue
  <2>6. op.art # a => Carrying(a)' = Carrying(a)
    BY <2>4, OthersCarried DEF AppOK
  <2> QED
    BY <1>2, <2>1, <2>2, <2>5, <2>6, PageKept DEF QueuedFor
<1>4. ASSUME NEW c \in Call, NEW new, call[c].pc # "none",
             call' = [call EXCEPT ![c] = new], new.pc = "none" \/ new.op = call[c].op
      PROVE Carrying(a)' \subseteq Carrying(a)
  BY <1>4 DEF Carrying, AppOK, CallOK
<1>5. ASSUME NEW c \in Call, Write(c) \/ Send(c) \/ Refused(c) \/ Restore(c)
      PROVE PageInv(r, a)'
  <2>1. UNCHANGED <<server, ops, read>> /\ call[c].pc # "none"
    BY <1>5 DEF Write, Send, Refused, Restore, queue
  <2>2. Carrying(a)' \subseteq Carrying(a)
    <3>1. CASE call' = [call EXCEPT ![c] = NoCall]
      BY <1>4, <2>1, <3>1 DEF NoCall
    <3>2. ASSUME NEW pc, call' = [call EXCEPT ![c].pc = pc] PROVE Carrying(a)' \subseteq Carrying(a)
      <4>1. PICK new : new = [call[c] EXCEPT !.pc = pc]
        OBVIOUS
      <4>2. call' = [call EXCEPT ![c] = new] /\ new.op = call[c].op
        BY <3>2, <4>1 DEF AppOK, CallOK, Carried
      <4> QED
        BY <1>4, <2>1, <4>2
    <3> QED
      BY <1>5, <3>1, <3>2 DEF Write, Send, Refused, Restore
  <2> QED
    BY <2>1, <2>2, PageKept DEF QueuedFor
<1>6. ASSUME NEW c \in Call, Served(c) PROVE PageInv(r, a)'
  <2>1. UNCHANGED <<ops, read>> /\ call[c].pc # "none"
    BY <1>6 DEF Served, queue
  <2>2. Carrying(a)' \subseteq Carrying(a)
    <3>1. CASE call' = [call EXCEPT ![c] = NoCall]
      BY <1>4, <2>1, <3>1 DEF NoCall
    <3>2. CASE call' = [call EXCEPT ![c].pc = "error"]
      <4>1. PICK new : new = [call[c] EXCEPT !.pc = "error"]
        OBVIOUS
      <4>2. call' = [call EXCEPT ![c] = new] /\ new.op = call[c].op
        BY <3>2, <4>1 DEF AppOK, CallOK, Carried
      <4> QED
        BY <1>4, <2>1, <4>2
    <3> QED
      BY <1>6, <3>1, <3>2 DEF Served
  <2>3. server'[a] = server[a] \/ c \in Carrying(a)
    BY <1>6, <2>1 DEF Served, Execute, AppOK, Carrying
  <2> QED
    BY <2>1, <2>2, <2>3, PageKept DEF QueuedFor
<1>7. ASSUME NEW c \in Call, Enqueue(c) PROVE PageInv(r, a)'
  <2>1. UNCHANGED <<server, read>> /\ call[c].pc # "none" /\ call' = [call EXCEPT ![c] = NoCall]
    BY <1>7 DEF Enqueue
  <2>2. Carrying(a)' \subseteq Carrying(a)
    BY <1>4, <2>1 DEF NoCall
  <2>3. call[c].op.art = a => c \in Carrying(a)
    BY <2>1 DEF Carrying
  <2>4. call[c].op.art # a => (QueuedFor(a)' => QueuedFor(a))
    BY <1>7, QueuedMore DEF AppOK
  <2> QED
    BY <2>1, <2>2, <2>3, <2>4 DEF PageInv
<1>8. CASE OpServed
  <2>1. UNCHANGED <<ops, call, read>> /\ pass.pc # "idle" /\ Execute(First.op)
    BY <1>8 DEF OpServed, queue, First
  <2>2. server'[a] = server[a] \/ QueuedFor(a)
    BY <2>1, FirstIsQueued DEF Execute, AppOK
  <2> QED
    BY <2>1, <2>2, PageKept DEF QueuedFor, Carrying
<1>9. CASE OpDone \/ OpFailed
  <2>1. UNCHANGED <<server, call, read>> /\ pass.pc # "idle"
    BY <1>9 DEF OpDone, OpFailed
  <2>2. FirstGone \/ FirstStays
    BY <1>9, GoesFirst, FailsFirst DEF OpDone, First
  <2>3. FirstStays => (QueuedFor(a)' => QueuedFor(a))
    BY DEF FirstStays, QueuedFor, QueueOK
  <2>4. QueuedFor(a)' => QueuedFor(a)
    BY <2>1, <2>2, <2>3, QueuedLess
  <2> QED
    BY <2>1, <2>4, PageKept DEF Carrying
<1>10. CASE OpRefused \/ TimerFires \/ GoOffline \/ ComeOnline
  BY <1>1, <1>10 DEF OpRefused, TimerFires, GoOffline, ComeOnline, queue
<1>11. CASE Restart
  BY <1>11 DEF Restart, Reboot, NoRead, PageInv
<1>12. ASSUME NEW q \in Read, NEW S \in SUBSET Article, Serve(q, S) PROVE PageInv(r, a)'
  <2>1. UNCHANGED <<server, ops, call>> /\ read' = [read EXCEPT ![q] = Snapshot(S)]
    BY <1>12 DEF Serve, queue
  <2>2. read'[r] = Snapshot(S) \/ read'[r] = read[r]
    BY <2>1 DEF AppOK
  <2> QED
    BY <1>1, <2>1, <2>2, PageRead
<1>13. ASSUME NEW q \in Slot, Store(q) PROVE PageInv(r, a)'
  <2>1. UNCHANGED <<server, ops, call>> /\ read' = [read EXCEPT ![q] = NoRead]
    BY <1>13 DEF Store, queue
  <2>2. ~read'[r].on \/ read'[r] = read[r]
    BY <2>1 DEF AppOK, NoRead
  <2> QED
    BY <1>1, <2>1, <2>2 DEF PageInv
<1>14. CASE Refetch
  <2>1. UNCHANGED <<server, ops, call>>
    BY <1>14 DEF Refetch, queue
  <2>2. read'[r] = Snapshot(Article) \/ read'[r] = read[r]
    BY <1>14 DEF Refetch, AppOK
  <2> QED
    BY <1>1, <2>1, <2>2, PageRead
<1>15. ASSUME NEW op \in Operations, Elsewhere(op) PROVE PageInv(r, a)'
  <2>1. op \in Operation /\ UNCHANGED <<ops, call>>
    BY <1>15, QueueAssumption DEF Elsewhere, queue
  <2>2. read'[r] = [read[r] EXCEPT !.clean[op.art] = FALSE] /\ read'[r] \in Page
    <3>1. read' \in [Slot -> Page]
      BY <1>15, <2>1, OperationArticle, PagesTouched DEF Elsewhere, AppOK
    <3> QED
      BY <1>15, <3>1 DEF Elsewhere
  <2>3. op.art # a => server'[a] = server[a]
    BY <1>15 DEF Elsewhere, Execute, AppOK
  <2> QED
    BY <1>2, <2>1, <2>2, <2>3, PageKept DEF QueuedFor, Carrying
<1>16. CASE UNCHANGED vars
  BY <1>1, <1>16 DEF vars
<1> QED
  BY <1>3, <1>5, <1>6, <1>7, <1>8, <1>9, <1>10, <1>11, <1>12, <1>13, <1>14, <1>15, <1>16
  DEF Next

\* A pass that has an operation executed, but not deleted, has it of this article.
DoneInv(a) ==
    pass.pc = "ok" /\ First.op.art = a => Apply(First.op, server[a]) = server[a]

\* A preview stays right while its article, and what is carried out and queued of
\* it, are left alone ...
LEMMA PreviewKept ==
    ASSUME NEW a \in Article, PreviewInv(a), DoneInv(a)',
           cache'[a] = cache[a], Carrying(a)' = Carrying(a),
           \A c \in Carrying(a) : call'[c] = call[c],
           QueuedFor(a)' => QueuedFor(a), \A row \in Rows : ComesTo(a, row) => ComesTo(a, row)',
           AppOK
    PROVE PreviewInv(a)'
<1>1. \A c \in Carrying(a)' : CarryInv(c, a)'
  BY DEF PreviewInv, CarryInv
<1>2. Before(a)' = Before(a)
  <2>1. {call'[c].previous : c \in Carrying(a)} = {call[c].previous : c \in Carrying(a)}
    OBVIOUS
  <2> QED
    BY <2>1 DEF Before
<1>3. Before(a) \subseteq Rows
  BY CallFacts DEF Before, Carrying, AppOK
<1> QED
  BY <1>1, <1>2, <1>3 DEF PreviewInv, DoneInv, First

\* ... or while nothing happens but to other articles.
LEMMA PreviewLeft ==
    ASSUME NEW a \in Article, PreviewInv(a), AppOK, QueueOK, QueueOK', DoneInv(a)',
           server'[a] = server[a], cache'[a] = cache[a], Carrying(a)' = Carrying(a),
           \A c \in Carrying(a) : call'[c] = call[c],
           Len(ops') = Len(ops), \A i \in 1..Len(ops) : ops'[i].op = ops[i].op
    PROVE PreviewInv(a)'
  BY SameQueue, PreviewKept

\* What is carried out on an article: one operation, and the preview is what it
\* was before, or what the operation makes of that.
LEMMA CarriedPreview ==
    ASSUME NEW c \in Call, call[c].pc # "none", CallOK, AppOK, PreviewInv(call[c].op.art)
    PROVE LET a == call[c].op.art
              row == call[c].previous
          IN /\ Carrying(a) = {c} /\ CarryInv(c, a) /\ row \in Rows
             /\ row # Gone => ComesTo(a, row)
             /\ call[c].pc # "read" /\ cache[a] # Gone =>
                  row # Gone /\ cache[a] = Apply(call[c].op, row)
<1> DEFINE a == call[c].op.art
           row == call[c].previous
<1>1. c \in Carrying(a)
  BY DEF Carrying
<1>2. Carrying(a) = {c} /\ CarryInv(c, a)
  BY <1>1 DEF PreviewInv, CarryInv
<1>3. row \in Rows /\ call[c].op \in Operation
  BY CallFacts
<1>4. Before(a) = {row}
  BY <1>2 DEF Before
<1>5. row # Gone => ComesTo(a, row)
  BY <1>4 DEF PreviewInv
<1>6. call[c].op.type \in {"parse_article", "delete_article", "set_article_state"}
  BY <1>3 DEF Operation
<1>7. ASSUME call[c].pc # "read", cache[a] # Gone
      PROVE row # Gone /\ cache[a] = Apply(call[c].op, row)
  <2>1. CASE call[c].op.type = "parse_article"
    BY <1>2, <1>7, <2>1 DEF CarryInv, Apply
  <2>2. CASE call[c].op.type # "parse_article"
    BY <1>2, <1>6, <1>7, <2>2 DEF CarryInv, Apply
  <2> QED
    BY <2>1, <2>2
<1> QED
  BY <1>2, <1>3, <1>5, <1>7

\* An operation begins, goes on, ends.
LEMMA PreviewOfCall ==
    ASSUME AppOK, QueueOK, QueueInv, TodoInv, AppOK', QueueOK', NEW a \in Article,
           a \notin disturbed', PreviewInv(a), NEW c \in Call,
           \/ \E op \in Operations : Begin(c, op)
           \/ Write(c) \/ Send(c) \/ Enqueue(c) \/ Served(c) \/ Refused(c) \/ Restore(c)
    PROVE PreviewInv(a)'
<1>1. PICK new : call' = [call EXCEPT ![c] = new]
  BY DEF Begin, Write, Send, Enqueue, Served, Refused, Restore
<1>2. call'[c] = new /\ CallOK
  BY <1>1 DEF AppOK, CallOK
<1>3. pass' = pass
  BY DEF Begin, Write, Send, Enqueue, Served, Refused, Restore
<1>4. ASSUME server'[a] = server[a] PROVE DoneInv(a)'
  BY <1>3, <1>4 DEF PreviewInv, DoneInv, First
<1>5. ASSUME ops' = ops PROVE Len(ops') = Len(ops) /\ \A i \in 1..Len(ops) : ops'[i].op = ops[i].op
  BY <1>5
<1>6. ASSUME ops' = ops, server'[a] = server[a], cache'[a] = cache[a],
             call[c].pc = "none" \/ call[c].op.art # a, new.pc = "none" \/ new.op.art # a
      PROVE PreviewInv(a)'
  BY <1>1, <1>2, <1>4, <1>5, <1>6, OthersCarried, PreviewLeft
<1>7. ASSUME ops' = ops, server'[a] = server[a]
      PROVE /\ QueuedFor(a)' <=> QueuedFor(a)
            /\ \A row : ComesTo(a, row) => ComesTo(a, row)'
  BY <1>5, <1>7, SameQueue
<1>8. ASSUME Carrying(a)' = {}, DoneInv(a)', cache'[a] # Gone => ComesTo(a, cache[a])'
      PROVE PreviewInv(a)'
  BY <1>8 DEF PreviewInv, DoneInv, Before, First
<1>9. ASSUME Carrying(a)' = {c}, DoneInv(a)', CarryInv(c, a)',
             new.previous # Gone => ComesTo(a, call[c].previous)'
      PROVE PreviewInv(a)'
  BY <1>2, <1>9 DEF PreviewInv, DoneInv, Before, First
<1>10. ASSUME Carrying(a) = {c} PROVE Carrying(a)' = IF new.pc # "none" /\ new.op.art = a
                                                     THEN {c} ELSE {}
  BY <1>1, <1>2, <1>10 DEF Carrying, CallOK
<1>11. CASE \E op \in Operations : Begin(c, op)
  <2>1. PICK op \in Operations : Begin(c, op)
    BY <1>11
  <2>2. /\ new.op = op /\ new.previous = cache[op.art]
        /\ new.pc = IF op.type = "parse_article" THEN "written" ELSE "read"
        /\ call[c].pc = "none"
    BY <1>1, <1>2, <2>1 DEF Begin, CallOK
  <2>3. UNCHANGED <<server, cache, ops>>
    BY <2>1 DEF Begin, queue
  <2>4. CASE op.art # a
    BY <1>6, <2>2, <2>3, <2>4
  <2>5. CASE op.art = a
    <3>1. Carrying(a) = {}
      BY <2>1, <2>5 DEF Begin, CarriedOut, Carrying
    <3>2. Carrying(a)' = {c}
      BY <1>1, <1>2, <2>2, <2>5, <3>1 DEF Carrying, CallOK
    <3>3. CarryInv(c, a)'
      BY <1>2, <2>2, <2>3, <2>5, <3>2 DEF CarryInv
    <3>4. cache[a] # Gone => ComesTo(a, cache[a])
      BY <3>1 DEF PreviewInv, Before
    <3>5. new.previous # Gone => ComesTo(a, call[c].previous)'
      BY <1>2, <1>7, <2>2, <2>3, <2>5, <3>4
    <3> QED
      BY <1>4, <1>9, <2>3, <3>2, <3>3, <3>5
  <2> QED
    BY <2>4, <2>5
<1>12. ASSUME call[c].pc # "none", call[c].op.art = a
       PROVE /\ Carrying(a) = {c} /\ CarryInv(c, a) /\ call[c].previous \in Rows
             /\ call[c].previous # Gone => ComesTo(a, call[c].previous)
             /\ call[c].pc # "read" /\ cache[a] # Gone =>
                  call[c].previous # Gone /\ cache[a] = Apply(call[c].op, call[c].previous)
  BY <1>2, <1>12, CarriedPreview
<1>13. ASSUME call[c].pc # "none", call[c].op.art = a, ops' = ops, server'[a] = server[a],
              new.pc # "none", new.op = call[c].op, new.previous = call[c].previous,
              CarryInv(c, a)'
       PROVE PreviewInv(a)'
  BY <1>2, <1>4, <1>7, <1>9, <1>10, <1>12, <1>13
<1>14. ASSUME call[c].pc # "none", NEW pc, call' = [call EXCEPT ![c].pc = pc]
       PROVE new = [call[c] EXCEPT !.pc = pc] /\ new.pc = pc /\ new.op = call[c].op
             /\ new.previous = call[c].previous
  BY <1>2, <1>14 DEF CallOK, Carried
<1>15. CASE Write(c)
  <2>1. /\ call[c].pc = "read" /\ UNCHANGED <<server, ops>>
        /\ cache' = [cache EXCEPT ![call[c].op.art] = Apply(call[c].op, cache[call[c].op.art])]
        /\ call' = [call EXCEPT ![c].pc = "written"]
    BY <1>15 DEF Write, queue
  <2>2. new.pc = "written" /\ new.op = call[c].op /\ new.previous = call[c].previous
    BY <1>14, <2>1
  <2>3. CASE call[c].op.art # a
    BY <1>6, <2>1, <2>2, <2>3 DEF AppOK
  <2>4. CASE call[c].op.art = a
    <3>1. Carrying(a)' = {c}
      BY <1>10, <1>12, <2>1, <2>2, <2>4
    <3>2. cache'[a] = Apply(call[c].op, call[c].previous) /\ call[c].op.type # "parse_article"
      BY <1>12, <2>1, <2>4 DEF CarryInv, AppOK
    <3>3. CarryInv(c, a)'
      BY <1>2, <2>2, <3>1, <3>2 DEF CarryInv
    <3> QED
      BY <1>13, <2>1, <2>2, <2>4, <3>3
  <2> QED
    BY <2>3, <2>4
<1>16. CASE Send(c)
  <2>1. /\ call[c].pc = "written" /\ UNCHANGED <<server, cache, ops>>
        /\ call' = [call EXCEPT ![c].pc = "sent"]
        /\ QueuedFor(call[c].op.art) => call[c].op.art \in disturbed'
    BY <1>16 DEF Send, queue
  <2>2. new.pc = "sent" /\ new.op = call[c].op /\ new.previous = call[c].previous
    BY <1>14, <2>1
  <2>3. CASE call[c].op.art # a
    BY <1>6, <2>1, <2>2, <2>3
  <2>4. CASE call[c].op.art = a
    <3>1. Carrying(a)' = {c}
      BY <1>10, <1>12, <2>1, <2>2, <2>4
    <3>2. ~QueuedFor(a)'
      BY <2>1, <2>4 DEF QueuedFor
    <3>3. CarryInv(c, a)'
      BY <1>2, <1>12, <2>1, <2>2, <2>4, <3>1, <3>2 DEF CarryInv
    <3> QED
      BY <1>13, <2>1, <2>2, <2>4, <3>3
  <2> QED
    BY <2>3, <2>4
<1>17. CASE Enqueue(c)
  <2>1. /\ call[c].pc = "written" /\ UNCHANGED <<server, cache>> /\ new = NoCall
    BY <1>1, <1>2, <1>17 DEF Enqueue, CallOK
  <2>2. new.pc = "none"
    BY <2>1 DEF NoCall
  <2>3. CASE call[c].op.art # a
    <3>1. \A row \in Rows : ComesTo(a, row) => ComesTo(a, row)'
      BY <1>2, <1>17, <2>3, OneMoreQueued
    <3>2. QueuedFor(a)' => QueuedFor(a)
      BY <1>2, <1>17, <2>3, QueuedMore
    <3>3. Carrying(a)' = Carrying(a) /\ \A d \in Carrying(a) : call'[d] = call[d]
      BY <1>1, <1>2, <2>2, <2>3, OthersCarried
    <3> QED
      BY <1>4, <2>1, <3>1, <3>2, <3>3, PreviewKept
  <2>4. CASE call[c].op.art = a
    <3>1. Carrying(a)' = {}
      BY <1>10, <1>12, <2>1, <2>2, <2>4
    <3>2. ASSUME cache[a] # Gone PROVE ComesTo(a, cache[a])'
      <4>1. /\ ComesTo(a, call[c].previous) /\ call[c].previous \in Rows
            /\ cache[a] = Apply(call[c].op, call[c].previous)
        BY <1>12, <2>1, <2>4, <3>2
      <4>2. PICK after : after = cache[a]
        OBVIOUS
      <4>3. ComesTo(a, after)'
        BY <1>2, <1>17, <2>4, <4>1, <4>2, OneMoreQueued
      <4> QED
        BY <2>1, <4>2, <4>3
    <3> QED
      BY <1>4, <1>8, <2>1, <3>1, <3>2
  <2> QED
    BY <2>3, <2>4
<1>18. CASE Served(c)
  <2>1. /\ call[c].pc = "sent" /\ UNCHANGED <<cache, ops>>
        /\ server' = [server EXCEPT ![call[c].op.art] = Apply(call[c].op, server[call[c].op.art])]
        /\ \/ call' = [call EXCEPT ![c] = NoCall]
           \/ call' = [call EXCEPT ![c].pc = "error"] /\ call[c].op.art \in disturbed'
    BY <1>18 DEF Served, Execute, queue
  <2>2. CASE call[c].op.art # a
    <3>1. new.pc = "none" \/ new.op.art # a
      BY <1>2, <1>14, <2>1, <2>2 DEF NoCall, CallOK
    <3> QED
      BY <1>6, <2>1, <2>2, <3>1 DEF AppOK
  <2>3. CASE call[c].op.art = a
    <3>1. new = NoCall
      BY <1>2, <2>1, <2>3 DEF CallOK
    <3>2. Carrying(a)' = {}
      BY <1>10, <1>12, <2>1, <2>3, <3>1 DEF NoCall
    <3>3. ~QueuedFor(a) /\ ~QueuedFor(a)'
      BY <1>12, <2>1, <2>3 DEF CarryInv, QueuedFor
    <3>4. DoneInv(a)'
      BY <1>3, <2>1, <3>3, FirstIsQueued DEF DoneInv, First
    <3>5. ASSUME cache[a] # Gone PROVE server'[a] = cache'[a]
      <4>1. /\ ComesTo(a, call[c].previous)
            /\ cache[a] = Apply(call[c].op, call[c].previous)
        BY <1>12, <2>1, <2>3, <3>5
      <4>2. call[c].previous = server[a]
        BY <3>3, <4>1, NothingQueued
      <4> QED
        BY <2>1, <2>3, <4>1, <4>2 DEF AppOK
    <3>6. ComesTo(a, server[a])'
      BY <3>3, NothingQueuedThen
    <3>7. cache'[a] # Gone => ComesTo(a, cache[a])'
      BY <2>1, <3>5, <3>6 DEF ComesTo
    <3> QED
      BY <1>8, <3>2, <3>4, <3>7
  <2> QED
    BY <2>2, <2>3
<1>19. CASE Refused(c)
  <2>1. /\ call[c].pc = "sent" /\ UNCHANGED <<server, cache, ops>>
        /\ call' = [call EXCEPT ![c].pc = "error"]
    BY <1>19 DEF Refused, queue
  <2>2. new.pc = "error" /\ new.op = call[c].op /\ new.previous = call[c].previous
    BY <1>14, <2>1
  <2>3. CASE call[c].op.art # a
    BY <1>6, <2>1, <2>2, <2>3
  <2>4. CASE call[c].op.art = a
    <3>1. Carrying(a)' = {c}
      BY <1>10, <1>12, <2>1, <2>2, <2>4
    <3>2. CarryInv(c, a)'
      BY <1>2, <1>12, <2>1, <2>2, <2>4, <3>1 DEF CarryInv
    <3> QED
      BY <1>13, <2>1, <2>2, <2>4, <3>2
  <2> QED
    BY <2>3, <2>4
<1>20. CASE Restore(c)
  <2>1. /\ call[c].pc = "error" /\ UNCHANGED <<server, ops>> /\ new = NoCall
        /\ cache' = IF call[c].previous = Gone \/ call[c].op.type = "parse_article"
                    THEN cache ELSE [cache EXCEPT ![call[c].op.art] = call[c].previous]
    BY <1>1, <1>2, <1>20 DEF Restore, queue, CallOK
  <2>2. new.pc = "none"
    BY <2>1 DEF NoCall
  <2>3. CASE call[c].op.art # a
    BY <1>6, <2>1, <2>2, <2>3 DEF AppOK
  <2>4. CASE call[c].op.art = a
    <3>1. Carrying(a)' = {}
      BY <1>10, <1>12, <2>1, <2>2, <2>4
    <3>2. ASSUME cache'[a] # Gone PROVE call[c].previous # Gone /\ cache'[a] = call[c].previous
      <4>1. CASE call[c].previous = Gone \/ call[c].op.type = "parse_article"
        <5>1. cache'[a] = cache[a] /\ call[c].previous # Gone
          BY <1>12, <2>1, <2>4, <3>2, <4>1
        <5> QED
          BY <1>12, <2>1, <2>4, <4>1, <5>1 DEF CarryInv
      <4>2. CASE ~(call[c].previous = Gone \/ call[c].op.type = "parse_article")
        BY <2>1, <2>4, <4>2 DEF AppOK
      <4> QED
        BY <4>1, <4>2
    <3>3. cache'[a] # Gone => ComesTo(a, cache[a])'
      <4>1. ASSUME cache'[a] # Gone PROVE ComesTo(a, cache[a])'
        <5>1. PICK row : row = call[c].previous
          OBVIOUS
        <5>2. ComesTo(a, row)'
          BY <1>7, <1>12, <2>1, <2>4, <3>2, <4>1, <5>1
        <5> QED
          BY <3>2, <4>1, <5>1, <5>2
      <4> QED
        BY <4>1
    <3> QED
      BY <1>4, <1>8, <2>1, <3>1, <3>3
  <2> QED
    BY <2>3, <2>4
<1> QED
  BY <1>11, <1>15, <1>16, <1>17, <1>18, <1>19, <1>20

\* A page is stored: the preview is what the backend has, or what it was.
LEMMA PreviewOfPage ==
    ASSUME AppOK, QueueOK, QueueInv, TodoInv, AppOK', QueueOK', NEW a \in Article,
           a \notin disturbed', a \notin disturbed => PreviewInv(a),
           NEW r \in Slot, PageInv(r, a), Store(r)
    PROVE PreviewInv(a)'
<1>1. UNCHANGED <<server, ops, pass, call>>
  BY DEF Store, queue
<1>2. Carrying(a)' = Carrying(a) /\ \A c \in Carrying(a) : call'[c] = call[c]
  BY <1>1 DEF Carrying
<1>3. CASE read[r].rows[a] = Gone
  <2>1. cache'[a] = cache[a] /\ PreviewInv(a)
    BY <1>3 DEF Store
  <2>2. DoneInv(a)'
    BY <1>1, <2>1 DEF PreviewInv, DoneInv, First
  <2> QED
    BY <1>1, <1>2, <2>1, <2>2, PreviewLeft
<1>4. CASE read[r].rows[a] # Gone
  <2>1. cache'[a] = read[r].rows[a] /\ read[r].clean[a] /\ read[r].on
    BY <1>4 DEF Store
  <2>2. ~QueuedFor(a) /\ Carrying(a) = {} /\ cache'[a] = server'[a]
    BY <1>1, <1>4, <2>1 DEF PageInv
  <2>3. ~QueuedFor(a)'
    BY <1>1, <2>2 DEF QueuedFor
  <2>4. ComesTo(a, server[a])'
    BY <2>3, NothingQueuedThen
  <2>5. ComesTo(a, cache[a])'
    BY <2>2, <2>4 DEF ComesTo
  <2>6. DoneInv(a)'
    BY <1>1, <2>2, FirstIsQueued DEF DoneInv, First
  <2> QED
    BY <1>2, <2>2, <2>5, <2>6 DEF PreviewInv, DoneInv, Before, First
<1> QED
  BY <1>3, <1>4

\* A step of the pass.
LEMMA PreviewOfPass ==
    ASSUME AppOK, QueueOK, QueueInv, TodoInv, AppOK', QueueOK', NEW a \in Article,
           a \notin disturbed', PreviewInv(a),
           OpServed \/ OpRefused \/ OpDone \/ OpFailed
    PROVE PreviewInv(a)'
<1>1. UNCHANGED <<cache, call>> /\ pass.pc # "idle"
  BY DEF OpServed, OpRefused, OpDone, OpFailed
<1>2. Carrying(a)' = Carrying(a) /\ \A c \in Carrying(a) : call'[c] = call[c]
  BY <1>1 DEF Carrying
<1>3. /\ First.op = ops[1].op /\ First.op \in Operation /\ ops # <<>> /\ pass.todo # <<>>
  BY <1>1, FirstIsQueued
<1>4. CASE OpServed
  <2>1. /\ server' = [server EXCEPT ![First.op.art] = Apply(First.op, server[First.op.art])]
        /\ ops' = ops /\ pass'.todo = pass.todo
    BY <1>4 DEF OpServed, Execute, First, queue, QueueOK, PassOK, Pass
  <2>2. server'[a] = IF ops[1].op.art = a THEN Apply(ops[1].op, server[a]) ELSE server[a]
    BY <1>3, <2>1 DEF AppOK
  <2>3. \A row : ComesTo(a, row) => ComesTo(a, row)'
    BY <1>3, <2>1, <2>2, FirstExecuted
  <2>4. First.op.art = a => Apply(First.op, server'[a]) = server'[a]
    BY <1>3, <2>2, AppliedAgain DEF AppOK
  <2>5. DoneInv(a)'
    BY <2>1, <2>4 DEF DoneInv, First
  <2>6. QueuedFor(a)' => QueuedFor(a)
    BY <2>1 DEF QueuedFor
  <2> QED
    BY <1>1, <1>2, <2>3, <2>5, <2>6, PreviewKept
<1>5. CASE OpRefused
  <2>1. UNCHANGED <<server, ops>> /\ pass'.pc = "error"
    BY <1>5 DEF OpRefused, queue, QueueOK, PassOK, Pass
  <2> QED
    BY <1>1, <1>2, <2>1, PreviewLeft DEF DoneInv
<1>6. ASSUME FirstGone, server' = server,
             ops[1].op.art = a => Apply(ops[1].op, server[a]) = server[a]
      PROVE PreviewInv(a)'
  <2>1. \A row : ComesTo(a, row) => ComesTo(a, row)'
    BY <1>3, <1>6, OneLessQueued
  <2>2. DoneInv(a)'
    BY <1>6 DEF DoneInv, FirstGone
  <2>3. QueuedFor(a)' => QueuedFor(a)
    BY <1>1, <1>6, QueuedLess
  <2> QED
    BY <1>1, <1>2, <2>1, <2>2, <2>3, PreviewKept
<1>7. CASE OpDone
  <2>1. FirstGone /\ server' = server /\ pass.pc = "ok"
    BY <1>7, GoesFirst DEF OpDone, First
  <2> QED
    BY <1>3, <1>6, <2>1 DEF PreviewInv, First
<1>8. CASE OpFailed
  <2>1. server' = server
    BY <1>8 DEF OpFailed
  <2>2. CASE FirstGone /\ disturbed' = disturbed \cup {First.op.art}
    BY <1>3, <1>6, <2>1, <2>2
  <2>3. CASE FirstStays
    BY <1>1, <1>2, <2>1, <2>3, PreviewLeft DEF FirstStays, DoneInv
  <2> QED
    BY <1>8, <2>2, <2>3, FailsFirst
<1> QED
  BY <1>4, <1>5, <1>7, <1>8

\* Every step keeps the previews of the articles that nothing else happened to.
LEMMA PreviewStep ==
    ASSUME AppOK, QueueOK, QueueInv, CacheInv, AppOK', QueueOK', NEW a \in Article,
           a \notin disturbed', [Next]_vars
    PROVE PreviewInv(a)'
<1>1. TodoInv
  BY DEF CacheInv, TodoInv
<1>2. a \notin disturbed => PreviewInv(a)
  BY DEF CacheInv
<1>3. ASSUME NEW r \in Slot, Store(r) PROVE PreviewInv(a)'
  BY <1>1, <1>2, <1>3, PreviewOfPage DEF CacheInv
<1>4. ASSUME ~\E r \in Slot : Store(r) PROVE PreviewInv(a)
  <2>1. disturbed \subseteq disturbed'
    BY <1>4 DEF Next, vars, Begin, Write, Send, Enqueue, Served, Refused, Restore, OpServed,
       OpRefused, OpDone, OpFailed, TimerFires, GoOffline, ComeOnline, Restart, Reboot,
       Serve, Refetch, Elsewhere
  <2> QED
    BY <1>2, <2>1
<1>5. ASSUME PreviewInv(a), UNCHANGED <<cache, ops, call>>, server'[a] = server[a], DoneInv(a)'
      PROVE PreviewInv(a)'
  BY <1>5, PreviewLeft DEF Carrying
<1>6. ASSUME pass' = pass \/ pass'.pc # "ok", server'[a] = server[a], PreviewInv(a)
      PROVE DoneInv(a)'
  BY <1>6 DEF PreviewInv, DoneInv, First
<1>7. ASSUME NEW c \in Call, PreviewInv(a),
             \/ \E op \in Operations : Begin(c, op)
             \/ Write(c) \/ Send(c) \/ Enqueue(c) \/ Served(c) \/ Refused(c) \/ Restore(c)
      PROVE PreviewInv(a)'
  BY <1>1, <1>7, PreviewOfCall
<1>8. ASSUME PreviewInv(a), OpServed \/ OpRefused \/ OpDone \/ OpFailed
      PROVE PreviewInv(a)'
  BY <1>1, <1>8, PreviewOfPass
<1>9. ASSUME PreviewInv(a), TimerFires \/ ComeOnline PROVE PreviewInv(a)'
  <2>1. UNCHANGED <<server, cache, ops, call>> /\ pass' = StartPass
    BY <1>9 DEF TimerFires, ComeOnline, queue
  <2>2. pass' = pass \/ pass'.pc # "ok"
    BY <2>1, Started
  <2> QED
    BY <1>5, <1>6, <1>9, <2>1, <2>2
<1>10. ASSUME PreviewInv(a), GoOffline PROVE PreviewInv(a)'
  BY <1>5, <1>6, <1>10 DEF GoOffline, queue
<1>11. ASSUME PreviewInv(a), Restart PROVE PreviewInv(a)'
  <2>1. UNCHANGED <<server, cache, ops>> /\ call' = [c \in Call |-> NoCall]
        /\ \A c \in Carrying(a) : call[c].pc = "read"
    <3>1. \A c \in Carrying(a) : call[c].pc \in {"read", "written", "sent", "error"}
      BY DEF AppOK, CallOK, Carrying, Carried
    <3> QED
      BY <1>11, <3>1 DEF Restart, Reboot, Carrying
  <2>2. pass'.pc # "ok"
    BY <1>11, Rebooted
  <2>3. Carrying(a)' = {}
    BY <2>1 DEF Carrying, NoCall
  <2>4. cache[a] # Gone => ComesTo(a, cache[a])
    <3>1. cache[a] \in Before(a)
      BY <1>11, <2>1 DEF Before, PreviewInv, CarryInv
    <3> QED
      BY <1>11, <3>1 DEF PreviewInv
  <2>5. ComesTo(a, cache[a]) => ComesTo(a, cache[a])'
    <3>1. PICK row : row = cache[a]
      OBVIOUS
    <3>2. ComesTo(a, row) => ComesTo(a, row)'
      BY <2>1, SameQueue
    <3> QED
      BY <2>1, <3>1, <3>2
  <2> QED
    BY <2>1, <2>2, <2>3, <2>4, <2>5 DEF PreviewInv, Before
<1>12. ASSUME PreviewInv(a), NEW r \in Read, NEW S \in SUBSET Article, Serve(r, S)
       PROVE PreviewInv(a)'
  BY <1>5, <1>6, <1>12 DEF Serve, queue
<1>13. ASSUME PreviewInv(a), Refetch PROVE PreviewInv(a)'
  BY <1>5, <1>6, <1>13 DEF Refetch, queue
<1>14. ASSUME PreviewInv(a), NEW op \in Operations, Elsewhere(op) PROVE PreviewInv(a)'
  <2>1. server'[a] = server[a] /\ UNCHANGED <<cache, ops, call, pass>>
    BY <1>14 DEF Elsewhere, Execute, queue, AppOK
  <2> QED
    BY <1>5, <1>6, <1>14, <2>1
<1>15. ASSUME PreviewInv(a), UNCHANGED vars PROVE PreviewInv(a)'
  BY <1>5, <1>6, <1>15 DEF vars
<1> QED
  BY <1>3, <1>4, <1>7, <1>8, <1>9, <1>10, <1>11, <1>12, <1>13, <1>14, <1>15 DEF Next

\* All of it.
LEMMA CacheStep ==
    ASSUME AppOK, QueueOK, QueueInv, CacheInv, AppOK', QueueOK', [Next]_vars PROVE CacheInv'
<1>1. TodoInv /\ CallOK
  BY DEF CacheInv, TodoInv, AppOK
<1>2. TodoInv'
  BY <1>1, TodoStep
<1>3. \A r \in Slot, a \in Article : PageInv(r, a)'
  BY <1>1, PageStep DEF CacheInv
<1>4. \A a \in Article : a \notin disturbed' => PreviewInv(a)'
  BY PreviewStep
<1> QED
  BY <1>2, <1>3, <1>4 DEF CacheInv, TodoInv

\* What the user sees, then.
LEMMA PreviewsRight == ASSUME AppOK, QueueOK, CacheInv PROVE CacheFollowsQueue
<1> SUFFICES ASSUME NEW a \in Article, a \notin disturbed, cache[a] # Gone
             PROVE Expected(a, cache[a])
  BY DEF CacheFollowsQueue
<1> DEFINE out == {c \in Call : /\ call[c].op.art = a
                                /\ call[c].pc \in {"written", "sent", "error"}}
<1>1. out \subseteq Carrying(a) /\ PreviewInv(a) /\ CallOK
  BY DEF Carrying, CacheInv, AppOK
<1>2. CASE out = {}
  <2>1. \A c \in Carrying(a) : call[c].pc = "read"
    BY <1>2 DEF Carrying, AppOK, CallOK, Carried
  <2>2. cache[a] \in Before(a)
    BY <1>1, <2>1 DEF Before, PreviewInv, CarryInv
  <2>3. ComesTo(a, cache[a])
    BY <1>1, <2>2 DEF PreviewInv
  <2> QED
    BY <1>2, <2>3 DEF ComesTo, Replays, Expected
<1>3. CASE out # {}
  <2>1. PICK c \in out : TRUE
    BY <1>3
  <2>2. /\ c \in Call /\ call[c].op.art = a /\ call[c].pc # "none" /\ call[c].pc # "read"
    BY <2>1
  <2>3. Carrying(a) = {c} /\ ComesTo(a, call[c].previous)
        /\ cache[a] = Apply(call[c].op, call[c].previous)
    BY <1>1, <2>2, CarriedPreview
  <2>4. out = {c}
    BY <1>1, <2>1, <2>3
  <2>5. PICK rows \in [0..Len(ops) -> Rows] :
          WorkedOff(a, rows) /\ rows[Len(ops)] = call[c].previous
    BY <2>3 DEF ComesTo, Replays
  <2> QED
    BY <2>3, <2>4, <2>5 DEF Expected
<1> QED
  BY <1>2, <1>3

----------------------------------------------------------------------------
(* The theorems. *)

TypeInv == AppOK /\ QueueOK /\ QueueInv

\* Every step keeps all of it.
LEMMA TypeStep == ASSUME TypeInv, [Next]_vars PROVE TypeInv'
<1>1. CallOK /\ pass \in Pass /\ (pass.pc = "idle") = (pass.todo = <<>>)
  BY DEF TypeInv, AppOK, QueueOK, PassOK
<1> QED
  BY <1>1, AppStep, QueueTypeStep, QueueStep DEF TypeInv

\* To begin with, nothing is queued, carried out or read.
LEMMA CacheBegins == ASSUME Init, AppOK, QueueOK PROVE CacheInv
<1>1. /\ ops = <<>> /\ pass.todo = <<>> /\ pass.pc = "idle" /\ Len(<<>>) = 0
      /\ cache = server /\ call = [c \in Call |-> NoCall]
      /\ \A r \in Slot : ~read[r].on
  BY EmptySeq DEF Init, Idle, NoRead
<1>2. \A a \in Article : ~QueuedFor(a) /\ Carrying(a) = {}
  BY <1>1 DEF QueuedFor, Carrying, NoCall, QueueOK
<1>3. \A a \in Article : ComesTo(a, cache[a])
  BY <1>1, <1>2, NothingQueued
<1> QED
  BY <1>1, <1>2, <1>3 DEF CacheInv, PageInv, PreviewInv, Before

\* To begin with, nothing is queued.
LEMMA Begins ==
    ASSUME Init
    PROVE TypeInv /\ NothingLost /\ InOrder /\ OnceInv /\ ForgottenInv
<1> USE QueueAssumption DEF Init
<1>1. <<>> \in Seq(Pending) /\ <<>> \in Seq(OpId) /\ DOMAIN <<>> = {} /\ Len(<<>>) = 0
  BY EmptySeq, LenProperties
<1>2. NoCall \in Carried /\ NoCall.pc = "none"
  BY DEF NoCall, Carried, Rows
<1>3. Fresh \in Rows
  BY DEF Fresh, Rows, Row
<1>4. AppOK
  BY <1>2, <1>3, NoPage DEF AppOK, CallOK
<1>5. PassOK /\ pass.pc = "idle" /\ pass.todo = <<>>
  BY <1>1 DEF PassOK, Pass, Idle
<1>6. QueueOK
  BY <1>1, <1>5 DEF QueueOK
<1>7. Applied = {} /\ PendingIds = {}
  BY <1>1 DEF Applied, PendingIds
<1>8. QueueInv
  BY <1>1, <1>5, <1>7 DEF QueueInv
<1>9. NothingLost /\ InOrder
  BY <1>7 DEF NothingLost, InOrder
<1>10. OnceInv
  BY <1>1, <1>7 DEF OnceInv, OnceUnlessUnrecorded
<1>11. ForgottenInv
  BY <1>5 DEF ForgottenInv, NeverForgotten
<1> QED
  BY <1>4, <1>6, <1>8, <1>9, <1>10, <1>11 DEF TypeInv

\* The variables have their types; the timers nobody can cancel are as many as
\* failures at most.
THEOREM TypeCorrect == Spec => []TypeOK
<1>1. TypeInv => TypeOK
  <2> SUFFICES ASSUME TypeInv PROVE TypeOK
    OBVIOUS
  <2>1. timer \in [set : BOOLEAN, stray : 0..MaxTrouble]
    <3>1. timer \in [set : BOOLEAN, stray : Nat] /\ timer.stray \in 0..MaxTrouble
      BY QueueAssumption DEF TypeInv, QueueOK
    <3> QED
      BY <3>1
  <2> QED
    BY <2>1 DEF TypeOK, TypeInv, AppOK, QueueOK, CallOK, PassOK
<1> QED
  BY <1>1, Begins, TypeStep, PTL DEF Spec

\* What every step needs of the state.
LEMMA TypesGive ==
    TypeInv => QueueOK /\ QueueInv /\ CallOK
  BY DEF TypeInv, AppOK

\* However often calls fail and the app dies, every operation queued offline is
\* waiting, was executed, or has failed as often as is allowed.
THEOREM QueueIsDurable == Spec => []NothingLost
  BY Begins, TypeStep, TypesGive, LostStep, PTL DEF Spec

\* The backend sees the queued operations in the order in which they were made.
THEOREM QueueIsFIFO == Spec => []InOrder
  BY Begins, TypeStep, TypesGive, LostStep, OrderStep, PTL DEF Spec

\* An operation is repeated only when its success could not be recorded.
THEOREM QueueRepeatsUnrecorded == Spec => []OnceUnlessUnrecorded
<1>1. OnceInv => OnceUnlessUnrecorded
  BY DEF OnceInv
<1> QED
  BY <1>1, Begins, TypeStep, TypesGive, OnceStep, PTL DEF Spec

\* Online, what is queued is being looked at or will be, unless the trigger came
\* while a pass was under way.
THEOREM QueueIsRemembered == Spec => []NeverForgotten
<1>1. ForgottenInv => NeverForgotten
  BY DEF ForgottenInv
<1> QED
  BY <1>1, Begins, TypeStep, TypesGive, ForgottenStep, PTL DEF Spec

\* A page that is taken for true is true, one operation at most is carried out on
\* an article that nothing else happened to, and the preview it found is what the
\* queue comes to.
THEOREM CacheInvAlways == Spec => []CacheInv
<1>1. TypeInv => AppOK /\ QueueOK /\ QueueInv
  BY DEF TypeInv
<1>2. Init => TypeInv /\ CacheInv
  BY Begins, CacheBegins DEF TypeInv
<1>3. TypeInv /\ TypeInv' /\ CacheInv /\ [Next]_vars => CacheInv'
  BY CacheStep DEF TypeInv
<1> QED
  BY <1>2, <1>3, TypeStep, PTL DEF Spec

\* What the app shows of an article is what the backend will have when it has
\* executed all that is queued and under way, however much is queued, fails and
\* dies, unless something else happened to the article.
THEOREM PreviewsFollowQueue == Spec => []CacheFollowsQueue
<1>1. TypeInv /\ CacheInv => CacheFollowsQueue
  BY PreviewsRight DEF TypeInv
<1>2. Spec => []TypeInv
  BY Begins, TypeStep, PTL DEF Spec
<1> QED
  BY <1>1, <1>2, CacheInvAlways, PTL
=============================================================================
