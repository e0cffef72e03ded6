--------------------------- MODULE RedisStreams ---------------------------
(***************************************************************************)
(* The part of Redis Streams this system relies on, modelled from how      *)
(* backend, scraper and phonemizer call it.  A stream is a sequence of     *)
(* entries that is only ever appended to (the code never trims); an entry  *)
(* is named by its position.  A consumer group is a cursor, the position   *)
(* of the last entry it delivered, and a pending list: a function from the *)
(* positions delivered and not acknowledged to their times_delivered.      *)
(***************************************************************************)
EXTENDS Integers, Sequences, FiniteSets

\* Mutant: the read starts at the last entry delivered, not behind it.
Undelivered_Again(stream, cursor, count) ==
    {i \in 1..Len(stream) : cursor <= i /\ i <= cursor + count}

\* Positions an XREADGROUP ">" with COUNT count would deliver next.
Undelivered(stream, cursor, count) ==
    {i \in 1..Len(stream) : cursor < i /\ i <= cursor + count}

\* XREADGROUP ">": what it delivers becomes pending, delivered once.
XReadGroup(pending, new) ==
    [i \in (DOMAIN pending) \cup new |-> IF i \in new THEN 1 ELSE pending[i]]

\* XACK: forget the entry.  Acknowledging twice is harmless.
XAck(pending, i) ==
    [j \in (DOMAIN pending) \ {i} |-> pending[j]]

\* XAUTOCLAIM: entries idle long enough count as delivered once more.
XAutoClaim(pending, idle) ==
    [i \in DOMAIN pending |-> IF i \in idle THEN pending[i] + 1 ELSE pending[i]]

\* XPENDING min max count: the first `count` pending entries of a range.
XPendingRange(pending, first, last, count) ==
    LET inRange == {i \in DOMAIN pending : first <= i /\ i <= last}
    IN  {i \in inRange : Cardinality({j \in inRange : j < i}) < count}

\* Delivered to the group and no longer pending: nobody will look again.
Acked(cursor, pending, i) ==
    i <= cursor /\ i \notin DOMAIN pending
=============================================================================
