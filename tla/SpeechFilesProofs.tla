-------------------------- MODULE SpeechFilesProofs --------------------------
(***************************************************************************)
(* The theorems about the audio files of SpeechAudio: what is taken for    *)
(* complete is whole, and has the timestamps of its words.                 *)
(***************************************************************************)
EXTENDS SpeechAudioProofs

----------------------------------------------------------------------------
(* The files of a key, and who writes them. *)

KeyInv(k) == OneWriter(k) /\ FilesOf(k)

\* A call that a step leaves alone writes what it wrote, unless its generator is
\* disposed of.
LEMMA WritesOn ==
    ASSUME TypeOK, CallsInv, GensKept, NEW q \in Call, play'[q] = play[q], NEW k \in Key
    PROVE  /\ Writing(q, k)' => Writing(q, k)
           /\ Writing(q, k) /\ ~Writing(q, k)' => play[q].pc \in {"open", "infer", "finish"}
<1>1. CASE play[q].on = None
  BY <1>1 DEF Writing
<1>2. CASE play[q].on # None
  <2>1. play[q].on \in Call /\ Begun(play[q].on)
    BY <1>2 DEF TypeOK, PlayState, CallsInv, CallInv
  <2>2. KeyOf(q)' = KeyOf(q)
        /\ (gen'[play'[q].on].live => gen[play[q].on].live)
    BY <2>1 DEF GensKept, KeyOf
  <2> QED BY <1>2, <2>2 DEF Writing
<1> QED BY <1>1, <1>2

\* A call that stops between two chunks leaves the files at rest.
LEMMA AudioRests ==
    ASSUME TypeOK, NEW p \in Call, NEW k \in Key, AudioOf(p, k),
           play[p].pc \in {"open", "infer", "write", "stamp", "finish"}
    PROVE  AudioAtRest(k)
<1>1. play[p].i \in 1..Chunks + 1 /\ mp3[k] \in Seq(Chunk)
  BY DEF TypeOK, PlayState
<1>2. Len(mp3[k]) = Written(p) /\ Written(p) \in Nat
  BY <1>1, SpeechAssumption DEF AudioOf, UpTo, Written
<1> QED BY <1>1, <1>2 DEF AudioOf, AudioAtRest

LEMMA StampsRest ==
    ASSUME TypeOK, NEW p \in Call, NEW k \in Key, AudioOf(p, k), StampsOf(p, k),
           play[p].pc \in {"open", "infer", "write", "finish"}
    PROVE  StampsAtRest(k)
<1>1. play[p].i \in 1..Chunks + 1 /\ mp3[k] \in Seq(Chunk)
  BY DEF TypeOK, PlayState
<1>2. Written(p) = play[p].i - 1 /\ Len(mp3[k]) = Written(p)
  BY DEF AudioOf, UpTo, Written
<1> QED BY <1>1, <1>2 DEF StampsOf, StampsAtRest

LEMMA HalfEvictedKept ==
    ASSUME NEW p \in Call, Others(p), NEW k \in Key,
           play[p].pc # "delete" \/ play[p].victim # k,
           play'[p].pc # "delete" \/ play'[p].victim # k
    PROVE  (k \in HalfEvicted)' <=> k \in HalfEvicted
<1>1. k \in HalfEvicted => (k \in HalfEvicted)'
  BY DEF HalfEvicted, Others
<1>2. (k \in HalfEvicted)' => k \in HalfEvicted
  BY DEF HalfEvicted, Others
<1> QED BY <1>1, <1>2

\* The call has written of k what it had, or has stopped between two chunks.
Steady(q, k) ==
    /\ Writing(q, k)' =>
         /\ Writing(q, k)
         /\ Written(q)' = Written(q) /\ Spoken(q)' = Spoken(q)
         /\ gen'[play'[q].on].words = gen[play[q].on].words
         /\ play'[q].pc = "meta" <=> play[q].pc = "meta"
         /\ play'[q].pc = "stamp" <=> play[q].pc = "stamp"
    /\ Writing(q, k) /\ ~Writing(q, k)' => play[q].pc \in {"open", "infer", "write", "finish"}

\* A step that leaves the files of k and how far its writer has got.
LEMMA KeyInvKept ==
    ASSUME TypeOK, NEW k \in Key, KeyInv(k), \A q \in Call : Steady(q, k),
           mp3'[k] = mp3[k], meta'[k] = meta[k], stamps'[k] = stamps[k],
           (k \in HalfEvicted)' <=> k \in HalfEvicted, k \notin unstamped' => k \notin unstamped
    PROVE  KeyInv(k)'
<1>1. OneWriter(k)'
  BY DEF KeyInv, OneWriter, Steady
<1>2. ASSUME k \notin HalfEvicted, NEW q \in Call, Writing(q, k)'
      PROVE  AudioOf(q, k)' /\ (k \notin unstamped' => StampsOf(q, k)')
  <2>1. Writing(q, k) /\ AudioOf(q, k) /\ (k \notin unstamped => StampsOf(q, k))
    BY <1>2 DEF KeyInv, FilesOf, Steady
  <2>2. AudioOf(q, k)'
    BY <1>2, <2>1 DEF AudioOf, Steady
  <2>3. k \notin unstamped' => StampsOf(q, k)'
    BY <1>2, <2>1 DEF StampsOf, Steady
  <2> QED BY <2>2, <2>3
<1>3. ASSUME k \notin HalfEvicted, \A q \in Call : ~Writing(q, k)'
      PROVE  AudioAtRest(k) /\ (k \notin unstamped => StampsAtRest(k))
  <2>1. CASE \A q \in Call : ~Writing(q, k)
    BY <1>3, <2>1 DEF KeyInv, FilesOf
  <2>2. ASSUME NEW q \in Call, Writing(q, k)
        PROVE  AudioAtRest(k) /\ (k \notin unstamped => StampsAtRest(k))
    <3>1. AudioOf(q, k) /\ (k \notin unstamped => StampsOf(q, k))
      BY <1>3, <2>2 DEF KeyInv, FilesOf
    <3>2. play[q].pc \in {"open", "infer", "write", "finish"}
      BY <1>3, <2>2 DEF Steady
    <3> QED BY <3>1, <3>2, AudioRests, StampsRest
  <2> QED BY <2>1, <2>2
<1>4. FilesOf(k)'
  <2>1. ASSUME k \notin HalfEvicted, \A q \in Call : ~Writing(q, k)'
        PROVE  AudioAtRest(k)' /\ (k \notin unstamped' => StampsAtRest(k)')
    BY <1>3, <2>1 DEF AudioAtRest, StampsAtRest
  <2> QED BY <1>2, <2>1 DEF FilesOf
<1> QED BY <1>1, <1>4 DEF KeyInv

LEMMA LeftAlone ==
    ASSUME TypeOK, CallsInv, GensKept, NEW q \in Call, play'[q] = play[q], NEW k \in Key,
           Writing(q, k)' => gen'[play[q].on].words = gen[play[q].on].words
    PROVE  Steady(q, k)
BY WritesOn DEF Steady, Written, Spoken

\* A step of a call that does not write k, and leaves its files.
LEMMA QuietKept ==
    ASSUME TypeOK, CallsInv, GensKept, NEW p \in Call, Others(p), NEW k \in Key, KeyInv(k),
           play[p].pc # "delete" \/ play[p].victim # k,
           play'[p].pc # "delete" \/ play'[p].victim # k,
           ~Writing(p, k), ~Writing(p, k)',
           mp3'[k] = mp3[k], meta'[k] = meta[k], stamps'[k] = stamps[k],
           k \notin unstamped' => k \notin unstamped,
           \A q \in Call \ {p} : Writing(q, k) =>
               gen'[play[q].on].words = gen[play[q].on].words
    PROVE  KeyInv(k)'
<1>1. ASSUME NEW q \in Call \ {p} PROVE Steady(q, k)
  BY LeftAlone, WritesOn DEF Others
<1>2. Steady(p, k)
  BY DEF Steady
<1> QED BY <1>1, <1>2, KeyInvKept, HalfEvictedKept

\* A step of the only call at work on the files of k.
LEMMA WriterKept ==
    ASSUME TypeOK, CallsInv, GensKept, NEW p \in Call, Others(p), NEW k \in Key,
           k \notin HalfEvicted, \A q \in Call \ {p} : ~Writing(q, k),
           play'[p].pc # "delete",
           Writing(p, k)' => AudioOf(p, k)' /\ (k \notin unstamped' => StampsOf(p, k)'),
           ~Writing(p, k)' => AudioAtRest(k)' /\ (k \notin unstamped' => StampsAtRest(k)')
    PROVE  KeyInv(k)'
<1>1. \A q \in Call \ {p} : ~Writing(q, k)'
  BY WritesOn DEF Others
<1>2. ~(k \in HalfEvicted)'
  BY DEF HalfEvicted, Others
<1>3. OneWriter(k)'
  BY <1>1, <1>2 DEF OneWriter
<1>4. FilesOf(k)'
  BY <1>1, <1>2 DEF FilesOf
<1> QED BY <1>3, <1>4 DEF KeyInv

LEMMA SoleWriter ==
    ASSUME NEW p \in Call, NEW k \in Key, KeyInv(k), Writing(p, k)
    PROVE  /\ k \notin HalfEvicted /\ \A q \in Call \ {p} : ~Writing(q, k)
           /\ AudioOf(p, k) /\ (k \notin unstamped => StampsOf(p, k))
BY DEF KeyInv, OneWriter, FilesOf

\* A call in generate() does not touch the files of a key that is not its own.
LEMMA OtherKeyKept ==
    ASSUME TypeOK, CallsInv, GensKept, NEW p \in Call, Others(p), NEW k \in Key, KeyInv(k),
           play[p].pc \in Loop \ {"delete"}, play'[p].pc # "delete", k # KeyOf(p),
           play'[p].on \in {play[p].on, None},
           mp3'[k] = mp3[k], meta'[k] = meta[k], stamps'[k] = stamps[k],
           k \notin unstamped' => k \notin unstamped,
           \A s \in Call \ {play[p].on} : gen'[s].words = gen[s].words
    PROVE  KeyInv(k)'
<1>1. play[p].on \in Call /\ Begun(play[p].on)
  BY Drives
<1>2. ~Writing(p, k)
  BY DEF Writing
<1>3. ~Writing(p, k)'
  <2>1. CASE play'[p].on = None
    BY <2>1 DEF Writing
  <2>2. CASE play'[p].on = play[p].on
    <3>1. KeyOf(p)' = KeyOf(p)
      BY <1>1, <2>2 DEF GensKept, KeyOf
    <3> QED BY <3>1 DEF Writing
  <2> QED BY <2>1, <2>2
<1>4. ASSUME NEW q \in Call \ {p}, Writing(q, k)
      PROVE  gen'[play[q].on].words = gen[play[q].on].words
  BY <1>4, Fresh DEF Writing, KeyOf, TypeOK, PlayState
<1> QED BY <1>2, <1>3, <1>4, QuietKept

----------------------------------------------------------------------------
(* What the actions do to the files of a key that is not torn. *)

LEMMA PlayFiles ==
    ASSUME TypeOK, CallsInv, NEW p \in Call, NEW j \in Key, Play(p, j),
           NEW k \in Key, KeyInv(k)
    PROVE  KeyInv(k)'
<1>1. Sound(p) /\ Disposes
  BY PlayKeeps, CleanupDisposes DEF Play
<1>2. play[p].pc = "none" /\ play'[p].pc = "stopping"
  BY DEF Play, TypeOK, NoPlay
<1>3. mp3' = mp3 /\ meta' = meta /\ stamps' = stamps /\ unstamped' = unstamped
  BY DEF Play, Hurry, files
<1>4. ASSUME NEW q \in Call \ {p}, Writing(q, k)
      PROVE  gen'[play[q].on].words = gen[play[q].on].words
  BY <1>1, <1>4 DEF Disposes, Writing, TypeOK, PlayState
<1> QED BY <1>1, <1>2, <1>3, <1>4, QuietKept DEF Sound, Writing

LEMMA LeaveFiles ==
    ASSUME TypeOK, CallsInv, NEW j \in Key \cup {NoKey}, Leave(j), NEW k \in Key, KeyInv(k)
    PROVE  KeyInv(k)'
<1>1. GensKept /\ Disposes
  BY LeaveKeeps, CleanupDisposes DEF Leave
<1>2. play' = play
  BY DEF Leave
<1>3. mp3' = mp3 /\ meta' = meta /\ stamps' = stamps /\ unstamped' = unstamped
  BY DEF Leave, Hurry, files
<1>4. ASSUME NEW q \in Call PROVE Steady(q, k)
  <2>1. Writing(q, k)' => gen'[play[q].on].words = gen[play[q].on].words
    BY <1>1, <1>2 DEF Disposes, Writing, TypeOK, PlayState
  <2> QED BY <1>1, <1>2, <2>1, LeftAlone
<1>5. HalfEvicted' = HalfEvicted
  BY <1>2 DEF HalfEvicted
<1> QED BY <1>3, <1>4, <1>5, KeyInvKept

LEMMA BeginFiles ==
    ASSUME TypeOK, CallsInv, NEW p \in Call, Begin(p), NEW k \in Key, KeyInv(k)
    PROVE  KeyInv(k)'
<1>1. Sound(p) /\ play[p].pc = "stopping" /\ play'[p].pc = "checking"
  BY BeginKeeps, GotoMoves DEF Begin, Moves, Early
<1>2. mp3' = mp3 /\ meta' = meta /\ stamps' = stamps /\ unstamped' = unstamped
  BY DEF Begin, files, history
<1>3. ASSUME NEW q \in Call \ {p}, Writing(q, k)
      PROVE  gen'[play[q].on].words = gen[play[q].on].words
  <2>1. play[q].on \in Call /\ Begun(play[q].on)
    BY <1>3 DEF Writing, TypeOK, PlayState, CallsInv, CallInv
  <2>2. play[q].on # p
    BY <1>1, <2>1 DEF Begun
  <2> QED BY <2>1, <2>2 DEF Begin, TypeOK
<1> QED BY <1>1, <1>2, <1>3, QuietKept DEF Sound, Writing

LEMMA PlayFromFileFiles ==
    ASSUME TypeOK, CallsInv, NEW p \in Call, PlayFromFile(p), NEW k \in Key, KeyInv(k)
    PROVE  KeyInv(k)'
<1>1. Sound(p) /\ play[p].pc = "checking" /\ play[p].on = None /\ play[p] \in PlayState
  BY PlayFromFileKeeps DEF PlayFromFile, CallsInv, CallInv, TypeOK
<1>2. play'[p].pc = "open" /\ play'[p].on = None
  BY <1>1 DEF PlayFromFile, Open, TypeOK, PlayState
<1>3. mp3' = mp3 /\ meta' = meta /\ stamps' = stamps /\ unstamped' = unstamped /\ gen' = gen
  BY DEF PlayFromFile, files, history
<1> QED BY <1>1, <1>2, <1>3, QuietKept DEF Sound, Writing

LEMMA OpenedFiles ==
    ASSUME TypeOK, CallsInv, NEW p \in Call, Opened(p), NEW k \in Key, KeyInv(k)
    PROVE  KeyInv(k)'
<1>1. Sound(p) /\ play[p].pc = "open" /\ CallInv(p)
      /\ play[p].next \in {"done", "infer", "finish"} /\ play[p].on \in Call \cup {None}
  BY OpenedKeeps DEF Opened, CallsInv, TypeOK, PlayState
<1>2. Moves(p, play[p].next)
  BY <1>1, GotoMoves DEF Opened, Loop
<1>3. mp3' = mp3 /\ meta' = meta /\ stamps' = stamps /\ unstamped' = unstamped /\ gen' = gen
  BY DEF Opened, files, history
<1>4. ASSUME NEW q \in Call \ {p} PROVE Steady(q, k)
  BY <1>1, <1>3, LeftAlone DEF Sound, Others
<1>5. Steady(p, k)
  <2>1. CASE play[p].next = "done"
    BY <1>1, <1>2, <2>1 DEF Steady, Moves, Writing
  <2>2. CASE play[p].next # "done"
    <3>1. KeyOf(p)' = KeyOf(p)
      BY <1>2, <1>3, <2>2 DEF Moves, KeyOf
    <3> QED BY <1>1, <1>2, <1>3, <2>2, <3>1 DEF Steady, Moves, Writing, Written, Spoken
  <2> QED BY <2>1, <2>2
<1>6. (k \in HalfEvicted)' <=> k \in HalfEvicted
  BY <1>1, <1>2, HalfEvictedKept DEF Sound, Moves
<1> QED BY <1>3, <1>4, <1>5, <1>6, KeyInvKept

LEMMA GenerateFiles ==
    ASSUME TypeOK, CallsInv, NEW p \in Call, Generate(p), NEW k \in Key, KeyInv(k)
    PROVE  KeyInv(k)'
<1>1. Sound(p) /\ play[p].pc = "checking"
  BY GenerateKeeps DEF Generate
<1>2. mp3' = mp3 /\ meta' = meta /\ stamps' = stamps /\ unstamped' = unstamped
  BY DEF Generate, files, history
<1>3. play'[p].pc \in {"done", "init"}
  <2>1. CASE session = None
    BY <2>1, GotoMoves DEF Generate, Moves
  <2>2. CASE session # None
    <3>1. play' = [play EXCEPT ![p] = [play[p] EXCEPT !.pc = "init", !.on = session]]
      BY <2>2 DEF Generate, TypeOK
    <3> QED BY <3>1 DEF TypeOK, PlayState
  <2> QED BY <2>1, <2>2
<1>4. gen' = gen \/ Disposes
  BY CleanupDisposes DEF Generate
<1>5. ASSUME NEW q \in Call \ {p}, Writing(q, k)
      PROVE  gen'[play[q].on].words = gen[play[q].on].words
  BY <1>4, <1>5 DEF Disposes, Writing, TypeOK, PlayState
<1> QED BY <1>1, <1>2, <1>3, <1>5, QuietKept DEF Sound, Writing

LEMMA DoneFiles ==
    ASSUME TypeOK, CallsInv, NEW p \in Call, Done(p), NEW k \in Key, KeyInv(k)
    PROVE  KeyInv(k)'
<1>1. Sound(p) /\ play[p].pc = "evict"
  BY DoneKeeps DEF Done
<1>2. mp3' = mp3 /\ meta' = meta /\ stamps' = stamps /\ unstamped' = unstamped
  BY DEF Done, files, history
<1>3. Moves(p, "done") /\ (gen' = gen \/ Disposes)
  <2>1. CASE gen[play[p].on].live
    BY <2>1, GotoMoves DEF Done
  <2>2. CASE ~gen[play[p].on].live
    BY <2>2, GotoMoves, CleanupDisposes DEF Done, Fails
  <2> QED BY <2>1, <2>2
<1>4. ASSUME NEW q \in Call \ {p}, Writing(q, k)
      PROVE  gen'[play[q].on].words = gen[play[q].on].words
  BY <1>3, <1>4 DEF Disposes, Writing, TypeOK, PlayState
<1> QED BY <1>1, <1>2, <1>3, <1>4, QuietKept DEF Sound, Writing, Moves

LEMMA UpToGrows ==
    ASSUME NEW seq \in Seq(Chunk), NEW n \in Nat, UpTo(seq, n)
    PROVE  UpTo(Append(seq, n + 1), n + 1)
BY DEF UpTo

\* The types of what a writer of k has at hand.
LEMMA WriterTypes ==
    ASSUME TypeOK, CallsInv, NEW p \in Call, play[p].pc \in Loop
    PROVE  /\ play[p].on \in Call /\ play[p].i \in 1..Chunks + 1
           /\ play[p].pc \in {"infer", "write", "meta", "stamp"} => play[p].i \in Chunk
           /\ KeyOf(p) \in Key /\ KeyOf(p) = gen[play[p].on].key
           /\ mp3[KeyOf(p)] \in Seq(Chunk) /\ stamps[KeyOf(p)] \in Seq(Chunk)
           /\ gen[play[p].on].words \in Seq(Chunk)
BY Drives DEF TypeOK, PlayState, GenState, CallInv, KeyOf

LEMMA InferFiles ==
    ASSUME TypeOK, CallsInv, NEW p \in Call, Infer(p), NEW k \in Key, KeyInv(k)
    PROVE  KeyInv(k)'
<1>1. Sound(p) /\ play[p].pc = "infer" /\ play[p].pc \in Loop
  BY InferKeeps DEF Infer, Loop
<1>2. mp3' = mp3 /\ meta' = meta /\ stamps' = stamps /\ unstamped' = unstamped
  BY DEF Infer, files, history
<1>3. play[p].on \in Call /\ play[p].i \in Chunk /\ gen[play[p].on] \in GenState
      /\ Begun(play[p].on)
  BY <1>1, WriterTypes, Drives
<1>4. CASE ~gen[play[p].on].live
  <2>1. Moves(p, "done") /\ gen' = gen
    BY <1>4, GotoMoves DEF Infer
  <2> QED BY <1>1, <1>2, <1>4, <2>1, QuietKept DEF Sound, Moves, Writing
<1>5. CASE gen[play[p].on].live
  <2>1. Moves(p, "write")
        /\ gen' = [gen EXCEPT ![play[p].on] =
                     [gen[play[p].on] EXCEPT !.words = Append(@, play[p].i)]]
    BY <1>3, <1>5, GotoMoves DEF Infer, Loop, TypeOK
  <2>2. /\ gen'[play[p].on].words = Append(gen[play[p].on].words, play[p].i)
        /\ gen'[play[p].on].key = gen[play[p].on].key
        /\ \A s \in Call \ {play[p].on} : gen'[s].words = gen[s].words
    BY <1>3, <2>1 DEF TypeOK, GenState
  <2>3. CASE k # KeyOf(p)
    BY <1>1, <1>2, <2>1, <2>2, <2>3, OtherKeyKept DEF Sound, Moves
  <2>4. CASE k = KeyOf(p)
    <3>1. Writing(p, k)
      BY <1>1, <1>3, <1>5, <2>4, Fresh DEF Writing
    <3>2. k \notin HalfEvicted /\ (\A q \in Call \ {p} : ~Writing(q, k))
          /\ AudioOf(p, k) /\ (k \notin unstamped => StampsOf(p, k))
      BY <3>1, SoleWriter
    <3>3. Written(p) = play[p].i - 1 /\ Written(p)' = play[p].i - 1
          /\ Spoken(p) = play[p].i - 1 /\ Spoken(p)' = play[p].i
      BY <1>1, <2>1 DEF Written, Spoken, Moves
    <3>4. AudioOf(p, k)'
      BY <1>1, <1>2, <2>1, <3>2, <3>3 DEF AudioOf, Moves
    <3>5. StampsOf(p, k) => StampsOf(p, k)'
      <4>1. PICK n \in Nat : n = play[p].i - 1
        BY <1>3, SpeechAssumption DEF Chunk
      <4>2. gen[play[p].on].words \in Seq(Chunk) /\ play[p].i = n + 1
        BY <1>3, <4>1 DEF GenState, Chunk
      <4>3. UpTo(gen[play[p].on].words, n) => UpTo(gen'[play[p].on].words, n + 1)
        BY <2>2, <4>2, UpToGrows
      <4> QED BY <1>1, <1>2, <2>1, <3>3, <4>1, <4>2, <4>3 DEF StampsOf, Moves, UpTo
    <3>6. Writing(p, k)'
      BY <1>3, <2>1, <2>2, <2>4, Fresh DEF Writing, Moves, KeyOf
    <3> QED BY <1>1, <1>2, <2>1, <3>2, <3>4, <3>5, <3>6, WriterKept DEF Sound, Moves
  <2> QED BY <2>3, <2>4
<1> QED BY <1>4, <1>5

LEMMA WriteChunkFiles ==
    ASSUME TypeOK, CallsInv, NEW p \in Call, WriteChunk(p), NEW k \in Key, KeyInv(k)
    PROVE  KeyInv(k)'
<1>1. Sound(p) /\ play[p].pc = "write" /\ play[p].pc \in Loop
  BY WriteChunkKeeps DEF WriteChunk, Loop
<1>2. meta' = meta /\ stamps' = stamps /\ unstamped' = unstamped /\ gen' = gen
  BY DEF WriteChunk, player, history
<1>3. play[p].on \in Call /\ play[p].i \in Chunk /\ KeyOf(p) \in Key
      /\ mp3[KeyOf(p)] \in Seq(Chunk)
  BY <1>1, WriterTypes
<1>4. Moves(p, "meta")
  BY GotoMoves DEF WriteChunk, Loop
<1>5. CASE k # KeyOf(p)
  <2>1. mp3'[k] = mp3[k]
    BY <1>5 DEF WriteChunk, TypeOK
  <2> QED BY <1>1, <1>2, <1>4, <1>5, <2>1, OtherKeyKept DEF Sound, Moves
<1>6. CASE k = KeyOf(p)
  <2>1. Writing(p, k)
    BY <1>1, <1>3, <1>6, Fresh DEF Writing
  <2>2. k \notin HalfEvicted /\ (\A q \in Call \ {p} : ~Writing(q, k))
        /\ AudioOf(p, k) /\ (k \notin unstamped => StampsOf(p, k))
    BY <2>1, SoleWriter
  <2>3. Written(p) = play[p].i - 1 /\ Written(p)' = play[p].i
        /\ Spoken(p) = play[p].i /\ Spoken(p)' = play[p].i
    BY <1>1, <1>4 DEF Written, Spoken, Moves
  <2>4. PICK n \in Nat : n = play[p].i - 1
    BY <1>3, SpeechAssumption DEF Chunk
  <2>5. mp3'[k] = Append(mp3[k], n + 1) /\ play[p].i = n + 1
    BY <1>3, <1>6, <2>4 DEF WriteChunk, TypeOK, Chunk
  <2>6. UpTo(mp3'[k], n + 1)
    BY <1>3, <1>6, <2>2, <2>3, <2>4, <2>5, UpToGrows DEF AudioOf
  <2>7. AudioOf(p, k)'
    BY <1>4, <2>3, <2>5, <2>6 DEF AudioOf, Moves, UpTo
  <2>8. StampsOf(p, k) => StampsOf(p, k)'
    BY <1>2, <1>4, <2>3 DEF StampsOf, Moves
  <2>9. Writing(p, k)'
    BY <1>2, <1>4, <2>1 DEF Writing, Moves, KeyOf
  <2> QED BY <1>1, <1>2, <1>4, <2>2, <2>7, <2>8, <2>9, WriterKept DEF Sound, Moves
<1> QED BY <1>5, <1>6

LEMMA WriteMetaFiles ==
    ASSUME TypeOK, CallsInv, NEW p \in Call, WriteMeta(p), NEW k \in Key, KeyInv(k)
    PROVE  KeyInv(k)'
<1>1. Sound(p) /\ play[p].pc = "meta" /\ play[p].pc \in Loop
  BY WriteMetaKeeps DEF WriteMeta, Loop
<1>2. mp3' = mp3 /\ stamps' = stamps /\ meta' = [meta EXCEPT ![KeyOf(p)] = play[p].i]
  BY DEF WriteMeta
<1>3. play[p].on \in Call /\ play[p].i \in Chunk /\ KeyOf(p) \in Key
      /\ mp3[KeyOf(p)] \in Seq(Chunk)
  BY <1>1, WriterTypes
<1>4. \/ gen[play[p].on].live /\ Moves(p, "stamp") /\ gen' = gen /\ unstamped' = unstamped
      \/ ~gen[play[p].on].live /\ Moves(p, "done") /\ Disposes
         /\ unstamped' = unstamped \cup {KeyOf(p)}
  <2>1. CASE gen[play[p].on].live
    <3>1. Goto(p, "stamp") /\ gen' = gen /\ unstamped' = unstamped
      BY <2>1 DEF WriteMeta
    <3> QED BY <2>1, <3>1, GotoMoves DEF Loop
  <2>2. CASE ~gen[play[p].on].live
    <3>1. Goto(p, "done") /\ Cleanup /\ unstamped' = unstamped \cup {KeyOf(p)}
      BY <2>2 DEF WriteMeta, Fails
    <3> QED BY <2>2, <3>1, GotoMoves, CleanupDisposes
  <2> QED BY <2>1, <2>2
<1>5. CASE k # KeyOf(p)
  <2>1. meta'[k] = meta[k] /\ (k \notin unstamped' => k \notin unstamped)
    BY <1>2, <1>4, <1>5 DEF TypeOK
  <2>2. \A s \in Call : gen'[s].words = gen[s].words
    BY <1>4 DEF Disposes
  <2>3. play'[p].pc # "delete" /\ play'[p].on \in {play[p].on, None}
    BY <1>4 DEF Moves
  <2> QED BY <1>1, <1>2, <1>5, <2>1, <2>2, <2>3, OtherKeyKept DEF Sound
<1>6. CASE k = KeyOf(p)
  <2>1. Writing(p, k)
    BY <1>1, <1>3, <1>6, Fresh DEF Writing
  <2>2. k \notin HalfEvicted /\ (\A q \in Call \ {p} : ~Writing(q, k))
        /\ AudioOf(p, k) /\ (k \notin unstamped => StampsOf(p, k))
    BY <2>1, SoleWriter
  <2>3. meta'[k] = play[p].i /\ Written(p) = play[p].i /\ Spoken(p) = play[p].i
    BY <1>1, <1>2, <1>3, <1>6 DEF TypeOK, Written, Spoken
  <2>4. CASE gen[play[p].on].live
    <3>1. Written(p)' = play[p].i /\ Spoken(p)' = play[p].i
      BY <1>4, <2>4 DEF Written, Spoken, Moves
    <3>2. AudioOf(p, k)'
      BY <1>2, <1>4, <2>2, <2>3, <2>4, <3>1 DEF AudioOf, Moves, UpTo
    <3>3. StampsOf(p, k) => StampsOf(p, k)'
      BY <1>4, <2>3, <2>4, <3>1 DEF StampsOf, Moves
    <3>4. Writing(p, k)'
      BY <1>4, <2>1, <2>4 DEF Writing, Moves, KeyOf
    <3> QED BY <1>1, <1>4, <2>2, <2>4, <3>2, <3>3, <3>4, WriterKept DEF Sound, Moves
  <2>5. CASE ~gen[play[p].on].live
    <3>1. play'[p].pc = "done" /\ k \in unstamped'
      BY <1>4, <1>6, <2>5 DEF Moves
    <3>2. ~Writing(p, k)'
      BY <3>1 DEF Writing
    <3>3. AudioAtRest(k)'
      BY <1>2, <1>3, <1>6, <2>2, <2>3 DEF AudioAtRest, AudioOf, UpTo
    <3> QED BY <1>1, <2>2, <3>1, <3>2, <3>3, WriterKept DEF Sound
  <2> QED BY <2>4, <2>5
<1> QED BY <1>5, <1>6

LEMMA SaveTimestampsFiles ==
    ASSUME TypeOK, CallsInv, NEW p \in Call, SaveTimestamps(p), NEW k \in Key, KeyInv(k)
    PROVE  KeyInv(k)'
<1>1. Sound(p) /\ play[p].pc = "stamp" /\ play[p].pc \in Loop
  BY SaveTimestampsKeeps DEF SaveTimestamps, Loop
<1>2. mp3' = mp3 /\ meta' = meta /\ unstamped' = unstamped
      /\ stamps' = [stamps EXCEPT ![KeyOf(p)] = gen[play[p].on].words]
  BY DEF SaveTimestamps, history
<1>3. play[p].on \in Call /\ play[p].i \in Chunk /\ KeyOf(p) \in Key
      /\ mp3[KeyOf(p)] \in Seq(Chunk)
  BY <1>1, WriterTypes
<1>4. \/ gen[play[p].on].live /\ Onwards(p) /\ gen' = gen
      \/ ~gen[play[p].on].live /\ Moves(p, "done") /\ (gen' = gen \/ Disposes)
  BY SavesOn, SavesLast
<1>5. play'[p].pc \in {"open", "infer", "finish", "done"} /\ play'[p].on \in {play[p].on, None}
      /\ \A s \in Call : gen'[s].words = gen[s].words
  BY <1>4 DEF Moves, Onwards, Disposes
<1>6. CASE k # KeyOf(p)
  <2>1. stamps'[k] = stamps[k]
    BY <1>2, <1>6 DEF TypeOK
  <2> QED BY <1>1, <1>2, <1>5, <1>6, <2>1, OtherKeyKept DEF Sound
<1>7. CASE k = KeyOf(p)
  <2>1. Writing(p, k)
    BY <1>1, <1>3, <1>7, Fresh DEF Writing
  <2>2. k \notin HalfEvicted /\ (\A q \in Call \ {p} : ~Writing(q, k))
        /\ AudioOf(p, k) /\ (k \notin unstamped => StampsOf(p, k))
    BY <2>1, SoleWriter
  <2>3. stamps'[k] = gen[play[p].on].words /\ Written(p) = play[p].i /\ Spoken(p) = play[p].i
        /\ play[p].i > 0 /\ play[p].i \in Nat
    BY <1>1, <1>2, <1>3, <1>7, SpeechAssumption DEF TypeOK, Written, Spoken, Chunk
  <2>4. UpTo(mp3[k], play[p].i) /\ meta[k] = play[p].i
        /\ (k \notin unstamped => UpTo(stamps'[k], play[p].i))
    BY <1>1, <2>2, <2>3 DEF AudioOf, StampsOf
  <2>5. CASE gen[play[p].on].live
    <3>1. Onwards(p) /\ gen' = gen
      BY <1>4, <2>5
    <3>2. play'[p].pc \in {"open", "infer", "finish"}
      BY <3>1 DEF Onwards
    <3>3. Written(p)' = play[p].i /\ Spoken(p)' = play[p].i
      BY <2>3, <3>1, <3>2 DEF Written, Spoken, Onwards
    <3>4. AudioOf(p, k)'
      BY <1>2, <2>4, <3>3 DEF AudioOf, UpTo
    <3>5. k \notin unstamped' => StampsOf(p, k)'
      BY <1>2, <2>3, <2>4, <3>1, <3>3 DEF StampsOf, Onwards, UpTo
    <3>6. Writing(p, k)'
      BY <2>1, <2>5, <3>1, <3>2 DEF Writing, Onwards, KeyOf
    <3> QED BY <1>1, <2>2, <3>2, <3>4, <3>5, <3>6, WriterKept DEF Sound
  <2>6. CASE ~gen[play[p].on].live
    <3>1. play'[p].pc = "done"
      BY <1>4, <2>6 DEF Moves
    <3>2. ~Writing(p, k)'
      BY <3>1 DEF Writing
    <3>3. AudioAtRest(k)' /\ (k \notin unstamped' => StampsAtRest(k)')
      BY <1>2, <2>4 DEF AudioAtRest, StampsAtRest, UpTo
    <3> QED BY <1>1, <2>2, <3>1, <3>2, <3>3, WriterKept DEF Sound
  <2> QED BY <2>5, <2>6
<1> QED BY <1>6, <1>7

LEMMA FinalizeFiles ==
    ASSUME TypeOK, CallsInv, NEW p \in Call, Finalize(p), NEW k \in Key, KeyInv(k)
    PROVE  KeyInv(k)'
<1>1. Sound(p) /\ play[p].pc = "finish" /\ play[p].pc \in Loop
  BY FinalizeKeeps DEF Finalize, Loop
<1>2. mp3' = mp3 /\ unstamped' = unstamped /\ gen' = gen
  BY DEF Finalize, player, history
<1>3. play[p].on \in Call /\ play[p].i = Chunks + 1 /\ KeyOf(p) \in Key
      /\ mp3[KeyOf(p)] \in Seq(Chunk)
  BY <1>1, WriterTypes, Drives DEF CallInv
<1>4. CASE ~gen[play[p].on].live
  <2>1. Moves(p, "done") /\ meta' = meta /\ stamps' = stamps
    BY <1>4, GotoMoves DEF Finalize
  <2> QED BY <1>1, <1>2, <1>4, <2>1, QuietKept DEF Sound, Moves, Writing
<1>5. CASE gen[play[p].on].live
  <2>1. Moves(p, "evict") /\ meta' = [meta EXCEPT ![KeyOf(p)] = NoMeta]
        /\ stamps' = [stamps EXCEPT ![KeyOf(p)] = gen[play[p].on].words]
    BY <1>5, GotoMoves DEF Finalize, Loop
  <2>2. CASE k # KeyOf(p)
    <3>1. meta'[k] = meta[k] /\ stamps'[k] = stamps[k]
      BY <2>1, <2>2 DEF TypeOK
    <3> QED BY <1>1, <1>2, <2>1, <2>2, <3>1, OtherKeyKept DEF Sound, Moves
  <2>3. CASE k = KeyOf(p)
    <3>1. Writing(p, k)
      BY <1>1, <1>3, <1>5, <2>3, Fresh DEF Writing
    <3>2. k \notin HalfEvicted /\ (\A q \in Call \ {p} : ~Writing(q, k))
          /\ AudioOf(p, k) /\ (k \notin unstamped => StampsOf(p, k))
      BY <3>1, SoleWriter
    <3>3. meta'[k] = NoMeta /\ stamps'[k] = gen[play[p].on].words
      BY <1>3, <2>1, <2>3 DEF TypeOK
    <3>4. Written(p) = Chunks /\ Spoken(p) = Chunks
      BY <1>1, <1>3, SpeechAssumption DEF Written, Spoken
    <3>5. AudioAtRest(k)' /\ (k \notin unstamped' => StampsAtRest(k)')
      BY <1>2, <3>2, <3>3, <3>4 DEF AudioOf, StampsOf, AudioAtRest, StampsAtRest, UpTo
    <3>6. ~Writing(p, k)' /\ play'[p].pc # "delete"
      BY <2>1 DEF Writing, Moves
    <3> QED BY <1>1, <3>2, <3>5, <3>6, WriterKept DEF Sound
  <2> QED BY <2>2, <2>3
<1> QED BY <1>4, <1>5

LEMMA WritersAtWork ==
    ASSUME NEW q \in Call, NEW k \in Key, Writing(q, k)
    PROVE  AtWork(q, k)
BY DEF Writing, AtWork, Loop

LEMMA EvictFiles ==
    ASSUME TypeOK, CallsInv, NEW p \in Call, Evict(p), NEW k \in Key, KeyInv(k), k \notin torn'
    PROVE  KeyInv(k)'
<1>1. Sound(p) /\ play[p].pc = "evict" /\ play[p].pc \in Loop
  BY EvictKeeps DEF Evict, Loop
<1>2. mp3' = mp3 /\ gen' = gen /\ unstamped' = unstamped
  BY DEF Evict, player
<1>3. PICK v \in Key :
             /\ play'[p].pc = "delete" /\ play'[p].victim = v
             /\ meta' = [meta EXCEPT ![v] = NoMeta] /\ stamps' = [stamps EXCEPT ![v] = <<>>]
             /\ torn' = torn \cup {j \in {v} : \E q \in Call \ {p} : AtWork(q, v)}
  BY EvictMarks
<1>4. ~Writing(p, k) /\ ~Writing(p, k)'
  BY <1>1, <1>3 DEF Writing
<1>5. CASE k # v
  <2>1. meta'[k] = meta[k] /\ stamps'[k] = stamps[k]
    BY <1>3, <1>5 DEF TypeOK
  <2> QED BY <1>1, <1>2, <1>3, <1>4, <1>5, <2>1, QuietKept DEF Sound
<1>6. CASE k = v
  <2>1. \A q \in Call \ {p} : ~Writing(q, k)
    BY <1>3, <1>6, WritersAtWork
  <2>2. \A q \in Call : ~Writing(q, k)'
    BY <1>1, <1>4, <2>1, WritesOn DEF Sound, Others
  <2>3. (k \in HalfEvicted)'
    BY <1>3, <1>6 DEF HalfEvicted
  <2> QED BY <2>2, <2>3 DEF KeyInv, OneWriter, FilesOf
<1> QED BY <1>5, <1>6

\* A file that is deleted while no other call is at work on it is as good as new:
\* this is the only step that mends a torn key.
LEMMA DeleteFiles ==
    ASSUME TypeOK, CallsInv, NEW p \in Call, Delete(p), NEW k \in Key,
           k \notin torn => KeyInv(k), k \notin torn'
    PROVE  KeyInv(k)'
<1>1. Sound(p) /\ play[p].pc = "delete" /\ play[p].victim \in Key
  BY DeleteKeeps, Drives DEF Delete, CallInv, Loop
<1>2. meta' = meta /\ stamps' = stamps /\ gen' = gen /\ play'[p].pc = "evict"
  BY DeleteUnmarks DEF Delete, player
<1>3. ~Writing(p, k) /\ ~Writing(p, k)'
  BY <1>1, <1>2 DEF Writing
<1>4. CASE k # play[p].victim
  <2>1. mp3'[k] = mp3[k] /\ k \notin torn /\ (k \notin unstamped' => k \notin unstamped)
    BY <1>4 DEF Delete, TypeOK
  <2> QED BY <1>1, <1>2, <1>3, <1>4, <2>1, QuietKept DEF Sound
<1>5. CASE k = play[p].victim
  <2>1. mp3'[k] = <<>>
    BY <1>5 DEF Delete, TypeOK
  <2>2. \A q \in Call \ {p} : ~Writing(q, k)
    <3>1. CASE k \in torn
      BY <1>5, <3>1, WritersAtWork DEF Delete
    <3>2. CASE k \notin torn
      BY <1>1, <1>5, <3>2 DEF KeyInv, OneWriter, HalfEvicted
    <3> QED BY <3>1, <3>2
  <2>3. \A q \in Call : ~Writing(q, k)'
    BY <1>1, <1>3, <2>2, WritesOn DEF Sound, Others
  <2>4. AudioAtRest(k)' /\ StampsAtRest(k)'
    BY <2>1 DEF AudioAtRest, StampsAtRest
  <2> QED BY <2>3, <2>4 DEF KeyInv, OneWriter, FilesOf
<1> QED BY <1>4, <1>5

\* A new writer of a key that stays whole finds the key's files at rest, not
\* complete, and starts where they end.
LEMMA InitAudioFileFiles ==
    ASSUME TypeOK, CallsInv, WaitingInv, NEW p \in Call, InitAudioFile(p),
           NEW k \in Key, KeyInv(k), k \notin torn'
    PROVE  KeyInv(k)'
<1>1. Sound(p) /\ play[p].pc = "init" /\ play[p].pc \in Loop /\ play[p].i = 1
      /\ Begun(play[p].on) /\ play[p] \in PlayState
  BY InitAudioFileKeeps, Drives DEF InitAudioFile, Loop, CallInv
<1>2. mp3' = mp3 /\ meta' = meta /\ stamps' = stamps /\ unstamped' = unstamped
  BY DEF InitAudioFile, files
<1>3. play[p].on \in Call /\ KeyOf(p) \in Key /\ mp3[KeyOf(p)] \in Seq(Chunk)
      /\ stamps[KeyOf(p)] \in Seq(Chunk) /\ gen[play[p].on] \in GenState
      /\ gen[play[p].on].words \in Seq(Chunk)
  BY <1>1, WriterTypes, Drives
<1>4. ~Writing(p, k)
  BY <1>1 DEF Writing
<1>5. CASE ~gen[play[p].on].live
  <2>1. Moves(p, "done") /\ gen' = gen
    BY <1>5, GotoMoves DEF InitAudioFile
  <2> QED BY <1>1, <1>2, <1>4, <2>1, QuietKept DEF Sound, Moves, Writing
<1> DEFINE then == IF meta[KeyOf(p)] = Chunks THEN "finish" ELSE "infer"
<1>6. ASSUME gen[play[p].on].live, Resumable(KeyOf(p))
      PROVE  /\ play'[p].pc = "open" /\ play'[p].on = play[p].on
             /\ play'[p].i = meta[KeyOf(p)] + 1
             /\ gen'[play[p].on].words = stamps[KeyOf(p)]
             /\ gen'[play[p].on].key = gen[play[p].on].key
             /\ gen'[play[p].on].live
             /\ \A s \in Call \ {play[p].on} : gen'[s].words = gen[s].words
  <2>1. play' = [play EXCEPT ![p] = [play[p] EXCEPT
                   !.pc = "open", !.i = StartIndex(KeyOf(p)), !.told = TRUE, !.next = then]]
        /\ gen' = [gen EXCEPT ![play[p].on] =
                     [gen[play[p].on] EXCEPT !.words = ResumedWords(KeyOf(p))]]
    BY <1>3, <1>6 DEF InitAudioFile, TypeOK
  <2> HIDE DEF then
  <2> QED BY <1>1, <1>3, <1>6, <2>1 DEF TypeOK, PlayState, GenState, StartIndex, ResumedWords
<1>7. ASSUME gen[play[p].on].live, ~Resumable(KeyOf(p))
      PROVE  Moves(p, "infer") /\ gen' = gen
  BY <1>7, GotoMoves DEF InitAudioFile, Loop
<1>8. CASE gen[play[p].on].live /\ k # KeyOf(p)
  <2>1. CASE Resumable(KeyOf(p))
    BY <1>1, <1>2, <1>6, <1>8, <2>1, OtherKeyKept DEF Sound
  <2>2. CASE ~Resumable(KeyOf(p))
    BY <1>1, <1>2, <1>7, <1>8, <2>2, OtherKeyKept DEF Sound, Moves
  <2> QED BY <2>1, <2>2
<1>9. CASE gen[play[p].on].live /\ k = KeyOf(p)
  <2>1. \A q \in Call \ {p} : ~AtWork(q, k)
    BY <1>9 DEF InitAudioFile
  <2>2. k \notin torn /\ k \notin HalfEvicted /\ k \notin At({"meta"})
    <3>1. k \notin torn
      BY DEF InitAudioFile
    <3>2. k \notin HalfEvicted
      BY <1>1, <2>1 DEF HalfEvicted, AtWork
    <3>3. k \notin At({"meta"})
      BY <1>1, <2>1, Drives, Fresh DEF At, AtWork, Loop
    <3> QED BY <3>1, <3>2, <3>3
  <2>3. ~Complete(k) /\ gen[play[p].on].words = <<>>
    <3>1. CASE hurries = 0
      <4>1. Waiting
        BY <3>1 DEF WaitingInv
      <4>2. WaitingCall(p) /\ play[p].on = p
        BY <1>1, <4>1, WaitingInLoop
      <4> QED BY <1>1, <1>9, <2>2, <4>2 DEF WaitingCall, Usable, Troubled
    <3>2. CASE hurries # 0
      <4>1. hurries > 0
        BY <3>2 DEF TypeOK
      <4> QED BY <1>9, <4>1 DEF InitAudioFile
    <3> QED BY <3>1, <3>2
  <2>4. \A q \in Call \ {p} : ~Writing(q, k)
    BY <2>1, WritersAtWork
  <2>5. AudioAtRest(k) /\ (k \notin unstamped => StampsAtRest(k))
    BY <1>4, <2>2, <2>4 DEF KeyInv, FilesOf
  <2>6. PICK n \in Nat : n = Len(mp3[k])
    BY <1>3, <1>9
  <2>7. n > 0 => UpTo(mp3[k], n) /\ meta[k] = n /\ n \in Chunk /\ Resumable(k)
    <3> SUFFICES ASSUME n > 0 PROVE UpTo(mp3[k], n) /\ meta[k] = n /\ n \in Chunk /\ Resumable(k)
      OBVIOUS
    <3>1. mp3[k] # <<>> /\ mp3[k][n] \in Chunk
      BY <1>3, <1>9, <2>6
    <3>2. UpTo(mp3[k], n) /\ meta[k] = n
      BY <2>3, <2>5, <2>6, <3>1 DEF AudioAtRest, Complete
    <3>3. mp3[k][n] = n
      BY <3>2 DEF UpTo
    <3> QED BY <3>1, <3>2, <3>3 DEF Resumable
  <2>8. CASE Resumable(k)
    <3>1. n > 0 /\ UpTo(mp3[k], n) /\ meta[k] = n
      BY <1>3, <1>9, <2>6, <2>7, <2>8 DEF Resumable
    <3>2. /\ play'[p].pc = "open" /\ play'[p].i = n + 1 /\ play'[p].on = play[p].on
          /\ gen'[play[p].on].words = stamps[k]
          /\ gen'[play[p].on].key = k /\ gen'[play[p].on].live
      BY <1>3, <1>6, <1>9, <2>8, <3>1 DEF KeyOf
    <3>3. Written(p)' = n /\ Spoken(p)' = n
      BY <3>2 DEF Written, Spoken
    <3>4. AudioOf(p, k)'
      BY <1>2, <3>1, <3>3 DEF AudioOf, UpTo
    <3>5. k \notin unstamped => UpTo(stamps[k], n)
      BY <2>5, <2>6, <3>1 DEF StampsAtRest
    <3>6. k \notin unstamped' => StampsOf(p, k)'
      BY <1>2, <3>2, <3>3, <3>5 DEF StampsOf, UpTo
    <3>7. Writing(p, k)'
      BY <1>3, <3>2, Fresh DEF Writing, KeyOf
    <3> QED BY <1>1, <2>2, <2>4, <3>2, <3>4, <3>6, <3>7, WriterKept DEF Sound
  <2>9. CASE ~Resumable(k)
    <3>1. n = 0 /\ Moves(p, "infer") /\ gen' = gen
      BY <1>7, <1>9, <2>7, <2>9
    <3>2. Written(p)' = 0 /\ Spoken(p)' = 0
      BY <1>1, <3>1 DEF Written, Spoken, Moves
    <3>3. AudioOf(p, k)'
      BY <1>2, <2>6, <3>1, <3>2 DEF AudioOf, UpTo
    <3>4. StampsOf(p, k)'
      BY <2>3, <3>1, <3>2 DEF StampsOf, UpTo, Moves
    <3>5. Writing(p, k)'
      BY <1>3, <1>9, <3>1, Fresh DEF Writing, KeyOf, Moves
    <3> QED BY <1>1, <2>2, <2>4, <3>1, <3>3, <3>4, <3>5, WriterKept DEF Sound, Moves
  <2> QED BY <2>8, <2>9
<1> QED BY <1>5, <1>8, <1>9

\* When the app dies every writer stops; a key whose .meta was being written, or
\* that was being evicted, is torn.
LEMMA CrashFiles ==
    ASSUME TypeOK, CallsInv, Crash, NEW k \in Key, KeyInv(k), k \notin torn'
    PROVE  KeyInv(k)'
<1>1. \A q \in Call : play'[q].on = None /\ play'[q].pc \in {"none", "done"}
  BY DEF Crash, NoPlay
<1>2. k \notin HalfEvicted /\ k \notin At({"meta"})
  BY DEF Crash
<1>3. mp3'[k] = mp3[k] /\ meta'[k] = meta[k] /\ stamps'[k] = stamps[k]
  BY <1>2 DEF Crash
<1>4. unstamped' = unstamped \cup At({"stamp"})
  BY DEF Crash
<1>5. AudioAtRest(k) /\ (k \notin unstamped' => StampsAtRest(k))
  <2>1. CASE \A q \in Call : ~Writing(q, k)
    BY <1>2, <1>4, <2>1 DEF KeyInv, FilesOf
  <2>2. ASSUME NEW q \in Call, Writing(q, k)
        PROVE  AudioAtRest(k) /\ (k \notin unstamped' => StampsAtRest(k))
    <3>1. AudioOf(q, k) /\ (k \notin unstamped => StampsOf(q, k))
      BY <1>2, <2>2 DEF KeyInv, FilesOf
    <3>2. play[q].pc # "meta" /\ KeyOf(q) = k
      BY <1>2, <2>2 DEF Writing, At
    <3>3. AudioAtRest(k)
      BY <2>2, <3>1, <3>2, AudioRests DEF Writing
    <3>4. ASSUME k \notin unstamped' PROVE StampsAtRest(k)
      <4>1. play[q].pc # "stamp"
        BY <1>4, <3>2, <3>4 DEF At
      <4> QED BY <1>4, <2>2, <3>1, <3>2, <3>4, <4>1, StampsRest DEF Writing
    <3> QED BY <3>3, <3>4
  <2> QED BY <2>1, <2>2
<1>6. \A q \in Call : ~Writing(q, k)'
  BY <1>1 DEF Writing
<1>7. ~(k \in HalfEvicted)'
  BY <1>1 DEF HalfEvicted
<1>8. AudioAtRest(k)' /\ (k \notin unstamped' => StampsAtRest(k)')
  BY <1>3, <1>5 DEF AudioAtRest, StampsAtRest
<1> QED BY <1>6, <1>7, <1>8 DEF KeyInv, OneWriter, FilesOf

\* A key that is not torn was not, unless its file has just been deleted.
LEMMA TornMended ==
    ASSUME TypeOK, Next, NEW k \in torn, k \notin torn'
    PROVE  \E p \in Call : Delete(p)
<1>1. CASE User
  BY <1>1 DEF User, Play, Leave, Hurry
<1>2. CASE App
  BY <1>2 DEF App, Begin, PlayFromFile, Opened, Generate, InitAudioFile, Infer, WriteChunk,
     WriteMeta, SaveTimestamps, Finalize, Evict, Done, history
<1>3. CASE Crash
  BY <1>3 DEF Crash
<1> QED BY <1>1, <1>2, <1>3 DEF Next

LEMMA AppFiles ==
    ASSUME TypeOK, CallsInv, WaitingInv, App, NEW k \in Key, KeyInv(k), k \notin torn'
    PROVE  KeyInv(k)'
BY BeginFiles, PlayFromFileFiles, OpenedFiles, GenerateFiles, InitAudioFileFiles, InferFiles,
   WriteChunkFiles, WriteMetaFiles, SaveTimestampsFiles, FinalizeFiles, EvictFiles, DeleteFiles,
   DoneFiles DEF App

----------------------------------------------------------------------------
\* The inductive invariant of SpeechAudio: where every call may be, what the user
\* waits for, and how the files of a key and the call that writes them stand.
THEOREM SpeechInvAlways == Spec => []SpeechInv
<1>1. Init => FilesInv
  <2> SUFFICES ASSUME Init, NEW k \in Key PROVE KeyInv(k)
    BY DEF FilesInv, KeyInv
  <2>1. \A p \in Call : ~Writing(p, k)
    BY DEF Init, Writing, NoPlay
  <2>2. AudioAtRest(k) /\ StampsAtRest(k)
    BY DEF Init, AudioAtRest, StampsAtRest
  <2>3. k \notin HalfEvicted
    BY DEF Init, HalfEvicted, NoPlay
  <2> QED BY <2>1, <2>2, <2>3 DEF KeyInv, OneWriter, FilesOf
<1>2. TypeOK /\ CallsInv /\ WaitingInv /\ FilesInv /\ [Next]_vars => FilesInv'
  <2> SUFFICES ASSUME TypeOK, CallsInv, WaitingInv, FilesInv, [Next]_vars,
                      NEW k \in Key, k \notin torn'
               PROVE  KeyInv(k)'
    BY DEF FilesInv, KeyInv
  <2>1. k \notin torn => KeyInv(k)
    BY DEF FilesInv, KeyInv
  <2>2. CASE Next /\ k \in torn
    BY <2>1, <2>2, TornMended, DeleteFiles
  <2>3. CASE Next /\ k \notin torn
    <3>1. CASE User
      BY <2>1, <2>3, <3>1, PlayFiles, LeaveFiles DEF User
    <3>2. CASE App
      BY <2>1, <2>3, <3>2, AppFiles
    <3>3. CASE Crash
      BY <2>1, <2>3, <3>3, CrashFiles
    <3> QED BY <2>3, <3>1, <3>2, <3>3 DEF Next
  <2>4. CASE UNCHANGED vars
    <3>1. KeyInv(k)
      BY <2>1, <2>4 DEF vars, history
    <3>2. UNCHANGED <<mp3, meta, stamps, play, gen, unstamped>>
      BY <2>4 DEF vars, files, player, history
    <3> QED BY <3>1, <3>2 DEF KeyInv, OneWriter, FilesOf, Writing, AudioOf, StampsOf, Written,
                 Spoken, UpTo, AudioAtRest, StampsAtRest, HalfEvicted, KeyOf
  <2> QED BY <2>2, <2>3, <2>4
<1> QED BY <1>1, <1>2, SpeechTypesAlways, WaitingInvAlways, PTL DEF Spec, SpeechInv

LEMMA UpToWhole ==
    ASSUME NEW seq \in Seq(Chunk), UpTo(seq, Chunks)
    PROVE  seq = Whole
BY SpeechAssumption DEF UpTo, Whole, Chunk

\* What is taken for complete has no writer, and is at rest.
LEMMA CompleteAtRest ==
    ASSUME SpeechInv, NEW k \in Key, Complete(k), k \notin torn \cup At({"meta"}) \cup HalfEvicted
    PROVE  /\ UpTo(mp3[k], Chunks)
           /\ k \notin unstamped => UpTo(stamps[k], Chunks)
<1>1. TypeOK /\ CallsInv /\ FilesOf(k) /\ k \notin HalfEvicted
  BY DEF SpeechInv, FilesInv
<1>2. PICK n \in Nat : n = Len(mp3[k])
  BY <1>1 DEF TypeOK
<1>3. n > 0 /\ meta[k] = 0
  BY <1>1, <1>2 DEF Complete, TypeOK, NoMeta
<1>4. \A p \in Call : ~Writing(p, k)
  <2> SUFFICES ASSUME NEW p \in Call, Writing(p, k) PROVE FALSE
    OBVIOUS
  <2>1. AudioOf(p, k) /\ play[p].pc # "meta"
    BY <1>1 DEF FilesOf, Writing, At
  <2>2. Written(p) = n
    BY <1>2, <2>1 DEF AudioOf, UpTo
  <2> QED BY <1>3, <2>1, <2>2 DEF AudioOf
<1>5. AudioAtRest(k) /\ (k \notin unstamped => StampsAtRest(k))
  BY <1>1, <1>4 DEF FilesOf
<1>6. n = Chunks /\ UpTo(mp3[k], n)
  BY <1>2, <1>3, <1>5 DEF AudioAtRest
<1> QED BY <1>2, <1>3, <1>5, <1>6 DEF StampsAtRest

\* A file that is taken for complete has every chunk once and in order.
THEOREM CompleteIsWholeAlways == Spec => []CompleteIsWhole
<1>1. SpeechInv => CompleteIsWhole
  BY CompleteAtRest, UpToWhole DEF CompleteIsWhole, SpeechInv, TypeOK
<1> QED BY <1>1, SpeechInvAlways, PTL

\* Complete audio has the timestamps of all its words.
THEOREM HighlightsMatchAlways == Spec => []HighlightsMatch
<1>1. SpeechInv => HighlightsMatch
  <2> SUFFICES ASSUME SpeechInv, NEW k \in Key, Complete(k),
                      k \notin torn \cup unstamped \cup At({"meta", "stamp"}) \cup HalfEvicted
               PROVE  stamps[k] = Whole
    BY DEF HighlightsMatch
  <2>1. k \notin At({"meta"})
    BY DEF At
  <2>2. UpTo(stamps[k], Chunks)
    BY <2>1, CompleteAtRest
  <2> QED BY <2>2, UpToWhole DEF SpeechInv, TypeOK
<1> QED BY <1>1, SpeechInvAlways, PTL

=============================================================================
