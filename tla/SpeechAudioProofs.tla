------------------------- MODULE SpeechAudioProofs -------------------------
(***************************************************************************)
(* The theorems of SpeechAudio: its files, its sessions and what is heard, *)
(* for any number of articles, chunks, plays and crashes.                  *)
(***************************************************************************)
EXTENDS SpeechAudio, TLAPS

----------------------------------------------------------------------------
(* What the helpers of the actions do. *)

LEMMA Fresh == NoPlay \in PlayState /\ NoGen \in GenState /\ None \notin Call
<1>1. NoKey \in Key \cup {NoKey} /\ <<>> \in Seq(Chunk) /\ 1 \in 1..Chunks + 1
  BY SpeechAssumption
<1> QED BY <1>1 DEF NoPlay, NoGen, PlayState, GenState, Call, None

\* The call p goes on to pc as it is, or ends.
Moves(p, pc) ==
    /\ play' \in [Call -> PlayState]
    /\ \A q \in Call \ {p} : play'[q] = play[q]
    /\ play'[p].pc = pc /\ play'[p].next = "done"
    /\ IF pc = "done"
       THEN play'[p].on = None /\ play'[p].i = 1
       ELSE /\ play'[p].key = play[p].key /\ play'[p].on = play[p].on
            /\ play'[p].i = play[p].i /\ play'[p].victim = play[p].victim

\* A call that goes to another place of the code keeps the rest of its state;
\* one that is done forgets it.
LEMMA GotoMoves ==
    ASSUME TypeOK, NEW p \in Call, NEW pc \in Early \cup Loop \cup {"done"}, Goto(p, pc)
    PROVE  Moves(p, pc)
<1>0. play[p] \in PlayState /\ NoPlay \in PlayState
  BY Fresh DEF TypeOK
<1>1. CASE pc = "done"
  <2>1. play' = [play EXCEPT ![p] = [NoPlay EXCEPT !.pc = "done", !.next = "done"]]
    BY <1>1 DEF Goto
  <2>2. [NoPlay EXCEPT !.pc = "done", !.next = "done"] \in PlayState
    BY <1>0 DEF PlayState, NoPlay
  <2> QED BY <1>1, <2>1, <2>2 DEF TypeOK, Moves, NoPlay
<1>2. CASE pc # "done"
  <2>1. play' = [play EXCEPT ![p] = [play[p] EXCEPT !.pc = pc, !.next = "done"]]
    BY <1>2 DEF Goto, TypeOK
  <2>2. [play[p] EXCEPT !.pc = pc, !.next = "done"] \in PlayState
    BY <1>0 DEF PlayState
  <2> QED BY <1>0, <1>2, <2>1, <2>2 DEF TypeOK, Moves, PlayState
<1> QED BY <1>1, <1>2

\* Generators keep their keys and their words, and none comes to life.
Disposes ==
    /\ gen' \in [Call -> GenState]
    /\ \A s \in Call : gen'[s].key = gen[s].key /\ gen'[s].words = gen[s].words
    /\ \A s \in Call : gen'[s].live <=> gen[s].live /\ s # session
    /\ session' = None /\ started' = FALSE

\* The player's clean-up disposes of the session's generator and of no other.
LEMMA CleanupDisposes ==
    ASSUME TypeOK, Cleanup
    PROVE  Disposes
<1>1. CASE session = None
  BY <1>1, SpeechAssumption DEF TypeOK, Cleanup, Disposes, Call, None
<1>2. CASE session # None
  <2>1. session \in Call /\ gen[session] \in GenState
    BY <1>2 DEF TypeOK
  <2>2. gen' = [gen EXCEPT ![session] = [gen[session] EXCEPT !.live = FALSE]]
    BY <1>2, <2>1 DEF Cleanup, TypeOK
  <2>3. [gen[session] EXCEPT !.live = FALSE] \in GenState
    BY <2>1 DEF GenState
  <2> QED BY <2>1, <2>2, <2>3 DEF TypeOK, Cleanup, Disposes, GenState
<1> QED BY <1>1, <1>2

----------------------------------------------------------------------------
(* Types, and where a call may be. *)

\* A generator that a call drives is not replaced and does not come to life.
GensKept ==
    /\ gen' \in [Call -> GenState]
    /\ \A s \in Call : Begun(s) =>
         gen'[s].key = gen[s].key /\ (gen'[s].live => gen[s].live)
Others(p) == \A q \in Call \ {p} : play'[q] = play[q]

LEMMA DisposesKeeps ==
    ASSUME Disposes
    PROVE  GensKept
BY DEF Disposes, GensKept

LEMMA SameGens ==
    ASSUME TypeOK, gen' = gen
    PROVE  GensKept
BY DEF TypeOK, GensKept

\* A step of one call leaves the places of the others as they are.
LEMMA CallsKept ==
    ASSUME CallsInv, GensKept, NEW p \in Call, Others(p),
           play'[p].pc \notin {"none", "stopping"}, CallInv(p)',
           TypeOK, TypeOK', session' \in {None, session}
    PROVE  CallsInv'
<1>0. TypeOK /\ TypeOK' /\ None \notin Call
  BY DEF Call, None
<1>1. ASSUME NEW s \in Call, Begun(s) PROVE Begun(s)'
  BY <1>1 DEF Begun, GensKept, Others
<1>2. ASSUME NEW q \in Call \ {p} PROVE CallInv(q)'
  <2>1. play'[q] = play[q] /\ CallInv(q) /\ play[q].on \in Call \cup {None}
    BY <1>0 DEF Others, CallsInv, TypeOK, PlayState
  <2>2. play[q].on # None => Begun(play[q].on)'
    BY <2>1, <1>1 DEF CallInv
  <2>3. (play[q].on # None => Begun(play[q].on))'
    BY <2>1, <2>2 DEF Begun
  <2> QED BY <2>1, <2>3 DEF CallInv
<1>3. session' # None => session' = session
  OBVIOUS
<1>4. (session # None => Begun(session))'
  BY <1>0, <1>1, <1>3 DEF CallsInv, TypeOK, Begun
<1> QED BY <1>2, <1>4 DEF CallsInv

\* What every step of the call p does to the other calls and to the generators.
Sound(p) == TypeOK' /\ CallsInv' /\ GensKept /\ Others(p)

LEMMA PlayKeeps ==
    ASSUME TypeOK, CallsInv, NEW p \in Call, NEW k \in Key, Play(p, k)
    PROVE  Sound(p)
<1>1. Disposes /\ GensKept
  BY CleanupDisposes, DisposesKeeps DEF Play
<1> DEFINE new == [NoPlay EXCEPT !.pc = "stopping", !.key = k]
<1>2. new \in PlayState /\ new.pc = "stopping" /\ new.key = k /\ new.on = None /\ new.i = 1
      /\ new.next = "done"
  BY Fresh DEF NoPlay, PlayState, Early, Loop
<1>3. play' = [play EXCEPT ![p] = new]
  BY DEF Play
<1>4. play' \in [Call -> PlayState] /\ play'[p] = new /\ Others(p)
  BY <1>2, <1>3 DEF TypeOK, Others
<1>5. TypeOK'
  <2>1. hurries' \in 0..MaxHurry
    BY SpeechAssumption DEF Play, Hurry, TypeOK
  <2> QED BY <1>1, <1>4, <2>1 DEF Play, Hurry, TypeOK, Disposes, files
<1>6. ASSUME NEW s \in Call, Begun(s) PROVE Begun(s)'
  BY <1>1, <1>4, <1>6 DEF Play, Begun, GensKept, Others
<1>7. CallInv(p)'
  BY <1>2, <1>4 DEF CallInv, Loop
<1>8. ASSUME NEW q \in Call \ {p} PROVE CallInv(q)'
  <2>1. play'[q] = play[q] /\ CallInv(q) /\ play[q].on \in Call \cup {None}
    BY <1>4 DEF Others, CallsInv, TypeOK, PlayState
  <2>2. (play[q].on # None => Begun(play[q].on))'
    BY <1>6, <2>1 DEF CallInv, Begun
  <2> QED BY <2>1, <2>2 DEF CallInv
<1>9. session' = None
  BY <1>1 DEF Disposes
<1> QED BY <1>1, <1>4, <1>5, <1>7, <1>8, <1>9 DEF Sound, CallsInv

LEMMA LeaveKeeps ==
    ASSUME TypeOK, CallsInv, NEW k \in Key \cup {NoKey}, Leave(k)
    PROVE  TypeOK' /\ CallsInv' /\ GensKept
<1>1. Disposes /\ GensKept
  BY CleanupDisposes, DisposesKeeps DEF Leave
<1>2. TypeOK'
  <2>1. hurries' \in 0..MaxHurry
    BY SpeechAssumption DEF Leave, Hurry, TypeOK
  <2> QED BY <1>1, <2>1 DEF Leave, Hurry, TypeOK, Disposes, files
<1>3. ASSUME NEW s \in Call, Begun(s) PROVE Begun(s)'
  BY <1>1, <1>3 DEF Leave, Begun, GensKept
<1>4. ASSUME NEW q \in Call PROVE CallInv(q)'
  <2>1. play' = play /\ CallInv(q) /\ play[q].on \in Call \cup {None}
    BY DEF Leave, CallsInv, TypeOK, PlayState
  <2>2. (play[q].on # None => Begun(play[q].on))'
    BY <1>3, <2>1 DEF CallInv, Begun
  <2> QED BY <2>1, <2>2 DEF CallInv
<1>5. session' = None
  BY <1>1 DEF Disposes
<1> QED BY <1>1, <1>2, <1>4, <1>5 DEF CallsInv

LEMMA BeginKeeps ==
    ASSUME TypeOK, CallsInv, NEW p \in Call, Begin(p)
    PROVE  Sound(p)
<1>1. Moves(p, "checking")
  BY GotoMoves DEF Begin, Early
<1>2. CallInv(p) /\ play[p].pc = "stopping" /\ play[p].key \in Key /\ play[p].on = None
  BY DEF Begin, CallsInv, CallInv
<1> DEFINE new == [NoGen EXCEPT !.key = play[p].key, !.live = TRUE]
<1>3. new \in GenState /\ new.key = play[p].key /\ new.live /\ new.words = <<>>
  BY <1>2, Fresh DEF NoGen, GenState
<1>4. gen' \in [Call -> GenState] /\ gen'[p] = new /\ \A s \in Call \ {p} : gen'[s] = gen[s]
  BY <1>3 DEF Begin, TypeOK
<1>5. Others(p) /\ GensKept
  BY <1>1, <1>2, <1>4 DEF Moves, Others, GensKept, Begun
<1>6. TypeOK'
  BY <1>1, <1>2, <1>3, <1>4 DEF Begin, TypeOK, Moves, files, history
<1>7. ASSUME NEW s \in Call, Begun(s) PROVE Begun(s)'
  BY <1>1, <1>2, <1>5, <1>7 DEF Begun, GensKept, Others, Moves
<1>8. (session # None => Begun(session))'
  BY <1>1, <1>2, <1>3, <1>4 DEF Begin, Begun, Moves
<1>9. CallInv(p)'
  BY <1>1, <1>2 DEF CallInv, Moves, Loop
<1>10. ASSUME NEW q \in Call \ {p} PROVE CallInv(q)'
  <2>1. play'[q] = play[q] /\ CallInv(q) /\ play[q].on \in Call \cup {None}
    BY <1>5 DEF Others, CallsInv, TypeOK, PlayState
  <2>2. (play[q].on # None => Begun(play[q].on))'
    BY <1>7, <2>1 DEF CallInv, Begun
  <2> QED BY <2>1, <2>2 DEF CallInv
<1> QED BY <1>5, <1>6, <1>8, <1>9, <1>10 DEF Sound, CallsInv

LEMMA PlayFromFileKeeps ==
    ASSUME TypeOK, CallsInv, NEW p \in Call, PlayFromFile(p)
    PROVE  Sound(p)
<1>1. CallInv(p) /\ play[p].pc = "checking" /\ play[p].key \in Key /\ play[p].on = None
      /\ play[p] \in PlayState
  BY DEF PlayFromFile, CallsInv, CallInv, TypeOK
<1> DEFINE new == [play[p] EXCEPT !.pc = "open", !.next = "done"]
<1>2. new \in PlayState /\ new.on = None /\ new.pc = "open" /\ new.next = "done"
  BY <1>1 DEF PlayState, Early
<1>3. play' \in [Call -> PlayState] /\ play'[p] = new /\ Others(p)
  BY <1>2 DEF PlayFromFile, Open, TypeOK, Others
<1>4. GensKept /\ session' = session
  BY SameGens DEF PlayFromFile
<1>5. TypeOK'
  BY <1>1, <1>3 DEF PlayFromFile, Open, TypeOK, files, history
<1>6. CallInv(p)'
  BY <1>2, <1>3 DEF CallInv, Loop
<1> QED BY <1>2, <1>3, <1>4, <1>5, <1>6, CallsKept DEF Sound

LEMMA OpenedKeeps ==
    ASSUME TypeOK, CallsInv, NEW p \in Call, Opened(p)
    PROVE  Sound(p)
<1>1. CallInv(p) /\ play[p].pc = "open" /\ play[p].next \in {"done", "infer", "finish"}
      /\ play[p].on \in Call \cup {None}
  BY DEF Opened, CallsInv, TypeOK, PlayState
<1>2. Moves(p, play[p].next)
  BY <1>1, GotoMoves DEF Opened, Loop
<1>3. GensKept /\ Others(p)
  BY <1>2, SameGens DEF Opened, Moves, Others
<1>4. TypeOK'
  BY <1>2 DEF Opened, TypeOK, Moves, files, history
<1>5. (play[p].on # None => Begun(play[p].on))'
  BY <1>1, <1>2, <1>3, Fresh DEF CallInv, Begun, Moves, Others, GensKept
<1>6. CallInv(p)'
  BY <1>1, <1>2, <1>5 DEF CallInv, Moves, Loop
<1> QED BY <1>1, <1>2, <1>3, <1>4, <1>6, CallsKept DEF Sound, Moves, Opened

LEMMA GenerateKeeps ==
    ASSUME TypeOK, CallsInv, NEW p \in Call, Generate(p)
    PROVE  Sound(p)
<1>1. CallInv(p) /\ play[p].pc = "checking" /\ play[p] \in PlayState /\ play[p].i = 1
  BY DEF Generate, CallsInv, CallInv, TypeOK
<1>2. CASE session = None
  <2>1. Moves(p, "done") /\ Disposes /\ GensKept /\ Others(p)
    BY <1>2, GotoMoves, CleanupDisposes, DisposesKeeps DEF Generate, Moves, Others
  <2>2. TypeOK'
    BY <2>1 DEF Generate, TypeOK, Moves, Disposes, files, history
  <2>3. CallInv(p)'
    BY <2>1 DEF CallInv, Moves, Loop
  <2> QED BY <2>1, <2>2, <2>3, CallsKept DEF Sound, Moves, Disposes
<1>3. CASE session # None
  <2> DEFINE new == [play[p] EXCEPT !.pc = "init", !.on = session]
  <2>1. session \in Call /\ Begun(session)
    BY <1>3 DEF TypeOK, CallsInv
  <2>2. new \in PlayState /\ new.pc = "init" /\ new.on = session /\ new.i = 1
        /\ new.next = play[p].next /\ new.victim = play[p].victim
    BY <1>1, <2>1 DEF PlayState, Loop
  <2>3. play' \in [Call -> PlayState] /\ play'[p] = new /\ Others(p)
    BY <1>3, <2>2 DEF Generate, TypeOK, Others
  <2>4. GensKept /\ gen' = gen /\ session' = session
    BY <1>3, SameGens DEF Generate
  <2>5. TypeOK'
    BY <1>3, <2>3 DEF Generate, TypeOK, files, history
  <2>6. (play[p].on # None => Begun(play[p].on))'
    BY <2>1, <2>2, <2>3, <2>4 DEF Begun, Others
  <2>7. CallInv(p)'
    BY <1>1, <1>3, <2>2, <2>3, <2>6 DEF CallInv, Loop
  <2> QED BY <2>2, <2>3, <2>4, <2>5, <2>7, CallsKept DEF Sound
<1> QED BY <1>2, <1>3

LEMMA InitAudioFileKeeps ==
    ASSUME TypeOK, CallsInv, NEW p \in Call, InitAudioFile(p)
    PROVE  Sound(p)
<1> DEFINE s == play[p].on  k == KeyOf(p)
<1>1. CallInv(p) /\ play[p].pc = "init" /\ play[p] \in PlayState /\ play[p].i = 1
      /\ s \in Call /\ Begun(s) /\ k \in Key
  BY DEF InitAudioFile, CallsInv, CallInv, TypeOK, PlayState, Begun, KeyOf, Loop
<1>2. torn' \subseteq Key
  BY <1>1 DEF InitAudioFile, TypeOK, KeyOf
<1>3. CASE ~gen[s].live
  <2>1. Moves(p, "done") /\ gen' = gen /\ source' = source
    BY <1>3, GotoMoves DEF InitAudioFile
  <2>2. GensKept /\ Others(p)
    BY <2>1, SameGens DEF Moves, Others
  <2>3. TypeOK'
    BY <1>2, <2>1 DEF InitAudioFile, TypeOK, Moves, files
  <2>4. CallInv(p)'
    BY <2>1 DEF CallInv, Moves, Loop
  <2> QED BY <2>1, <2>2, <2>3, <2>4, CallsKept DEF Sound, Moves, InitAudioFile
<1>4. CASE gen[s].live /\ Resumable(k)
  <2> DEFINE then == IF meta[k] = Chunks THEN "finish" ELSE "infer"
             new == [play[p] EXCEPT !.pc = "open", !.i = StartIndex(k), !.told = TRUE,
                                    !.next = then]
             newGen == [gen[s] EXCEPT !.words = ResumedWords(k)]
  <2>1. meta[k] \in Chunk /\ StartIndex(k) = meta[k] + 1 /\ ResumedWords(k) \in Seq(Chunk)
    BY <1>1, <1>4 DEF Resumable, StartIndex, ResumedWords, TypeOK
  <2>2. new \in PlayState /\ new.pc = "open" /\ new.on = s /\ new.i = meta[k] + 1
        /\ new.next = then /\ new.victim = play[p].victim
    <3>1. StartIndex(k) \in 1..Chunks + 1
      BY <2>1, SpeechAssumption DEF Chunk
    <3>2. then \in {"done", "infer", "finish"} /\ "open" \in Early
      BY DEF Early
    <3> HIDE DEF then
    <3> QED BY <1>1, <2>1, <3>1, <3>2 DEF PlayState
  <2>3. play' = [play EXCEPT ![p] = new] /\ gen' = [gen EXCEPT ![s] = newGen]
        /\ source' = SessionKey
    BY <1>1, <1>4 DEF InitAudioFile, TypeOK, KeyOf
  <2>4. play' \in [Call -> PlayState] /\ play'[p] = new /\ Others(p)
    BY <2>2, <2>3 DEF TypeOK, Others
  <2>5. gen[s] \in GenState
    BY <1>1 DEF TypeOK
  <2>6. newGen \in GenState /\ newGen.key = gen[s].key /\ newGen.live = gen[s].live
    BY <2>1, <2>5 DEF GenState
  <2>7. gen' \in [Call -> GenState] /\ gen'[s] = newGen /\ \A r \in Call \ {s} : gen'[r] = gen[r]
    BY <1>1, <2>3, <2>6 DEF TypeOK
  <2>8. GensKept /\ session' = session
    BY <1>1, <2>6, <2>7 DEF GensKept, InitAudioFile
  <2>9. SessionKey \in Key \cup {NoKey}
    BY DEF SessionKey, TypeOK, GenState
  <2>10. session # None => gen'[session].live
    BY <2>6, <2>7 DEF TypeOK
  <2>11. TypeOK'
    BY <1>2, <2>3, <2>4, <2>7, <2>8, <2>9, <2>10 DEF InitAudioFile, TypeOK, files
  <2>12. CallInv(p)'
    <3>1. gen'[s].key \in Key /\ play'[s].pc \notin {"none", "stopping"}
      BY <1>1, <2>2, <2>4, <2>8 DEF Begun, GensKept, Others
    <3>2. (play[p].on # None => Begun(play[p].on))'
      BY <2>2, <2>4, <3>1 DEF Begun
    <3>3. then = "infer" => meta[k] + 1 \in Chunk
      BY <2>1, SpeechAssumption DEF Chunk
    <3>4. then = "finish" => meta[k] + 1 = Chunks + 1
      OBVIOUS
    <3>5. then # "done"
      OBVIOUS
    <3> HIDE DEF then
    <3> QED BY <1>1, <2>2, <2>4, <3>2, <3>3, <3>4, <3>5, Fresh DEF CallInv, Loop
  <2> QED BY <2>2, <2>4, <2>8, <2>11, <2>12, CallsKept DEF Sound
<1>5. CASE gen[s].live /\ ~Resumable(k)
  <2>1. Moves(p, "infer") /\ gen' = gen /\ source' = source
    BY <1>5, GotoMoves DEF InitAudioFile, Loop
  <2>2. GensKept /\ Others(p)
    BY <2>1, SameGens DEF Moves, Others
  <2>3. TypeOK'
    BY <1>2, <2>1 DEF InitAudioFile, TypeOK, Moves, files
  <2>4. (play[p].on # None => Begun(play[p].on))'
    BY <1>1, <2>1, <2>2 DEF Begun, Moves, Others
  <2>5. CallInv(p)'
    BY <1>1, <2>1, <2>4, Fresh, SpeechAssumption DEF CallInv, Moves, Loop, Chunk
  <2> QED BY <2>1, <2>2, <2>3, <2>5, CallsKept DEF Sound, Moves, InitAudioFile
<1> QED BY <1>3, <1>4, <1>5

\* A call in generate() drives a generator, which has a key.
LEMMA Drives ==
    ASSUME TypeOK, CallsInv, NEW p \in Call, play[p].pc \in Loop
    PROVE  /\ CallInv(p) /\ play[p] \in PlayState
           /\ play[p].on \in Call /\ Begun(play[p].on) /\ KeyOf(p) \in Key
           /\ gen[play[p].on] \in GenState
BY DEF CallsInv, CallInv, TypeOK, PlayState, Begun, KeyOf

LEMMA MovesInLoop ==
    ASSUME TypeOK, CallsInv, GensKept, NEW p \in Call, play[p].pc \in Loop,
           NEW pc \in {"write", "meta", "stamp", "evict", "done"}, Moves(p, pc),
           pc \in {"write", "meta", "stamp"} => play[p].i \in Chunk
    PROVE  CallInv(p)' /\ Others(p)
<1>1. play[p].on \in Call /\ Begun(play[p].on)
  BY Drives
<1>2. Others(p)
  BY DEF Moves, Others
<1>3. (play[p].on # None => Begun(play[p].on))'
  BY <1>1, <1>2 DEF Moves, Others, Begun, GensKept
<1> QED BY <1>1, <1>2, <1>3, Fresh DEF CallInv, Moves, Loop

LEMMA InferKeeps ==
    ASSUME TypeOK, CallsInv, NEW p \in Call, Infer(p)
    PROVE  Sound(p)
<1>0. play[p].pc = "infer" /\ play[p].pc \in Loop
  BY DEF Infer, Loop
<1>1. play[p].on \in Call /\ gen[play[p].on] \in GenState /\ play[p].i \in Chunk
  BY <1>0, Drives DEF CallInv
<1>2. CASE gen[play[p].on].live
  <2> DEFINE new == [gen[play[p].on] EXCEPT !.words = Append(@, play[p].i)]
  <2>1. Moves(p, "write") /\ gen' = [gen EXCEPT ![play[p].on] = new]
    BY <1>1, <1>2, GotoMoves DEF Infer, Loop, TypeOK
  <2>2. new \in GenState /\ new.key = gen[play[p].on].key /\ new.live = gen[play[p].on].live
    BY <1>1 DEF GenState
  <2>3. gen' \in [Call -> GenState] /\ gen'[play[p].on] = new
        /\ \A r \in Call \ {play[p].on} : gen'[r] = gen[r]
    BY <1>1, <2>1, <2>2 DEF TypeOK
  <2>4. GensKept
    BY <1>1, <2>2, <2>3 DEF GensKept
  <2>5. session # None => gen'[session].live
    BY <2>2, <2>3 DEF TypeOK
  <2>6. TypeOK'
    BY <2>1, <2>3, <2>5 DEF Infer, TypeOK, Moves, files, history
  <2> QED BY <1>0, <1>1, <2>1, <2>4, <2>6, MovesInLoop, CallsKept DEF Sound, Moves, Infer
<1>3. CASE ~gen[play[p].on].live
  <2>1. Moves(p, "done") /\ GensKept /\ gen' = gen
    BY <1>3, GotoMoves, SameGens DEF Infer
  <2>2. TypeOK'
    BY <2>1 DEF Infer, TypeOK, Moves, files, history
  <2> QED BY <1>0, <2>1, <2>2, MovesInLoop, CallsKept DEF Sound, Moves, Infer
<1> QED BY <1>2, <1>3

LEMMA WriteChunkKeeps ==
    ASSUME TypeOK, CallsInv, NEW p \in Call, WriteChunk(p)
    PROVE  Sound(p)
<1>0. play[p].pc = "write" /\ play[p].pc \in Loop
  BY DEF WriteChunk, Loop
<1>1. KeyOf(p) \in Key /\ play[p].i \in Chunk
  BY <1>0, Drives DEF CallInv
<1>2. Moves(p, "meta") /\ GensKept
  BY GotoMoves, SameGens DEF WriteChunk, Loop, player
<1>3. mp3' \in [Key -> Seq(Chunk)]
  BY <1>1 DEF WriteChunk, TypeOK
<1>4. TypeOK'
  BY <1>2, <1>3 DEF WriteChunk, TypeOK, Moves, player, history
<1> QED BY <1>0, <1>1, <1>2, <1>4, MovesInLoop, CallsKept DEF Sound, Moves, WriteChunk, player

LEMMA WriteMetaKeeps ==
    ASSUME TypeOK, CallsInv, NEW p \in Call, WriteMeta(p)
    PROVE  Sound(p)
<1>0. play[p].pc = "meta" /\ play[p].pc \in Loop
  BY DEF WriteMeta, Loop
<1>1. KeyOf(p) \in Key /\ play[p].i \in Chunk
  BY <1>0, Drives DEF CallInv
<1>2. meta' \in [Key -> 0..BadMeta]
  BY <1>1, SpeechAssumption DEF WriteMeta, TypeOK, Chunk, BadMeta
<1>3. CASE gen[play[p].on].live
  <2>1. Moves(p, "stamp") /\ GensKept /\ gen' = gen
    BY <1>3, GotoMoves, SameGens DEF WriteMeta, Loop
  <2>2. TypeOK'
    BY <1>2, <1>3, <2>1 DEF WriteMeta, TypeOK, Moves
  <2> QED BY <1>0, <1>1, <1>3, <2>1, <2>2, MovesInLoop, CallsKept DEF Sound, Moves, WriteMeta
<1>4. CASE ~gen[play[p].on].live
  <2>1. Moves(p, "done") /\ Disposes /\ GensKept
    BY <1>4, GotoMoves, CleanupDisposes, DisposesKeeps DEF WriteMeta, Fails
  <2>2. unstamped' \subseteq Key
    BY <1>1, <1>4 DEF WriteMeta, TypeOK
  <2>3. TypeOK'
    BY <1>2, <2>1, <2>2 DEF WriteMeta, TypeOK, Moves, Disposes
  <2> QED BY <1>0, <2>1, <2>3, MovesInLoop, CallsKept DEF Sound, Moves, Disposes
<1> QED BY <1>3, <1>4

\* After the timestamps of a chunk the call goes on to the next, or to the end,
\* at once or when the player has loaded the file.
Onwards(p) ==
    /\ play' \in [Call -> PlayState] /\ Others(p)
    /\ play'[p].on = play[p].on /\ play'[p].i = play[p].i + 1
    /\ play'[p].next = IF play[p].i = Chunks THEN "finish" ELSE "infer"
    /\ play'[p].pc \in {"open", play'[p].next} /\ play'[p].pc # "delete"

LEMMA SavesOn ==
    ASSUME TypeOK, CallsInv, NEW p \in Call, SaveTimestamps(p), gen[play[p].on].live
    PROVE  /\ Onwards(p) /\ UNCHANGED <<gen, session, started>>
           /\ source' \in {source, SessionKey}
           /\ play'[p].pc = "open" => source' = SessionKey
<1> DEFINE then == IF play[p].i = Chunks THEN "finish" ELSE "infer"
           onwards == [play[p] EXCEPT !.i = @ + 1, !.pc = then, !.next = then]
           told == [onwards EXCEPT !.pc = "open", !.told = TRUE]
<1>0. play[p].pc = "stamp" /\ play[p].pc \in Loop
  BY DEF SaveTimestamps, Loop
<1>1. play[p] \in PlayState /\ play[p].i \in Chunk
  BY <1>0, Drives DEF CallInv
<1>2. then \in {"infer", "finish"}
  OBVIOUS
<1>3. play[p].i + 1 \in 1..Chunks + 1
  BY <1>1, SpeechAssumption DEF Chunk
<1>4. /\ onwards \in PlayState /\ onwards.on = play[p].on /\ onwards.i = play[p].i + 1
      /\ onwards.next = then /\ onwards.pc = then
  <2> HIDE DEF then
  <2> QED BY <1>1, <1>2, <1>3 DEF PlayState, Loop
<1>5. /\ told \in PlayState /\ told.on = play[p].on /\ told.i = play[p].i + 1
      /\ told.next = then /\ told.pc = "open"
  <2> HIDE DEF onwards
  <2> QED BY <1>4 DEF PlayState, Early
<1>6. CASE ~play[p].told
  <2>1. \/ play' = [play EXCEPT ![p] = told] /\ source' = SessionKey
        \/ play' = [play EXCEPT ![p] = onwards] /\ source' = source
    BY <1>6 DEF SaveTimestamps
  <2>2. UNCHANGED <<gen, session, started>>
    BY <1>6 DEF SaveTimestamps
  <2> HIDE DEF told, onwards
  <2> QED BY <1>2, <1>4, <1>5, <2>1, <2>2 DEF TypeOK, Onwards, Others
<1>7. CASE play[p].told
  <2>1. play' = [play EXCEPT ![p] = onwards] /\ source' = source
    BY <1>7 DEF SaveTimestamps
  <2>2. UNCHANGED <<gen, session, started>>
    BY <1>7 DEF SaveTimestamps
  <2> HIDE DEF told, onwards
  <2> QED BY <1>2, <1>4, <2>1, <2>2 DEF TypeOK, Onwards, Others
<1> QED BY <1>6, <1>7

LEMMA SavesLast ==
    ASSUME TypeOK, CallsInv, NEW p \in Call, SaveTimestamps(p), ~gen[play[p].on].live
    PROVE  Moves(p, "done") /\ source' = source
           /\ (UNCHANGED <<gen, session, started>> \/ Disposes)
<1>1. CASE play[p].told
  BY <1>1, GotoMoves DEF SaveTimestamps
<1>2. CASE ~play[p].told
  BY <1>2, GotoMoves, CleanupDisposes DEF SaveTimestamps, Fails
<1> QED BY <1>1, <1>2

LEMMA SaveTimestampsKeeps ==
    ASSUME TypeOK, CallsInv, NEW p \in Call, SaveTimestamps(p)
    PROVE  Sound(p)
<1>0. play[p].pc = "stamp" /\ play[p].pc \in Loop
  BY DEF SaveTimestamps, Loop
<1>1. KeyOf(p) \in Key /\ play[p].i \in Chunk /\ play[p].on \in Call /\ Begun(play[p].on)
      /\ gen[play[p].on] \in GenState /\ CallInv(p)
  BY <1>0, Drives DEF CallInv
<1>2. stamps' \in [Key -> Seq(Chunk)]
  BY <1>1 DEF SaveTimestamps, TypeOK, GenState
<1>3. UNCHANGED <<mp3, meta, shown, torn, unstamped, hurries, crashes>>
  BY DEF SaveTimestamps, history
<1>4. CASE gen[play[p].on].live
  <2>1. Onwards(p) /\ gen' = gen /\ session' = session /\ started' = started
        /\ source' \in {source, SessionKey} /\ GensKept
    BY <1>4, SavesOn, SameGens
  <2>2. SessionKey \in Key \cup {NoKey}
    BY DEF SessionKey, TypeOK, GenState
  <2>3. TypeOK'
    BY <1>2, <1>3, <2>1, <2>2 DEF TypeOK, Onwards
  <2>4. (play[p].on # None => Begun(play[p].on))'
    BY <1>1, <2>1 DEF Onwards, Others, Begun
  <2>5. play[p].i # Chunks => play[p].i + 1 \in Chunk
    BY <1>1, SpeechAssumption DEF Chunk
  <2>6. CallInv(p)'
    BY <1>1, <2>1, <2>4, <2>5, Fresh DEF CallInv, Onwards, Loop
  <2> QED BY <2>1, <2>3, <2>6, CallsKept DEF Sound, Onwards
<1>5. CASE ~gen[play[p].on].live
  <2>1. Moves(p, "done") /\ source' = source
        /\ (UNCHANGED <<gen, session, started>> \/ Disposes) /\ GensKept
    BY <1>5, SavesLast, SameGens, DisposesKeeps
  <2>2. TypeOK'
    BY <1>2, <1>3, <2>1 DEF TypeOK, Moves, Disposes
  <2> QED BY <1>0, <2>1, <2>2, MovesInLoop, CallsKept DEF Sound, Moves, Disposes
<1> QED BY <1>4, <1>5

LEMMA FinalizeKeeps ==
    ASSUME TypeOK, CallsInv, NEW p \in Call, Finalize(p)
    PROVE  Sound(p)
<1>0. play[p].pc = "finish" /\ play[p].pc \in Loop
  BY DEF Finalize, Loop
<1>1. KeyOf(p) \in Key /\ gen[play[p].on].words \in Seq(Chunk)
  BY <1>0, Drives DEF GenState
<1>2. /\ Moves(p, "evict") \/ Moves(p, "done")
      /\ meta' \in [Key -> 0..BadMeta] /\ stamps' \in [Key -> Seq(Chunk)]
  <2>1. NoMeta \in 0..BadMeta
    BY SpeechAssumption DEF NoMeta, BadMeta
  <2>2. CASE gen[play[p].on].live
    BY <1>1, <2>1, <2>2, GotoMoves DEF Finalize, TypeOK, Loop
  <2>3. CASE ~gen[play[p].on].live
    BY <2>3, GotoMoves DEF Finalize, TypeOK
  <2> QED BY <2>2, <2>3
<1>3. GensKept
  BY SameGens DEF Finalize, player
<1>4. TypeOK'
  BY <1>2 DEF Finalize, TypeOK, Moves, player, history
<1> QED BY <1>0, <1>2, <1>3, <1>4, MovesInLoop, CallsKept DEF Sound, Moves, Finalize, player

\* Eviction picks a file and marks the call with it, then takes the mark away.
LEMMA EvictMarks ==
    ASSUME TypeOK, CallsInv, NEW p \in Call, Evict(p)
    PROVE  \E k \in Key :
             /\ play' \in [Call -> PlayState] /\ Others(p)
             /\ play'[p].pc = "delete" /\ play'[p].victim = k
             /\ play'[p].on = play[p].on /\ play'[p].i = play[p].i
             /\ play'[p].next = play[p].next
             /\ mp3[k] # <<>>
             /\ meta' = [meta EXCEPT ![k] = NoMeta] /\ stamps' = [stamps EXCEPT ![k] = <<>>]
             /\ torn' = torn \cup {j \in {k} : \E q \in Call \ {p} : AtWork(q, k)}
<1>1. PICK k \in {j \in Key : mp3[j] # <<>>} :
        /\ meta' = [meta EXCEPT ![k] = NoMeta]
        /\ stamps' = [stamps EXCEPT ![k] = <<>>]
        /\ torn' = torn \cup {j \in {k} : \E q \in Call \ {p} : AtWork(q, k)}
        /\ play' = [play EXCEPT ![p] = [@ EXCEPT !.pc = "delete", !.victim = k]]
  BY DEF Evict
<1> DEFINE new == [play[p] EXCEPT !.pc = "delete", !.victim = k]
<1>2. play[p] \in PlayState
  BY DEF TypeOK
<1>3. /\ new \in PlayState /\ new.pc = "delete" /\ new.victim = k
      /\ new.on = play[p].on /\ new.i = play[p].i /\ new.next = play[p].next
  BY <1>2 DEF PlayState, Loop
<1>4. play' = [play EXCEPT ![p] = new]
  BY <1>1 DEF TypeOK
<1> HIDE DEF new
<1>5. play' \in [Call -> PlayState] /\ play'[p] = new /\ Others(p)
  BY <1>3, <1>4 DEF TypeOK, Others
<1> QED BY <1>1, <1>3, <1>5

LEMMA EvictKeeps ==
    ASSUME TypeOK, CallsInv, NEW p \in Call, Evict(p)
    PROVE  Sound(p)
<1>0. play[p].pc = "evict" /\ play[p].pc \in Loop
  BY DEF Evict, Loop
<1>1. play[p].on \in Call /\ Begun(play[p].on) /\ CallInv(p)
  BY <1>0, Drives
<1>2. GensKept /\ gen' = gen /\ session' = session
  BY SameGens DEF Evict, player
<1>3. PICK k \in Key :
             /\ play' \in [Call -> PlayState] /\ Others(p)
             /\ play'[p].pc = "delete" /\ play'[p].victim = k
             /\ play'[p].on = play[p].on /\ play'[p].i = play[p].i
             /\ play'[p].next = play[p].next
             /\ mp3[k] # <<>>
             /\ meta' = [meta EXCEPT ![k] = NoMeta] /\ stamps' = [stamps EXCEPT ![k] = <<>>]
             /\ torn' = torn \cup {j \in {k} : \E q \in Call \ {p} : AtWork(q, k)}
  BY EvictMarks
<1>4. TypeOK'
  <2>1. meta' \in [Key -> 0..BadMeta] /\ stamps' \in [Key -> Seq(Chunk)] /\ torn' \subseteq Key
    BY <1>3, SpeechAssumption DEF TypeOK, NoMeta, BadMeta
  <2> QED BY <1>3, <2>1 DEF Evict, TypeOK, player
<1>5. (play[p].on # None => Begun(play[p].on))'
  BY <1>1, <1>2, <1>3 DEF Begun, Others
<1>6. CallInv(p)'
  BY <1>0, <1>1, <1>3, <1>5, Fresh DEF CallInv, Loop
<1> QED BY <1>2, <1>3, <1>4, <1>6, CallsKept DEF Sound

LEMMA DeleteUnmarks ==
    ASSUME TypeOK, CallsInv, NEW p \in Call, Delete(p)
    PROVE  /\ play' \in [Call -> PlayState] /\ Others(p)
           /\ play'[p].pc = "evict"
           /\ play'[p].on = play[p].on /\ play'[p].i = play[p].i
           /\ play'[p].next = play[p].next
<1> DEFINE new == [play[p] EXCEPT !.pc = "evict", !.victim = NoKey]
<1>1. play[p] \in PlayState
  BY DEF TypeOK
<1>2. /\ new \in PlayState /\ new.pc = "evict"
      /\ new.on = play[p].on /\ new.i = play[p].i /\ new.next = play[p].next
  BY <1>1 DEF PlayState, Loop
<1>3. play' = [play EXCEPT ![p] = new]
  BY DEF Delete, TypeOK
<1> HIDE DEF new
<1>4. play' \in [Call -> PlayState] /\ play'[p] = new /\ Others(p)
  BY <1>2, <1>3 DEF TypeOK, Others
<1> QED BY <1>2, <1>4

LEMMA DeleteKeeps ==
    ASSUME TypeOK, CallsInv, NEW p \in Call, Delete(p)
    PROVE  Sound(p)
<1>0. play[p].pc = "delete" /\ play[p].pc \in Loop
  BY DEF Delete, Loop
<1>1. play[p].on \in Call /\ Begun(play[p].on) /\ CallInv(p) /\ play[p].victim \in Key
  BY <1>0, Drives DEF CallInv
<1>2. GensKept /\ gen' = gen /\ session' = session
  BY SameGens DEF Delete, player
<1>3. /\ play' \in [Call -> PlayState] /\ Others(p)
      /\ play'[p].pc = "evict"
      /\ play'[p].on = play[p].on /\ play'[p].i = play[p].i
      /\ play'[p].next = play[p].next
  BY DeleteUnmarks
<1>4. TypeOK'
  <2>1. mp3' \in [Key -> Seq(Chunk)]
    BY <1>1 DEF Delete, TypeOK
  <2>2. torn' \subseteq Key /\ unstamped' \subseteq Key
    BY DEF Delete, TypeOK
  <2> QED BY <1>3, <2>1, <2>2 DEF Delete, TypeOK, player
<1>5. (play[p].on # None => Begun(play[p].on))'
  BY <1>1, <1>2, <1>3 DEF Begun, Others
<1>6. CallInv(p)'
  BY <1>0, <1>1, <1>3, <1>5, Fresh DEF CallInv, Loop
<1> QED BY <1>2, <1>3, <1>4, <1>6, CallsKept DEF Sound

LEMMA DoneKeeps ==
    ASSUME TypeOK, CallsInv, NEW p \in Call, Done(p)
    PROVE  Sound(p)
<1>0. play[p].pc = "evict" /\ play[p].pc \in Loop
  BY DEF Done, Loop
<1>1. Moves(p, "done") /\ GensKept /\ (UNCHANGED <<gen, session, started>> \/ Disposes)
  <2>1. CASE gen[play[p].on].live
    BY <2>1, GotoMoves, SameGens DEF Done
  <2>2. CASE ~gen[play[p].on].live
    BY <2>2, GotoMoves, CleanupDisposes, DisposesKeeps DEF Done, Fails
  <2> QED BY <2>1, <2>2
<1>2. TypeOK'
  BY <1>1 DEF Done, TypeOK, Moves, Disposes, files, history
<1> QED BY <1>0, <1>1, <1>2, MovesInLoop, CallsKept DEF Sound, Moves, Disposes

LEMMA CrashKeeps ==
    ASSUME TypeOK, CallsInv, Crash
    PROVE  TypeOK' /\ CallsInv'
<1>1. \A pcs : At(pcs) = {KeyOf(q) : q \in {r \in Call : play[r].pc \in pcs}}
  BY DEF At
<1>2. At({"meta"}) \subseteq Key /\ At({"stamp"}) \subseteq Key
  BY <1>1, Drives DEF Loop
<1>3. HalfEvicted \subseteq Key
  BY DEF HalfEvicted, CallsInv, CallInv
<1>4. meta' \in [Key -> 0..BadMeta]
  BY SpeechAssumption DEF Crash, TypeOK, BadMeta
<1> DEFINE ended == [NoPlay EXCEPT !.pc = "done"]
<1>5. /\ ended \in PlayState /\ ended.pc = "done" /\ ended.on = None /\ ended.next = "done"
      /\ NoPlay.pc = "none" /\ NoPlay.on = None /\ NoPlay.next = "done"
      /\ NoPlay \in PlayState
  BY Fresh DEF NoPlay, PlayState
<1>6. play' = [p \in Call |-> IF play[p].pc = "none" THEN NoPlay ELSE ended]
  BY DEF Crash
<1>7. play' \in [Call -> PlayState]
      /\ \A p \in Call : play'[p].on = None /\ play'[p].pc \in {"none", "done"}
                         /\ play'[p].next = "done"
  <2> HIDE DEF ended
  <2> QED BY <1>5, <1>6
<1>8. gen' \in [Call -> GenState] /\ session' = None
  BY Fresh DEF Crash
<1>9. TypeOK'
  <2>1. crashes' \in 0..MaxCrash
    BY SpeechAssumption DEF Crash, TypeOK
  <2>2. torn' \subseteq Key /\ unstamped' \subseteq Key
    BY <1>2, <1>3 DEF Crash, TypeOK
  <2>3. mp3' = mp3 /\ stamps' = stamps /\ hurries' = hurries
        /\ shown' = NoKey /\ started' = FALSE /\ source' = NoKey
    BY DEF Crash
  <2> QED BY <1>4, <1>7, <1>8, <2>1, <2>2, <2>3 DEF TypeOK
<1>10. CallsInv'
  BY <1>7, <1>8, Fresh DEF CallsInv, CallInv, Loop
<1> QED BY <1>9, <1>10

\* Every call is where it may be, in files, sessions and generators of the
\* right types.
LEMMA AppKeeps ==
    ASSUME TypeOK, CallsInv, App
    PROVE  TypeOK' /\ CallsInv'
BY BeginKeeps, PlayFromFileKeeps, OpenedKeeps, GenerateKeeps, InitAudioFileKeeps, InferKeeps,
   WriteChunkKeeps, WriteMetaKeeps, SaveTimestampsKeeps, FinalizeKeeps, EvictKeeps, DeleteKeeps,
   DoneKeeps DEF App, Sound

\* The files, sessions and generators have their types at all times, and a call
\* drives a generator that was made.
THEOREM SpeechTypesAlways == Spec => [](TypeOK /\ CallsInv)
<1>1. Init => TypeOK /\ CallsInv
  <2> SUFFICES ASSUME Init PROVE TypeOK /\ CallsInv
    OBVIOUS
  <2>1. NoPlay \in PlayState /\ NoGen \in GenState /\ <<>> \in Seq(Chunk) /\ None \notin Call
    BY Fresh
  <2>2. TypeOK
    <3>1. NoMeta \in 0..BadMeta /\ 0 \in 0..MaxHurry /\ 0 \in 0..MaxCrash
      BY SpeechAssumption DEF NoMeta, BadMeta
    <3> QED BY <2>1, <3>1 DEF Init, TypeOK
  <2>3. CallsInv
    BY <2>1 DEF Init, CallsInv, CallInv, NoPlay, Loop
  <2> QED BY <2>2, <2>3
<1>2. TypeOK /\ CallsInv /\ [Next]_vars => (TypeOK /\ CallsInv)'
  <2> SUFFICES ASSUME TypeOK, CallsInv, [Next]_vars PROVE TypeOK' /\ CallsInv'
    OBVIOUS
  <2>1. CASE User
    BY <2>1, PlayKeeps, LeaveKeeps DEF User, Sound
  <2>2. CASE App
    BY <2>2, AppKeeps
  <2>3. CASE Crash
    BY <2>3, CrashKeeps
  <2>4. CASE UNCHANGED vars
    BY <2>4 DEF vars, files, player, history, TypeOK, CallsInv, CallInv, Begun
  <2> QED BY <2>1, <2>2, <2>3, <2>4 DEF Next
<1> QED BY <1>1, <1>2, PTL DEF Spec

----------------------------------------------------------------------------
(* Sessions, and what is heard. *)

\* A file that a call may find complete though it is not stays under suspicion.
LEMMA TroubleKept ==
    ASSUME TypeOK, CallsInv, GensKept, NEW p \in Call, Others(p), NEW k \in Key, Troubled(k),
           k \in torn => k \in torn',
           play[p].pc = "meta" => KeyOf(p) # k,
           play[p].pc = "delete" => play[p].victim # k
    PROVE  Troubled(k)'
<1>1. CASE k \in torn
  BY <1>1 DEF Troubled
<1>2. CASE k \in At({"meta"})
  <2>1. PICK q \in Call : play[q].pc = "meta" /\ KeyOf(q) = k
    BY <1>2 DEF At
  <2>2. q # p /\ play'[q] = play[q]
    BY <2>1 DEF Others
  <2>3. Begun(play[q].on) /\ play[q].on \in Call
    BY <2>1, Drives DEF Loop
  <2>4. gen'[play'[q].on].key = k /\ play'[q].pc = "meta"
    BY <2>1, <2>2, <2>3 DEF GensKept, KeyOf
  <2> QED BY <2>4 DEF Troubled, At, KeyOf
<1>3. CASE k \in HalfEvicted
  <2>1. PICK q \in Call : play[q].pc = "delete" /\ play[q].victim = k
    BY <1>3 DEF HalfEvicted
  <2>2. q # p /\ play'[q] = play[q]
    BY <2>1 DEF Others
  <2> QED BY <2>1, <2>2 DEF Troubled, HalfEvicted
<1> QED BY <1>1, <1>2, <1>3 DEF Troubled

LEMMA UsableKept ==
    ASSUME TypeOK, CallsInv, GensKept, NEW p \in Call, Others(p), NEW k \in Key, Usable(k),
           Complete(k)' => Complete(k) \/ Troubled(k)',
           Complete(k)' /\ k \in torn => k \in torn',
           play[p].pc = "meta" /\ KeyOf(p) = k => ~Complete(k)',
           play[p].pc = "delete" /\ play[p].victim = k => ~Complete(k)'
    PROVE  Usable(k)'
BY TroubleKept DEF Usable

\* How a step of the call p may touch the session and what is heard, while the
\* user waits for one call at a time.
Discreet(p) ==
    /\ shown' = shown /\ session' \in {None, session} /\ source' \in {source, shown}
    /\ started' => started \/ play[p].pc = "open"
    /\ play'[p].pc \in Early => play[p].pc \in Early \/ session # None
    /\ \A s \in Call : gen'[s].key = gen[s].key
    /\ \/ session' = session /\ \A s \in Call : gen'[s].live <=> gen[s].live
       \/ Disposes
    /\ \A s \in Call \ {p} : gen'[s].words = gen[s].words
    /\ \A q \in Call \ {p}, k \in Key :
         play[q].pc = "init" /\ gen[q].live /\ Usable(k) => Usable(k)'

LEMMA DiscreetWaits ==
    ASSUME TypeOK, CallsInv, Waiting, NEW p \in Call, Sound(p), Discreet(p), WaitingCall(p)'
    PROVE  Waiting'
<1>1. \A s \in Call : (gen[s].live <=> s = session)'
  BY Fresh DEF Waiting, Discreet, Disposes, TypeOK
<1>2. (session # None => gen[session].key = shown)'
  BY DEF Waiting, Discreet, TypeOK
<1>3. started' => source' = shown'
  BY DEF Waiting, WaitingCall, Discreet
<1>4. ASSUME NEW q \in Call \ {p} PROVE WaitingCall(q)'
  <2>0. play'[q] = play[q] /\ WaitingCall(q)
    BY DEF Sound, Others, Waiting
  <2>1. play[q].pc = "stopping" =>
          /\ session' = None /\ ~started'
          /\ \A r \in Call \ {q} : play'[r].pc \notin Early
    <3> SUFFICES ASSUME play[q].pc = "stopping"
                 PROVE  /\ session' = None /\ ~started'
                        /\ \A r \in Call \ {q} : play'[r].pc \notin Early
      OBVIOUS
    <3>1. session = None /\ ~started /\ \A r \in Call \ {q} : play[r].pc \notin Early
      BY <2>0 DEF WaitingCall
    <3>2. play[p].pc # "open"
      BY <3>1 DEF Early
    <3> QED BY <3>1, <3>2 DEF Discreet, Sound, Others
  <2>2. play[q].pc = "checking" => shown' = play[q].key /\ session' \in {None, q}
    BY <2>0 DEF WaitingCall, Discreet
  <2>3. play[q].pc = "open" => source' = shown'
    BY <2>0 DEF WaitingCall, Discreet
  <2>4. play[q].pc \in {"checking", "init"} => gen'[q].words = <<>>
    BY <2>0 DEF WaitingCall, Discreet
  <2>5. play[q].pc = "init" /\ gen'[q].live => Usable(KeyOf(q))'
    <3> SUFFICES ASSUME play[q].pc = "init", gen'[q].live PROVE Usable(KeyOf(q))'
      OBVIOUS
    <3>1. play[q].on = q /\ Begun(q) /\ KeyOf(q) \in Key
      BY <2>0, Drives, Fresh DEF WaitingCall, Loop
    <3>2. gen[q].live /\ gen'[q].key = gen[q].key
      BY DEF Discreet, Disposes
    <3>3. PICK k \in Key : k = KeyOf(q)
      BY <3>1
    <3>4. KeyOf(q)' = k
      BY <2>0, <3>1, <3>2, <3>3 DEF KeyOf
    <3>5. Usable(k)
      BY <2>0, <3>2, <3>3 DEF WaitingCall
    <3>6. Usable(k)'
      BY <3>2, <3>5 DEF Discreet
    <3> QED BY <3>4, <3>6 DEF Usable, Complete, Troubled
  <2> QED BY <2>0, <2>1, <2>2, <2>3, <2>4, <2>5 DEF WaitingCall
<1> QED BY <1>1, <1>2, <1>3, <1>4 DEF Waiting

LEMMA SameFilesUsable ==
    ASSUME TypeOK, CallsInv, GensKept, NEW p \in Call, Others(p), NEW k \in Key, Usable(k),
           mp3' = mp3, meta' = meta, torn \subseteq torn', play[p].pc \notin {"meta", "delete"}
    PROVE  Usable(k)'
BY UsableKept DEF Complete

LEMMA PlayFromFileWaits ==
    ASSUME TypeOK, CallsInv, Waiting, NEW p \in Call, PlayFromFile(p)
    PROVE  Waiting'
<1>1. Sound(p) /\ play[p].pc = "checking" /\ WaitingCall(p) /\ play[p] \in PlayState
  BY PlayFromFileKeeps DEF PlayFromFile, Waiting, TypeOK
<1>2. play'[p].pc = "open" /\ play'[p].on = play[p].on
  BY <1>1 DEF PlayFromFile, Open, TypeOK, PlayState
<1>3. source' = shown /\ shown' = shown
  BY <1>1 DEF PlayFromFile, Open, WaitingCall
<1>4. WaitingCall(p)'
  BY <1>1, <1>2, <1>3 DEF WaitingCall
<1>5. mp3' = mp3 /\ meta' = meta /\ torn' = torn /\ gen' = gen /\ session' = session
      /\ started' = started
  BY DEF PlayFromFile, files, history
<1>6. Discreet(p)
  BY <1>1, <1>3, <1>5, SameFilesUsable DEF Discreet, Sound, Early
<1> QED BY <1>1, <1>4, <1>6, DiscreetWaits

LEMMA OpenedWaits ==
    ASSUME TypeOK, CallsInv, Waiting, NEW p \in Call, Opened(p)
    PROVE  Waiting'
<1>1. Sound(p) /\ play[p].pc = "open" /\ WaitingCall(p)
      /\ play[p].next \in {"done", "infer", "finish"}
  BY OpenedKeeps DEF Opened, Waiting, TypeOK, PlayState
<1>2. Moves(p, play[p].next)
  BY <1>1, GotoMoves DEF Opened, Loop
<1>3. WaitingCall(p)'
  BY <1>1, <1>2 DEF WaitingCall, Moves
<1>4. mp3' = mp3 /\ meta' = meta /\ torn' = torn /\ gen' = gen /\ session' = session
      /\ shown' = shown /\ source' = source
  BY DEF Opened, files, history
<1>5. Discreet(p)
  BY <1>1, <1>2, <1>4, SameFilesUsable DEF Discreet, Sound, Early, Moves
<1> QED BY <1>1, <1>3, <1>5, DiscreetWaits

LEMMA GenerateWaits ==
    ASSUME TypeOK, CallsInv, Waiting, NEW p \in Call, Generate(p)
    PROVE  Waiting'
<1>1. Sound(p) /\ play[p].pc = "checking" /\ WaitingCall(p) /\ ~Complete(play[p].key)
      /\ play[p].key \in Key /\ play[p] \in PlayState
  BY GenerateKeeps DEF Generate, Waiting, CallsInv, CallInv, TypeOK
<1>2. mp3' = mp3 /\ meta' = meta /\ torn' = torn /\ shown' = shown /\ source' = source
  BY DEF Generate, files, history
<1>3. \A q \in Call \ {p}, k \in Key :
         play[q].pc = "init" /\ gen[q].live /\ Usable(k) => Usable(k)'
  BY <1>1, <1>2, SameFilesUsable DEF Sound
<1>4. CASE session = None
  <2>1. Moves(p, "done") /\ Disposes
    BY <1>4, GotoMoves, CleanupDisposes DEF Generate
  <2>2. WaitingCall(p)'
    BY <2>1 DEF WaitingCall, Moves
  <2>3. Discreet(p)
    BY <1>2, <1>3, <2>1 DEF Discreet, Early, Moves, Disposes
  <2> QED BY <1>1, <2>2, <2>3, DiscreetWaits
<1>5. CASE session # None
  <2>1. session = p /\ gen[p].key = play[p].key
    BY <1>1, <1>5 DEF WaitingCall, Waiting
  <2>2. play'[p].pc = "init" /\ play'[p].on = p
    <3>1. play' = [play EXCEPT ![p] = [play[p] EXCEPT !.pc = "init", !.on = session]]
      BY <1>5 DEF Generate, TypeOK
    <3> QED BY <1>1, <2>1, <3>1 DEF TypeOK, PlayState
  <2>3. gen' = gen /\ session' = session /\ started' = started
    BY <1>5 DEF Generate
  <2>4. KeyOf(p)' = play[p].key
    BY <2>1, <2>2, <2>3 DEF KeyOf
  <2>5. Usable(KeyOf(p))'
    BY <1>1, <1>2, <2>4 DEF Usable, Complete
  <2>6. WaitingCall(p)'
    BY <1>1, <2>2, <2>3, <2>5 DEF WaitingCall
  <2>7. Discreet(p)
    BY <1>2, <1>3, <2>2, <2>3 DEF Discreet, Early
  <2> QED BY <1>1, <2>6, <2>7, DiscreetWaits
<1> QED BY <1>4, <1>5

LEMMA InitAudioFileWaits ==
    ASSUME TypeOK, CallsInv, Waiting, NEW p \in Call, InitAudioFile(p)
    PROVE  Waiting'
<1>1. Sound(p) /\ play[p].pc = "init" /\ WaitingCall(p) /\ play[p].on \in Call
  BY InitAudioFileKeeps, Drives DEF InitAudioFile, Waiting, Loop
<1>2. play[p].on = p
  BY <1>1, Fresh DEF WaitingCall
<1>3. mp3' = mp3 /\ meta' = meta /\ torn \subseteq torn' /\ shown' = shown
      /\ session' = session /\ started' = started
  BY DEF InitAudioFile, files
<1>4. \A q \in Call \ {p}, k \in Key :
         play[q].pc = "init" /\ gen[q].live /\ Usable(k) => Usable(k)'
  BY <1>1, <1>3, SameFilesUsable DEF Sound
<1>5. CASE ~gen[p].live
  <2>1. Moves(p, "done") /\ gen' = gen /\ source' = source
    BY <1>2, <1>5, GotoMoves DEF InitAudioFile
  <2>2. WaitingCall(p)'
    BY <2>1 DEF WaitingCall, Moves
  <2>3. Discreet(p)
    BY <1>3, <1>4, <2>1 DEF Discreet, Early, Moves
  <2> QED BY <1>1, <2>2, <2>3, DiscreetWaits
<1>6. CASE gen[p].live /\ Resumable(KeyOf(p))
  <2>1. session = p /\ SessionKey = shown
    BY <1>6, Fresh DEF Waiting, SessionKey
  <2>2. source' = shown /\ gen' = [gen EXCEPT ![p].words = ResumedWords(KeyOf(p))]
    BY <1>2, <1>6, <2>1 DEF InitAudioFile
  <2>3. gen[p] \in GenState /\ play[p] \in PlayState
    BY DEF TypeOK
  <2>4. \A s \in Call : gen'[s].key = gen[s].key /\ (gen'[s].live <=> gen[s].live)
    BY <2>2, <2>3 DEF TypeOK, GenState
  <2>5. \A s \in Call \ {p} : gen'[s].words = gen[s].words
    BY <2>2 DEF TypeOK
  <2>6. play'[p].pc = "open" /\ play'[p].on = play[p].on
    <3>1. play' = [play EXCEPT ![p] = [play[p] EXCEPT
                     !.pc = "open", !.i = StartIndex(KeyOf(p)), !.told = TRUE,
                     !.next = IF meta[KeyOf(p)] = Chunks THEN "finish" ELSE "infer"]]
      BY <1>2, <1>6 DEF InitAudioFile, TypeOK
    <3> QED BY <2>3, <3>1 DEF TypeOK, PlayState
  <2>7. WaitingCall(p)'
    BY <1>2, <1>3, <2>2, <2>6 DEF WaitingCall
  <2>8. Discreet(p)
    BY <1>3, <1>4, <2>1, <2>2, <2>4, <2>5, Fresh DEF Discreet
  <2> QED BY <1>1, <2>7, <2>8, DiscreetWaits
<1>7. CASE gen[p].live /\ ~Resumable(KeyOf(p))
  <2>1. Moves(p, "infer") /\ gen' = gen /\ source' = source
    BY <1>2, <1>7, GotoMoves DEF InitAudioFile, Loop
  <2>2. WaitingCall(p)'
    BY <1>2, <2>1 DEF WaitingCall, Moves
  <2>3. Discreet(p)
    BY <1>3, <1>4, <2>1 DEF Discreet, Early, Moves
  <2> QED BY <1>1, <2>2, <2>3, DiscreetWaits
<1> QED BY <1>5, <1>6, <1>7

\* A call in generate() drives its own generator, and is nothing the user waits
\* for when it goes on or ends.
LEMMA WaitingInLoop ==
    ASSUME TypeOK, CallsInv, Waiting, NEW p \in Call, play[p].pc \in Loop
    PROVE  WaitingCall(p) /\ play[p].on = p /\ KeyOf(p) = gen[p].key
BY Drives, Fresh DEF Waiting, WaitingCall, KeyOf

LEMMA MovesWaits ==
    ASSUME Waiting, NEW p \in Call, NEW pc \in {"write", "meta", "stamp", "evict", "done"},
           Moves(p, pc)
    PROVE  WaitingCall(p)' /\ play'[p].pc \notin Early
BY DEF Waiting, WaitingCall, Moves, Early

LEMMA InferWaits ==
    ASSUME TypeOK, CallsInv, Waiting, NEW p \in Call, Infer(p)
    PROVE  Waiting'
<1>1. Sound(p) /\ play[p].pc = "infer" /\ play[p].on = p
  BY InferKeeps, WaitingInLoop DEF Infer, Loop
<1>2. Moves(p, "write") \/ Moves(p, "done")
  BY GotoMoves DEF Infer, Loop
<1>3. mp3' = mp3 /\ meta' = meta /\ torn' = torn /\ session' = session /\ shown' = shown
      /\ started' = started /\ source' = source
  BY DEF Infer, files, history
<1>4. /\ \A s \in Call : gen'[s].key = gen[s].key /\ (gen'[s].live <=> gen[s].live)
      /\ \A s \in Call \ {p} : gen'[s].words = gen[s].words
  <2>1. gen' = gen \/ gen' = [gen EXCEPT ![p] = [gen[p] EXCEPT !.words = Append(@, play[p].i)]]
    BY <1>1 DEF Infer, TypeOK
  <2>2. gen[p] \in GenState
    BY DEF TypeOK
  <2> QED BY <2>1, <2>2 DEF TypeOK, GenState
<1>5. Discreet(p)
  BY <1>1, <1>2, <1>3, <1>4, MovesWaits, SameFilesUsable DEF Discreet, Sound
<1> QED BY <1>1, <1>2, <1>5, MovesWaits, DiscreetWaits

LEMMA WriteChunkWaits ==
    ASSUME TypeOK, CallsInv, Waiting, NEW p \in Call, WriteChunk(p)
    PROVE  Waiting'
<1>1. Sound(p) /\ play[p].pc = "write" /\ play[p].pc \in Loop /\ KeyOf(p) \in Key
      /\ play[p].on \in Call
  BY WriteChunkKeeps, Drives DEF WriteChunk, Loop
<1>2. Moves(p, "meta")
  BY GotoMoves DEF WriteChunk, Loop
<1>3. meta' = meta /\ torn' = torn /\ gen' = gen /\ session' = session /\ shown' = shown
      /\ started' = started /\ source' = source
  BY DEF WriteChunk, player, history
<1>4. KeyOf(p)' = KeyOf(p)
  BY <1>2, <1>3 DEF KeyOf, Moves
<1>5. ASSUME NEW k \in Key, Usable(k) PROVE Usable(k)'
  <2>1. CASE k = KeyOf(p)
    BY <1>2, <1>4, <2>1 DEF Usable, Troubled, At, Moves
  <2>2. CASE k # KeyOf(p)
    <3>1. mp3'[k] = mp3[k]
      BY <2>2 DEF WriteChunk, TypeOK
    <3> QED BY <1>1, <1>3, <1>5, <3>1, UsableKept DEF Complete, Sound
  <2> QED BY <2>1, <2>2
<1>6. Discreet(p)
  BY <1>2, <1>3, <1>5, MovesWaits DEF Discreet
<1> QED BY <1>1, <1>2, <1>6, MovesWaits, DiscreetWaits

LEMMA WriteMetaWaits ==
    ASSUME TypeOK, CallsInv, Waiting, NEW p \in Call, WriteMeta(p)
    PROVE  Waiting'
<1>1. Sound(p) /\ play[p].pc = "meta" /\ KeyOf(p) \in Key /\ play[p].i \in Chunk
  BY WriteMetaKeeps, Drives DEF WriteMeta, Loop, CallInv
<1>2. \/ Moves(p, "stamp") /\ gen' = gen /\ session' = session /\ started' = started
      \/ Moves(p, "done") /\ Disposes
  <2>1. CASE gen[play[p].on].live
    <3>1. Goto(p, "stamp") /\ gen' = gen /\ session' = session /\ started' = started
      BY <2>1 DEF WriteMeta
    <3> QED BY <3>1, GotoMoves DEF Loop
  <2>2. CASE ~gen[play[p].on].live
    BY <2>2, GotoMoves, CleanupDisposes DEF WriteMeta, Fails
  <2> QED BY <2>1, <2>2
<1>3. mp3' = mp3 /\ torn' = torn /\ shown' = shown /\ source' = source
  BY DEF WriteMeta
<1>4. ASSUME NEW k \in Key, Usable(k) PROVE Usable(k)'
  <2>1. CASE k = KeyOf(p)
    <3>1. meta'[k] # NoMeta
      BY <1>1, <2>1, SpeechAssumption DEF WriteMeta, TypeOK, Chunk, NoMeta
    <3> QED BY <3>1 DEF Usable, Complete
  <2>2. CASE k # KeyOf(p)
    <3>1. meta'[k] = meta[k]
      BY <2>2 DEF WriteMeta, TypeOK
    <3> QED BY <1>1, <1>3, <1>4, <2>2, <3>1, UsableKept DEF Complete, Sound
  <2> QED BY <2>1, <2>2
<1>5. Discreet(p)
  BY <1>2, <1>3, <1>4, MovesWaits DEF Discreet, Disposes
<1> QED BY <1>1, <1>2, <1>5, MovesWaits, DiscreetWaits

LEMMA SaveTimestampsWaits ==
    ASSUME TypeOK, CallsInv, Waiting, NEW p \in Call, SaveTimestamps(p)
    PROVE  Waiting'
<1>1. Sound(p) /\ play[p].pc = "stamp" /\ WaitingCall(p) /\ play[p].on = p
  BY SaveTimestampsKeeps, WaitingInLoop DEF SaveTimestamps, Loop
<1>2. mp3' = mp3 /\ meta' = meta /\ torn' = torn /\ shown' = shown
  BY DEF SaveTimestamps, history
<1>3. \A q \in Call \ {p}, k \in Key :
         play[q].pc = "init" /\ gen[q].live /\ Usable(k) => Usable(k)'
  BY <1>1, <1>2, SameFilesUsable DEF Sound
<1>4. CASE gen[p].live
  <2>1. Onwards(p) /\ gen' = gen /\ session' = session /\ started' = started
        /\ source' \in {source, SessionKey}
        /\ (play'[p].pc = "open" => source' = SessionKey)
    BY <1>1, <1>4, SavesOn
  <2>2. session = p /\ SessionKey = shown
    BY <1>4, Fresh DEF Waiting, SessionKey
  <2>3. WaitingCall(p)'
    BY <1>1, <1>2, <2>1, <2>2 DEF WaitingCall, Onwards
  <2>4. Discreet(p)
    BY <1>2, <1>3, <2>1, <2>2, Fresh DEF Discreet
  <2> QED BY <1>1, <2>3, <2>4, DiscreetWaits
<1>5. CASE ~gen[p].live
  <2>1. Moves(p, "done") /\ source' = source
        /\ (UNCHANGED <<gen, session, started>> \/ Disposes)
    BY <1>1, <1>5, SavesLast
  <2>2. Discreet(p)
    BY <1>2, <1>3, <2>1, MovesWaits DEF Discreet, Disposes
  <2> QED BY <1>1, <2>1, <2>2, MovesWaits, DiscreetWaits
<1> QED BY <1>4, <1>5

LEMMA FinalizeWaits ==
    ASSUME TypeOK, CallsInv, Waiting, NEW p \in Call, Finalize(p)
    PROVE  Waiting'
<1>1. Sound(p) /\ play[p].pc = "finish" /\ play[p].on = p
  BY FinalizeKeeps, WaitingInLoop DEF Finalize, Loop
<1>2. mp3' = mp3 /\ torn' = torn /\ gen' = gen /\ session' = session /\ shown' = shown
      /\ started' = started /\ source' = source
  BY DEF Finalize, player, history
<1>3. Moves(p, "evict") \/ Moves(p, "done")
  BY GotoMoves DEF Finalize, Loop
<1>4. ASSUME NEW q \in Call \ {p}, NEW k \in Key, gen[q].live, Usable(k) PROVE Usable(k)'
  <2>1. ~gen[p].live
    BY <1>4 DEF Waiting
  <2>2. meta' = meta
    BY <1>1, <2>1 DEF Finalize
  <2> QED BY <1>1, <1>2, <1>4, <2>2, SameFilesUsable DEF Sound
<1>5. Discreet(p)
  BY <1>2, <1>3, <1>4, MovesWaits DEF Discreet
<1> QED BY <1>1, <1>3, <1>5, MovesWaits, DiscreetWaits

LEMMA EvictWaits ==
    ASSUME TypeOK, CallsInv, Waiting, NEW p \in Call, Evict(p)
    PROVE  Waiting'
<1>1. Sound(p) /\ play[p].pc = "evict" /\ WaitingCall(p)
  BY EvictKeeps DEF Evict, Waiting
<1>2. mp3' = mp3 /\ gen' = gen /\ session' = session /\ shown' = shown
      /\ started' = started /\ source' = source
  BY DEF Evict, player
<1>3. PICK v \in Key :
             /\ play'[p].pc = "delete" /\ play'[p].victim = v
             /\ play'[p].on = play[p].on
             /\ meta' = [meta EXCEPT ![v] = NoMeta]
             /\ torn' = torn \cup {j \in {v} : \E q \in Call \ {p} : AtWork(q, v)}
  BY EvictMarks
<1>4. WaitingCall(p)'
  BY <1>1, <1>3 DEF WaitingCall
<1>5. ASSUME NEW k \in Key, Usable(k) PROVE Usable(k)'
  <2>1. CASE k = v
    BY <1>3, <2>1 DEF Usable, Troubled, HalfEvicted
  <2>2. CASE k # v
    <3>1. meta'[k] = meta[k]
      BY <1>3, <2>2 DEF TypeOK
    <3> QED BY <1>1, <1>2, <1>3, <1>5, <3>1, UsableKept DEF Complete, Sound
  <2> QED BY <2>1, <2>2
<1>6. Discreet(p)
  BY <1>2, <1>3, <1>5 DEF Discreet, Early
<1> QED BY <1>1, <1>4, <1>6, DiscreetWaits

LEMMA DeleteWaits ==
    ASSUME TypeOK, CallsInv, Waiting, NEW p \in Call, Delete(p)
    PROVE  Waiting'
<1>1. Sound(p) /\ play[p].pc = "delete" /\ WaitingCall(p) /\ play[p].victim \in Key
  BY DeleteKeeps, Drives DEF Delete, Waiting, CallInv, Loop
<1>2. meta' = meta /\ gen' = gen /\ session' = session /\ shown' = shown
      /\ started' = started /\ source' = source
  BY DEF Delete, player
<1>3. play'[p].pc = "evict" /\ play'[p].on = play[p].on
  BY DeleteUnmarks
<1>4. WaitingCall(p)'
  BY <1>1, <1>3 DEF WaitingCall
<1>5. ASSUME NEW k \in Key, Usable(k) PROVE Usable(k)'
  <2>1. CASE k = play[p].victim
    <3>1. mp3'[k] = <<>>
      BY <1>1, <2>1 DEF Delete, TypeOK
    <3> QED BY <3>1 DEF Usable, Complete
  <2>2. CASE k # play[p].victim
    <3>1. mp3'[k] = mp3[k] /\ (k \in torn => k \in torn')
      BY <2>2 DEF Delete, TypeOK
    <3> QED BY <1>1, <1>2, <1>5, <2>2, <3>1, UsableKept DEF Complete, Sound
  <2> QED BY <2>1, <2>2
<1>6. Discreet(p)
  BY <1>2, <1>3, <1>5 DEF Discreet, Early
<1> QED BY <1>1, <1>4, <1>6, DiscreetWaits

LEMMA DoneWaits ==
    ASSUME TypeOK, CallsInv, Waiting, NEW p \in Call, Done(p)
    PROVE  Waiting'
<1>1. Sound(p) /\ play[p].pc = "evict"
  BY DoneKeeps DEF Done
<1>2. mp3' = mp3 /\ meta' = meta /\ torn' = torn /\ shown' = shown /\ source' = source
  BY DEF Done, files, history
<1>3. Moves(p, "done") /\ (UNCHANGED <<gen, session, started>> \/ Disposes)
  <2>1. CASE gen[play[p].on].live
    BY <2>1, GotoMoves DEF Done
  <2>2. CASE ~gen[play[p].on].live
    BY <2>2, GotoMoves, CleanupDisposes DEF Done, Fails
  <2> QED BY <2>1, <2>2
<1>4. Discreet(p)
  BY <1>1, <1>2, <1>3, MovesWaits, SameFilesUsable DEF Discreet, Disposes, Sound
<1> QED BY <1>1, <1>3, <1>4, MovesWaits, DiscreetWaits

\* A press of play that makes the user wait for it finds no other call that she
\* waits for.
LEMMA PlayWaits ==
    ASSUME TypeOK, CallsInv, Waiting, NEW p \in Call, NEW k \in Key, Play(p, k),
           hurries = 0, hurries' = 0
    PROVE  Waiting'
<1>1. Sound(p) /\ Disposes
  BY PlayKeeps, CleanupDisposes DEF Play
<1>2. \A q \in Call : play[q].pc \notin Early
  BY DEF Play, Hurry
<1>3. play'[p].pc = "stopping" /\ play'[p].on = None
  BY DEF Play, TypeOK, NoPlay
<1>4. mp3' = mp3 /\ meta' = meta /\ torn' = torn /\ shown' = shown /\ source' = source
      /\ session' = None /\ ~started' /\ play[p].pc = "none"
  BY <1>1 DEF Play, Hurry, Disposes, files
<1>5. \A s \in Call : ~gen'[s].live
  BY <1>1 DEF Disposes, Waiting
<1>6. ASSUME NEW q \in Call PROVE WaitingCall(q)'
  <2>1. CASE q = p
    BY <1>1, <1>2, <1>3, <1>4, <1>5, <2>1 DEF WaitingCall, Sound, Others
  <2>2. CASE q # p
    <3>1. play'[q] = play[q] /\ WaitingCall(q) /\ play[q].pc \notin Early
      BY <1>1, <1>2, <2>2 DEF Sound, Others, Waiting
    <3> QED BY <1>1, <1>5, <3>1 DEF WaitingCall, Early, Disposes
  <2> QED BY <2>1, <2>2
<1> QED BY <1>4, <1>5, <1>6, Fresh DEF Waiting

LEMMA LeaveWaits ==
    ASSUME TypeOK, CallsInv, Waiting, NEW k \in Key \cup {NoKey}, Leave(k),
           hurries = 0, hurries' = 0
    PROVE  Waiting'
<1>1. Disposes /\ play' = play
  BY CleanupDisposes DEF Leave
<1>2. \A q \in Call : play[q].pc \notin Early
  BY DEF Leave, Hurry
<1>3. \A s \in Call : ~gen'[s].live
  BY <1>1 DEF Disposes, Waiting
<1>4. session' = None /\ ~started'
  BY <1>1 DEF Disposes
<1>5. ASSUME NEW q \in Call PROVE WaitingCall(q)'
  <2>1. WaitingCall(q) /\ play[q].pc \notin Early
    BY <1>2 DEF Waiting
  <2> QED BY <1>1, <1>3, <2>1 DEF WaitingCall, Early, Disposes
<1> QED BY <1>3, <1>4, <1>5, Fresh DEF Waiting

LEMMA BeginWaits ==
    ASSUME TypeOK, CallsInv, Waiting, NEW p \in Call, Begin(p)
    PROVE  Waiting'
<1>1. Sound(p) /\ play[p].pc = "stopping" /\ WaitingCall(p)
  BY BeginKeeps DEF Begin, Waiting
<1>2. Moves(p, "checking")
  BY GotoMoves DEF Begin, Early
<1>3. session = None /\ ~started /\ \A q \in Call \ {p} : play[q].pc \notin Early
  BY <1>1 DEF WaitingCall
<1>4. \A s \in Call : ~gen[s].live
  BY <1>3, Fresh DEF Waiting
<1>5. /\ gen'[p].key = play[p].key /\ gen'[p].live /\ gen'[p].words = <<>>
      /\ \A s \in Call \ {p} : gen'[s] = gen[s]
  BY DEF Begin, TypeOK, NoGen
<1>6. session' = p /\ shown' = play[p].key /\ started' = started
      /\ mp3' = mp3 /\ meta' = meta /\ torn' = torn
  BY DEF Begin, files, history
<1>7. WaitingCall(p)'
  BY <1>1, <1>2, <1>5, <1>6 DEF WaitingCall, Moves
<1>8. ASSUME NEW q \in Call \ {p} PROVE WaitingCall(q)'
  <2>1. WaitingCall(q) /\ play[q].pc \notin Early /\ play'[q] = play[q] /\ gen'[q] = gen[q]
    BY <1>2, <1>3, <1>5 DEF Waiting, Moves
  <2> QED BY <1>4, <2>1 DEF WaitingCall, Early
<1> QED BY <1>3, <1>4, <1>5, <1>6, <1>7, <1>8 DEF Waiting

LEMMA CrashWaits ==
    ASSUME TypeOK, CallsInv, Crash
    PROVE  Waiting'
<1>1. \A p \in Call : play'[p].on = None /\ play'[p].pc \in {"none", "done"}
  BY DEF Crash, NoPlay
<1>2. session' = None /\ ~started' /\ \A s \in Call : ~gen'[s].live
  BY DEF Crash, NoGen
<1> QED BY <1>1, <1>2, Fresh DEF Waiting, WaitingCall

LEMMA AppWaits ==
    ASSUME TypeOK, CallsInv, Waiting, App
    PROVE  Waiting'
BY BeginWaits, PlayFromFileWaits, OpenedWaits, GenerateWaits, InitAudioFileWaits, InferWaits,
   WriteChunkWaits, WriteMetaWaits, SaveTimestampsWaits, FinalizeWaits, EvictWaits, DeleteWaits,
   DoneWaits DEF App

\* A user who has waited for every call of play so far has done so before, too.
LEMMA HurriesGrow ==
    ASSUME TypeOK, Next, hurries' = 0
    PROVE  hurries = 0
<1>1. hurries' = hurries \/ hurries' = hurries + 1
  <2>1. CASE User
    BY <2>1 DEF User, Play, Leave, Hurry
  <2>2. CASE App
    BY <2>2 DEF App, Begin, PlayFromFile, Opened, Generate, InitAudioFile, Infer, WriteChunk,
       WriteMeta, SaveTimestamps, Finalize, Evict, Delete, Done, history
  <2>3. CASE Crash
    BY <2>3 DEF Crash
  <2> QED BY <2>1, <2>2, <2>3 DEF Next
<1> QED BY <1>1, SpeechAssumption DEF TypeOK

\* While the user waits for one call of play at a time, the session's is the only
\* generator that runs, it is that of the article that is shown, and so is what
\* is heard.
THEOREM WaitingInvAlways == Spec => []WaitingInv
<1>1. Init => WaitingInv
  BY Fresh DEF Init, WaitingInv, Waiting, WaitingCall, NoPlay, NoGen
<1>2. TypeOK /\ CallsInv /\ WaitingInv /\ [Next]_vars => WaitingInv'
  <2> SUFFICES ASSUME TypeOK, CallsInv, WaitingInv, [Next]_vars, hurries' = 0
               PROVE  Waiting'
    BY DEF WaitingInv
  <2>1. CASE Next
    <3>1. hurries = 0 /\ Waiting
      BY <2>1, HurriesGrow DEF WaitingInv
    <3>2. CASE User
      BY <3>1, <3>2, PlayWaits, LeaveWaits DEF User
    <3>3. CASE App
      BY <3>1, <3>3, AppWaits
    <3>4. CASE Crash
      BY <3>4, CrashWaits
    <3> QED BY <2>1, <3>2, <3>3, <3>4 DEF Next
  <2>2. CASE UNCHANGED vars
    <3>1. Waiting
      BY <2>2 DEF WaitingInv, vars, history
    <3> QED BY <2>2, <3>1 DEF vars, files, player, history, Waiting, WaitingCall, Usable,
                  Troubled, Complete, At, HalfEvicted, KeyOf
  <2> QED BY <2>1, <2>2
<1> QED BY <1>1, <1>2, SpeechTypesAlways, PTL DEF Spec

\* No generation goes on behind the user's back.
THEOREM OneSessionAlways == Spec => []OneSession
<1>1. WaitingInv => OneSession
  BY DEF WaitingInv, Waiting, OneSession
<1> QED BY <1>1, WaitingInvAlways, PTL

\* What is heard is the article that is shown.
THEOREM ShownIsHeardAlways == Spec => []ShownIsHeard
<1>1. WaitingInv => ShownIsHeard
  BY DEF WaitingInv, Waiting, ShownIsHeard
<1> QED BY <1>1, WaitingInvAlways, PTL

============================================================================
