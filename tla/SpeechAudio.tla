---------------------------- MODULE SpeechAudio ----------------------------
(***************************************************************************)
(* The app reads an article aloud: the player starts a session for it      *)
(* (ActivePlayer.play), whose generator turns the article's chunks into    *)
(* speech one by one and appends each to a growing file, next to which a   *)
(* .meta file says how far it got and a .timestamps file when each word is *)
(* spoken (AudioGenerator, GrowingAudioFile).  A file with no .meta is     *)
(* complete and is played from the cache, which evicts files when they get *)
(* too large (AudioCache).  The user changes articles whenever she likes,  *)
(* and the app may die at any time.                                        *)
(*                                                                         *)
(* Dart runs one callback at a time: a step is the code between two        *)
(* awaits.  A key stands for an article, its text, a voice and a speed.    *)
(* Every chunk has some sound, so an audio file exists when it has a chunk;*)
(* the frames that finalize appends are left out, and so are pausing, the  *)
(* position, and loading the same file again as it grows.  dispose() is    *)
(* taken to be done with the file by the next step of a call.              *)
(***************************************************************************)
EXTENDS Naturals, Sequences, FiniteSetsExt

CONSTANTS
    Key,
    Chunks,     \* how many chunks an article has
    MaxSize,    \* _maxCacheBytes, in chunks
    MaxPlays,   \* bound: how often the user plays an article,
    MaxHurried, \* and how often when she goes on before play() is done at times,
    MaxHurry,   \* which she does so often
    MaxCrash    \* bound: how often the app dies

ASSUME SpeechAssumption ==
    /\ Chunks \in Nat \ {0} /\ MaxSize \in Nat
    /\ MaxPlays \in Nat /\ MaxHurried \in Nat /\ MaxHurry \in Nat /\ MaxCrash \in Nat

VARIABLES
    \* the files
    mp3,        \* the chunks in the audio file, in order
    meta,       \* .meta: lastChunkIndex (from 1), none, or unreadable
    stamps,     \* .timestamps: the chunks whose words it has
    \* the player
    play,       \* the calls of play(), each with the generate() it awaits
    gen,        \* the generators: a call makes one at most
    session,    \* _session: the generator, or none
    shown,      \* state.articleId, as its key, or none
    started,    \* _playerStarted
    source,     \* the file the audio handler plays
    \* history
    torn,       \* keys whose files were left in pieces
    unstamped,  \* keys whose timestamps were left behind the audio
    hurries,    \* how often the user went on before play() was done
    crashes     \* how often the app died

files == <<mp3, meta, stamps>>
player == <<gen, session, shown, started, source>>
history == <<torn, unstamped, hurries, crashes>>
vars == <<files, play, player, history>>

Call == 1..MaxPlays
Chunk == 1..Chunks
Whole == [i \in Chunk |-> i]
NoMeta == 0
BadMeta == Chunks + 1
None == 0
NoKey == "none"
\* A call: where it is, of what, whose generator it drives, at which chunk,
\* whether it has called onBufferReady, where it goes on once the player has
\* loaded the file, and the file it is about to evict.
NoPlay == [pc |-> "none", key |-> NoKey, on |-> None, i |-> 1, told |-> FALSE,
           next |-> "done", victim |-> NoKey]
NoGen == [key |-> NoKey, live |-> FALSE, words |-> <<>>]

\* The player has not got the audio of the call yet; generate() runs.
Early == {"stopping", "checking", "open"}
Loop == {"init", "infer", "write", "meta", "stamp", "finish", "evict", "delete"}
KeyOf(p) == gen[play[p].on].key

\* The call will still change the files of k.
AtWork(p, k) ==
    \/ /\ play[p].pc \in Loop \cup {"open"} /\ play[p].on # None
       /\ KeyOf(p) = k
       /\ gen[play[p].on].live \/ play[p].pc \in {"write", "meta", "stamp"}
    \/ play[p].pc = "delete" /\ play[p].victim = k

\* The keys whose files a call is at work on at one of these places.
At(pcs) == {KeyOf(p) : p \in {q \in Call : play[q].pc \in pcs}}
HalfEvicted == {play[p].victim : p \in {q \in Call : play[q].pc = "delete"}}

\* checkCacheForComplete
Complete(k) == mp3[k] # <<>> /\ meta[k] = NoMeta

PlayState ==
    [pc : Early \cup Loop \cup {"none", "done"}, key : Key \cup {NoKey}, on : Call \cup {None},
     i : 1..Chunks + 1, told : BOOLEAN, next : {"done", "infer", "finish"},
     victim : Key \cup {NoKey}]
GenState == [key : Key \cup {NoKey}, live : BOOLEAN, words : Seq(Chunk)]

TypeOK ==
    /\ mp3 \in [Key -> Seq(Chunk)] /\ stamps \in [Key -> Seq(Chunk)]
    /\ meta \in [Key -> 0..BadMeta]
    /\ play \in [Call -> PlayState] /\ gen \in [Call -> GenState]
    /\ session \in Call \cup {None}
    /\ session # None => gen[session].live
    /\ shown \in Key \cup {NoKey} /\ started \in BOOLEAN /\ source \in Key \cup {NoKey}
    /\ torn \subseteq Key /\ unstamped \subseteq Key
    /\ hurries \in 0..MaxHurry /\ crashes \in 0..MaxCrash

Init ==
    /\ mp3 = [k \in Key |-> <<>>] /\ meta = [k \in Key |-> NoMeta]
    /\ stamps = [k \in Key |-> <<>>]
    /\ play = [p \in Call |-> NoPlay] /\ gen = [s \in Call |-> NoGen]
    /\ session = None /\ shown = NoKey /\ started = FALSE /\ source = NoKey
    /\ torn = {} /\ unstamped = {} /\ hurries = 0 /\ crashes = 0

----------------------------------------------------------------------------
(* play(), up to the generation. *)

\* The generator forgotten but not disposed of; disposed of but not forgotten;
\* _playerStarted left as it is.
Cleanup_Orphan ==
    gen' = gen /\ session' = None /\ started' = FALSE
Cleanup_Dangling ==
    /\ gen' = IF session = None THEN gen ELSE [gen EXCEPT ![session].live = FALSE]
    /\ session' = session /\ started' = FALSE
Cleanup_Started ==
    /\ gen' = IF session = None THEN gen ELSE [gen EXCEPT ![session].live = FALSE]
    /\ session' = None /\ started' = started

\* _cleanup: the session there is, whoever calls it.
Cleanup ==
    /\ gen' = IF session = None THEN gen ELSE [gen EXCEPT ![session].live = FALSE]
    /\ session' = None /\ started' = FALSE

Goto(p, pc) ==
    play' = [play EXCEPT ![p] = [IF pc = "done" THEN NoPlay ELSE @ EXCEPT
                                 !.pc = pc, !.next = "done"]]

\* History.
Hurry ==
    /\ hurries' = IF \E q \in Call : play[q].pc \in Early THEN hurries + 1 ELSE hurries
    /\ hurries' <= MaxHurry
    /\ UNCHANGED <<torn, unstamped, crashes>>

\* The same article again, with its audio loaded, is resumed: nothing changes.
Play(p, k) ==
    /\ play[p].pc = "none" /\ \A q \in Call : q < p => play[q].pc # "none"
    /\ ~(shown = k /\ started)
    /\ play' = [play EXCEPT ![p] = [NoPlay EXCEPT !.pc = "stopping", !.key = k]]
    /\ Cleanup
    /\ Hurry /\ (hurries' > 0 => p <= MaxHurried)
    /\ UNCHANGED <<files, shown, source>>

\* stop, or loadArticle of another article: nothing plays.
Leave(k) ==
    /\ k # shown
    /\ Cleanup /\ shown' = k /\ source' = NoKey
    /\ Hurry
    /\ UNCHANGED <<files, play>>

\* The handler has stopped; a session that another call made is not disposed of.
Begin(p) ==
    /\ play[p].pc = "stopping"
    /\ Goto(p, "checking")
    /\ shown' = play[p].key /\ source' = NoKey
    /\ gen' = [gen EXCEPT ![p] = [NoGen EXCEPT !.key = play[p].key, !.live = TRUE]]
    /\ session' = p
    /\ UNCHANGED <<files, started, history>>

\* The audio handler is given a file; playing starts when it has loaded it.
Open(p, k, then) ==
    /\ source' = k
    /\ play' = [play EXCEPT ![p] = [@ EXCEPT !.pc = "open", !.next = then]]
Opened(p) ==
    /\ play[p].pc = "open"
    /\ Goto(p, play[p].next)
    /\ started' = TRUE
    /\ UNCHANGED <<files, gen, session, shown, source, history>>

PlayFromFile(p) ==
    /\ play[p].pc = "checking" /\ Complete(play[p].key)
    /\ Open(p, play[p].key, "done")
    /\ UNCHANGED <<files, gen, session, shown, started, history>>

\* generate() is called on the session there is by now; with none, play() fails.
Generate(p) ==
    /\ play[p].pc = "checking" /\ ~Complete(play[p].key)
    /\ IF session = None
       THEN Goto(p, "done") /\ Cleanup
       ELSE /\ play' = [play EXCEPT ![p] = [@ EXCEPT !.pc = "init", !.on = session]]
            /\ UNCHANGED <<gen, session, started>>
    /\ UNCHANGED <<files, shown, source, history>>

----------------------------------------------------------------------------
(* generate() *)

\* onBufferReady plays the file of the session there is.
SessionKey == IF session = None THEN source ELSE gen[session].key

\* The chunk in .meta once more; the timestamps of the earlier chunks lost.
StartIndex_Same(k) == meta[k]
ResumedWords_None(k) == <<>>

\* tryResume: from the chunk after the one in .meta, or into a new file - which
\* is appended to what there is.  The part that is there is played at once.
Resumable(k) == mp3[k] # <<>> /\ meta[k] \in Chunk
StartIndex(k) == meta[k] + 1
ResumedWords(k) == stamps[k]
InitAudioFile(p) ==
    LET s == play[p].on
        k == KeyOf(p)  IN
    /\ play[p].pc = "init"
    /\ torn' = torn \cup {j \in {k} : \/ \E q \in Call \ {p} : AtWork(q, k)
                                     \/ (hurries > 0 /\ (Complete(k) \/ gen[s].words # <<>>))}
    /\ \/ /\ ~gen[s].live
          /\ Goto(p, "done") /\ UNCHANGED <<gen, source>>
       \/ /\ gen[s].live /\ Resumable(k)
          /\ source' = SessionKey
          /\ play' = [play EXCEPT ![p] = [@ EXCEPT
                         !.pc = "open", !.i = StartIndex(k), !.told = TRUE,
                         !.next = IF meta[k] = Chunks THEN "finish" ELSE "infer"]]
          /\ gen' = [gen EXCEPT ![s].words = ResumedWords(k)]
       \/ /\ gen[s].live /\ ~Resumable(k)
          /\ Goto(p, "infer") /\ UNCHANGED <<gen, source>>
    /\ UNCHANGED <<files, session, shown, started, unstamped, hurries, crashes>>

\* runInference is done: generate() ends if the session was disposed of.
Infer(p) ==
    /\ play[p].pc = "infer"
    /\ IF gen[play[p].on].live
       THEN /\ gen' = [gen EXCEPT ![play[p].on].words = Append(@, play[p].i)]
            /\ Goto(p, "write")
       ELSE Goto(p, "done") /\ UNCHANGED gen
    /\ UNCHANGED <<files, session, shown, started, source, history>>

\* addChunk: the audio, then .meta - disposed of or not.
WriteChunk(p) ==
    /\ play[p].pc = "write"
    /\ mp3' = [mp3 EXCEPT ![KeyOf(p)] = Append(@, play[p].i)]
    /\ Goto(p, "meta")
    /\ UNCHANGED <<meta, stamps, player, history>>

\* generate() then reads _audioFile, which dispose() has set to null: the error
\* ends this call of play(), which cleans up the session there is by now.
Fails(p) == Goto(p, "done") /\ Cleanup

WriteMeta(p) ==
    /\ play[p].pc = "meta"
    /\ meta' = [meta EXCEPT ![KeyOf(p)] = play[p].i]
    /\ IF gen[play[p].on].live
       THEN Goto(p, "stamp") /\ UNCHANGED <<gen, session, started, unstamped>>
       ELSE Fails(p) /\ unstamped' = unstamped \cup {KeyOf(p)}
    /\ UNCHANGED <<mp3, stamps, shown, source, torn, hurries, crashes>>

\* The timestamps; then the next chunk, or the end.  The player is told once
\* there is enough to play, at the end at the latest.
SaveTimestamps(p) ==
    LET s == play[p].on
        last == play[p].i = Chunks
        then == IF last THEN "finish" ELSE "infer"
        onwards == [play[p] EXCEPT !.i = @ + 1, !.pc = then, !.next = then]  IN
    /\ play[p].pc = "stamp"
    /\ stamps' = [stamps EXCEPT ![KeyOf(p)] = gen[s].words]
    /\ \/ /\ gen[s].live /\ ~play[p].told
          /\ source' = SessionKey
          /\ play' = [play EXCEPT ![p] = [onwards EXCEPT !.pc = "open", !.told = TRUE]]
          /\ UNCHANGED <<gen, session, started>>
       \/ /\ gen[s].live /\ (last => play[p].told)
          /\ play' = [play EXCEPT ![p] = onwards]
          /\ UNCHANGED <<gen, session, started, source>>
       \/ /\ ~gen[s].live /\ play[p].told
          /\ Goto(p, "done") /\ UNCHANGED <<gen, session, started, source>>
       \/ /\ ~gen[s].live /\ ~play[p].told
          /\ Fails(p) /\ UNCHANGED source
    /\ UNCHANGED <<mp3, meta, shown, history>>

\* finalize deletes .meta; the timestamps are saved once more.
Finalize(p) ==
    /\ play[p].pc = "finish"
    /\ IF gen[play[p].on].live
       THEN /\ meta' = [meta EXCEPT ![KeyOf(p)] = NoMeta]
            /\ stamps' = [stamps EXCEPT ![KeyOf(p)] = gen[play[p].on].words]
            /\ Goto(p, "evict")
       ELSE Goto(p, "done") /\ UNCHANGED <<meta, stamps>>
    /\ UNCHANGED <<mp3, player, history>>

\* evictIfNeeded.  Which file was accessed least recently is up to the file
\* system: any may be next.  Its .meta and .timestamps go before the audio.
CacheSize == FoldSet(LAMBDA k, n : n + Len(mp3[k]), 0, Key)
Evict(p) ==
    /\ play[p].pc = "evict" /\ CacheSize > MaxSize
    /\ \E k \in {j \in Key : mp3[j] # <<>>} :
          /\ meta' = [meta EXCEPT ![k] = NoMeta]
          /\ stamps' = [stamps EXCEPT ![k] = <<>>]
          /\ torn' = torn \cup {j \in {k} : \E q \in Call \ {p} : AtWork(q, k)}
          /\ play' = [play EXCEPT ![p] = [@ EXCEPT !.pc = "delete", !.victim = k]]
    /\ UNCHANGED <<mp3, player, unstamped, hurries, crashes>>
Delete(p) ==
    LET k == play[p].victim
        clean == {j \in {k} : ~\E q \in Call \ {p} : AtWork(q, k)}  IN
    /\ play[p].pc = "delete"
    /\ mp3' = [mp3 EXCEPT ![k] = <<>>]
    /\ torn' = torn \ clean /\ unstamped' = unstamped \ clean
    /\ play' = [play EXCEPT ![p] = [@ EXCEPT !.pc = "evict", !.victim = NoKey]]
    /\ UNCHANGED <<meta, stamps, player, hurries, crashes>>

\* Complete - or an error, when the generator was disposed of meanwhile.
Done(p) ==
    /\ play[p].pc = "evict" /\ CacheSize <= MaxSize
    /\ IF gen[play[p].on].live THEN Goto(p, "done") /\ UNCHANGED <<gen, session, started>>
                               ELSE Fails(p)
    /\ UNCHANGED <<files, shown, source, history>>

----------------------------------------------------------------------------
\* The app dies: the files stay as they are, .meta perhaps half written.
Crash ==
    /\ crashes < MaxCrash /\ crashes' = crashes + 1
    /\ \E bad \in SUBSET At({"meta"}) :
          meta' = [k \in Key |-> IF k \in bad THEN BadMeta ELSE meta[k]]
    /\ torn' = torn \cup At({"meta"}) \cup HalfEvicted
    /\ unstamped' = unstamped \cup At({"stamp"})
    /\ play' = [p \in Call |-> IF play[p].pc = "none" THEN NoPlay ELSE [NoPlay EXCEPT !.pc = "done"]]
    /\ gen' = [s \in Call |-> NoGen]
    /\ session' = None /\ shown' = NoKey /\ started' = FALSE /\ source' = NoKey
    /\ UNCHANGED <<mp3, stamps, hurries>>

User == \/ \E p \in Call, k \in Key : Play(p, k)
        \/ \E k \in Key \cup {NoKey} : Leave(k)

App == \E p \in Call :
    \/ Begin(p) \/ PlayFromFile(p) \/ Opened(p) \/ Generate(p)
    \/ InitAudioFile(p) \/ Infer(p) \/ WriteChunk(p) \/ WriteMeta(p) \/ SaveTimestamps(p)
    \/ Finalize(p) \/ Evict(p) \/ Delete(p) \/ Done(p)

Next == User \/ App \/ Crash

Spec == Init /\ [][Next]_vars

----------------------------------------------------------------------------
\* A file that is taken for complete has every chunk once and in order: an
\* interrupted generation is resumed where it stopped, however often it is
\* interrupted and whoever takes over (audio_generator.dart:88-94,171-180).
\* Not so for a key that was left in pieces (torn), nor while its first chunk
\* has no .meta yet or the file is being evicted.
CompleteIsWhole ==
    \A k \in Key : Complete(k) =>
        mp3[k] = Whole \/ k \in torn \cup At({"meta"}) \cup HalfEvicted

\* Complete audio has the timestamps of all its words, those of the chunks that
\* earlier sessions made included (audio_generator.dart:145-146,183-189).
HighlightsMatch ==
    \A k \in Key : Complete(k) /\ mp3[k] = Whole =>
        \/ stamps[k] = Whole
        \/ k \in torn \cup unstamped \cup At({"meta", "stamp"}) \cup HalfEvicted

\* A generator that is not disposed of is the session: no generation goes on
\* behind the user's back once she has gone on to another article or stopped
\* (article_player_provider.dart:220-222,335-340), unless she was quicker than
\* play().
OneSession == hurries = 0 => \A s \in Call : gen[s].live <=> s = session

\* What is heard is the article that is shown (article_player_provider.dart:
\* 227-236,370-394), also when an older generation comes to its end or fails
\* meanwhile; with the same exception.
ShownIsHeard == started /\ hurries = 0 => source = shown

\* Why these four hold.  How a call and the files it writes stand: it has
\* written the chunks before the one it is at, .meta says so once it has one, and
\* the timestamps are those of the chunks; a file nobody writes has a beginning of
\* the article, and without .meta all of it.  Not so for a torn key; without the
\* timestamps for an unstamped one.
UpTo(seq, n) == Len(seq) = n /\ \A j \in 1..n : seq[j] = j
Writing(p, k) ==
    /\ play[p].pc \in {"open", "infer", "write", "meta", "stamp", "finish"}
    /\ play[p].on # None /\ KeyOf(p) = k
    /\ gen[play[p].on].live \/ play[p].pc \in {"write", "meta", "stamp"}
Written(p) == IF play[p].pc \in {"meta", "stamp"} THEN play[p].i ELSE play[p].i - 1
Spoken(p) == IF play[p].pc = "write" THEN play[p].i ELSE Written(p)
AudioOf(p, k) ==
    /\ UpTo(mp3[k], Written(p))
    /\ Written(p) > 0 /\ play[p].pc # "meta" => meta[k] = Written(p)
StampsOf(p, k) ==
    /\ UpTo(gen[play[p].on].words, Spoken(p))
    /\ Written(p) > 0 /\ play[p].pc \notin {"meta", "stamp"} => UpTo(stamps[k], Written(p))
AudioAtRest(k) ==
    LET n == Len(mp3[k]) IN n > 0 =>
        UpTo(mp3[k], n) /\ (meta[k] = n \/ (meta[k] = NoMeta /\ n = Chunks))
StampsAtRest(k) == LET n == Len(mp3[k]) IN n > 0 => UpTo(stamps[k], n)
OneWriter(k) ==
    /\ \A p, q \in Call : Writing(p, k) /\ Writing(q, k) => p = q
    /\ k \in HalfEvicted => \A p \in Call : ~Writing(p, k)
FilesOf(k) ==
    k \notin HalfEvicted =>
        /\ \A p \in Call : Writing(p, k) =>
             AudioOf(p, k) /\ (k \notin unstamped => StampsOf(p, k))
        /\ (\A p \in Call : ~Writing(p, k)) =>
             AudioAtRest(k) /\ (k \notin unstamped => StampsAtRest(k))
FilesInv == \A k \in Key \ torn : OneWriter(k) /\ FilesOf(k)

\* Where a call may be: it drives a generator some call has begun.
Begun(s) == gen[s].key \in Key /\ play[s].pc \notin {"none", "stopping"}
CallInv(p) ==
    /\ play[p].pc \in {"stopping", "checking"} => play[p].key \in Key /\ play[p].on = None
    /\ play[p].pc \in {"stopping", "checking", "init"} => play[p].i = 1
    /\ play[p].pc \in Loop \/ (play[p].pc = "open" /\ play[p].next # "done") => play[p].on # None
    /\ "infer" \in {play[p].pc, play[p].next} \/ play[p].pc \in {"write", "meta", "stamp"}
         => play[p].i \in Chunk
    /\ "finish" \in {play[p].pc, play[p].next} => play[p].i = Chunks + 1
    /\ play[p].pc = "delete" => play[p].victim \in Key
    /\ play[p].on # None => Begun(play[p].on)
CallsInv == (\A p \in Call : CallInv(p)) /\ (session # None => Begun(session))

\* While the user waits for play(): she does so for one call at a time, which
\* finds no other session, drives its own generator and opens what is shown.
Troubled(k) == k \in torn \cup At({"meta"}) \cup HalfEvicted
Usable(k) == Complete(k) => Troubled(k)
WaitingCall(p) ==
    /\ play[p].pc = "stopping" =>
         /\ session = None /\ ~started
         /\ \A q \in Call \ {p} : play[q].pc \notin Early
    /\ play[p].pc = "checking" => shown = play[p].key /\ session \in {None, p}
    /\ play[p].pc = "open" => source = shown
    /\ play[p].on \in {None, p}
    /\ play[p].pc \in {"checking", "init"} => gen[p].words = <<>>
    /\ play[p].pc = "init" /\ gen[p].live => Usable(KeyOf(p))
Waiting ==
    /\ \A s \in Call : gen[s].live <=> s = session
    /\ session # None => gen[session].key = shown
    /\ started => source = shown
    /\ \A p \in Call : WaitingCall(p)
WaitingInv == hurries = 0 => Waiting

SpeechInv == TypeOK /\ CallsInv /\ WaitingInv /\ FilesInv
============================================================================
