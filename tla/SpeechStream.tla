---------------------------- MODULE SpeechStream ----------------------------
(***************************************************************************)
(* The speech output: the synthesizer, which speaks one text part by part  *)
(* on the one music channel of the mixer, the streaming sessions, each a   *)
(* queue of chunks and a thread that speaks them                           *)
(* (src/src/tts/synthesizer.py), and the main thread that opens, finishes, *)
(* cancels and abandons sessions (src/src/app/runtime.py).                 *)
(*                                                                         *)
(* Voice 0 is the main thread in _speak, voice k the thread of session k.  *)
(* All share one interrupt event, one mixer and one _last_timing.  A       *)
(* session whose thread has ended and that the main thread has no hold of  *)
(* is gone, and its number is used again.                                  *)
(***************************************************************************)
EXTENDS Integers, Sequences, FiniteSets

CONSTANTS MaxLeft, MaxChunks, MaxParts  \* bounds: threads left, chunks of a session, parts of a chunk

ASSUME SpeechAssumption ==
  MaxLeft \in Nat /\ MaxChunks \in Nat \ {0} /\ MaxParts \in Nat \ {0}

VARIABLES
  flag,      \* _interrupt_event
  last,      \* _last_timing.interrupted
  music,     \* the voice whose file the mixer plays, or Nobody
  sessions,  \* the streaming sessions
  voice,     \* the threads that speak
  at,        \* the main thread
  cur        \* the session of the reply being streamed, or 0

vars == <<flag, last, music, sessions, voice, at, cur>>

Nobody == -1
Workers == 1..(MaxLeft + 1)
Voices == 0..(MaxLeft + 1)
Sentinel == 0

Session == [queue : Seq(0..MaxChunks), asked : 0..MaxChunks,
            finished : BOOLEAN, cancelled : BOOLEAN, cut : BOOLEAN, broken : BOOLEAN,
            heard : Seq(1..MaxChunks),  \* history: chunks that were heard to their end
            late : Nat]                 \* history: chunks begun after the cancellation

Voice == [pos : {"none", "get", "call", "fetch", "load", "play", "back", "dead"},
          parts : 0..MaxParts,             \* parts not played yet
          spoken : BOOLEAN,                \* what speak returns
          \* history: no thread was left when it began, nor has it been left since;
          \* and, kept of such a voice only,
          sole : BOOLEAN,
          item : 0..MaxChunks,             \* the chunk
          unheard : 0..MaxParts,           \* its parts not heard yet
          struck : {"no", "yes", "deaf"}]  \* a stop came; and was not obeyed

Alive(k) == voice[k].pos \notin {"none", "dead"}
Inside(v) == voice[v].pos \in {"fetch", "load", "play"}

\* the threads of sessions the main thread has no hold of
Left == {k \in Workers : voice[k].pos # "none"} \ {cur}

SpeechTypeOK ==
  /\ flag \in BOOLEAN /\ last \in BOOLEAN
  /\ music \in Voices \cup {Nobody}
  /\ sessions \in [Workers -> Session]
  /\ voice \in [Voices -> Voice]
  /\ at \in {"idle", "reply", "cancelling", "finishing", "giving up", "say"}
  /\ cur \in 0..(MaxLeft + 1)
  /\ at \in {"cancelling", "finishing", "giving up"} => cur # 0

NoSession == [queue |-> <<>>, asked |-> 0, finished |-> FALSE, cancelled |-> FALSE,
              cut |-> FALSE, broken |-> FALSE, heard |-> <<>>, late |-> 0]

At(pos, sole) == [pos |-> pos, parts |-> 0, spoken |-> FALSE, sole |-> sole,
                  item |-> 0, unheard |-> 0, struck |-> "no"]
Gone == At("none", FALSE)

Init ==
  /\ flag = FALSE /\ last = FALSE /\ music = Nobody
  /\ sessions = [k \in Workers |-> NoSession] /\ voice = [v \in Voices |-> Gone]
  /\ at = "idle" /\ cur = 0

(* The thread of a session ends, which leaves s of the session.            *)
Ends(k, s) ==
  IF k = cur
  THEN /\ voice' = [voice EXCEPT ![k] = At("dead", @.sole)]
       /\ sessions' = [sessions EXCEPT ![k] = s]
  ELSE /\ voice' = [voice EXCEPT ![k] = Gone]
       /\ sessions' = [sessions EXCEPT ![k] = NoSession]

-----------------------------------------------------------------------------
(* speak, of whichever thread.                                             *)

(* It clears the event before anything else: a stop that came since the    *)
(* last chunk is forgotten.                                                *)
Call(v) ==
  /\ voice[v].pos = "call"
  /\ flag' = FALSE
  /\ \E n \in 1..MaxParts :
       voice' = [voice EXCEPT ![v].pos = "fetch", ![v].parts = n,
                              ![v].unheard = IF voice[v].sole THEN n ELSE 0,
                              ![v].struck = "no"]
  /\ sessions' = IF v > 0 /\ sessions[v].cancelled
                 THEN [sessions EXCEPT ![v].late = @ + 1] ELSE sessions
  /\ UNCHANGED <<last, music, at, cur>>

Returns(v, spoken) ==
  /\ voice' = [voice EXCEPT ![v].pos = "back", ![v].spoken = spoken]
  /\ last' = ~spoken

(* _await_audio looks at the event only while the audio is not there.      *)
Fetch(v) ==
  /\ voice[v].pos = "fetch"
  /\ \/ voice' = [voice EXCEPT ![v].pos = "load"] /\ UNCHANGED last
     \/ flag /\ Returns(v, FALSE)
  /\ UNCHANGED <<flag, music, sessions, at, cur>>

PlayFrom(v) ==
  /\ music' = v
  /\ voice' = [voice EXCEPT ![v].pos = "play",
                            ![v].struck = IF @ = "no" THEN @ ELSE "deaf"]
  /\ UNCHANGED last

(* Mutant: the event is not looked at before a part is played.             *)
LoadDeaf(v) ==
  /\ voice[v].pos = "load"
  /\ PlayFrom(v)
  /\ UNCHANGED <<flag, sessions, at, cur>>

(* The file of another voice stops when a new one is loaded.               *)
Load(v) ==
  /\ voice[v].pos = "load"
  /\ \/ flag /\ Returns(v, FALSE) /\ UNCHANGED music
     \/ ~flag /\ PlayFrom(v)
  /\ UNCHANGED <<flag, sessions, at, cur>>

(* The mixer comes to the end of the file.                                 *)
MusicEnds ==
  /\ music # Nobody
  /\ music' = Nobody
  /\ voice' = [voice EXCEPT ![music].unheard = IF voice[music].sole THEN @ - 1 ELSE 0]
  /\ UNCHANGED <<flag, last, sessions, at, cur>>

(* The mixer is found silent, for whatever reason.                         *)
PlayEnds(v) ==
  /\ voice[v].pos = "play" /\ music = Nobody
  /\ IF voice[v].parts = 1 THEN Returns(v, TRUE)
     ELSE voice' = [voice EXCEPT ![v].pos = "fetch", ![v].parts = @ - 1] /\ UNCHANGED last
  /\ UNCHANGED <<flag, music, sessions, at, cur>>

(* The mixer is found busy, with whosever file, and the event set.         *)
PlayStopped(v) ==
  /\ voice[v].pos = "play" /\ music # Nobody /\ flag
  /\ music' = Nobody
  /\ Returns(v, FALSE)
  /\ UNCHANGED <<flag, sessions, at, cur>>

(* The synthesis fails or takes too long, or the mixer does.  A session    *)
(* keeps the error and ends; _speak reports it and goes on.                *)
SpeakFails(v) ==
  /\ Inside(v)
  /\ \/ voice[v].pos # "play" /\ UNCHANGED music
     \/ voice[v].pos # "fetch" /\ music' = Nobody
  /\ IF v = 0 THEN /\ voice' = [voice EXCEPT ![v] = Gone]
                   /\ at' = "idle" /\ UNCHANGED sessions
     ELSE Ends(v, [sessions[v] EXCEPT !.broken = TRUE, !.cut = TRUE]) /\ UNCHANGED at
  /\ UNCHANGED <<flag, last, cur>>

Speak(v) ==
  \/ Call(v) \/ Fetch(v) \/ Load(v)
  \/ PlayEnds(v) \/ PlayStopped(v) \/ SpeakFails(v)

-----------------------------------------------------------------------------
(* The thread of a session, between two chunks.                            *)

(* The next item of the queue: the thread ends or speaks the chunk.        *)
Takes(k, ends) ==
  LET s == [sessions[k] EXCEPT !.queue = Tail(@)]
  IN IF ends THEN Ends(k, s)
     ELSE /\ voice' = [voice EXCEPT ![k].pos = "call",
                                     ![k].item = IF voice[k].sole THEN Head(sessions[k].queue)
                                                 ELSE 0]
          /\ sessions' = [sessions EXCEPT ![k] = s]

(* Mutant: what is queued is spoken although the session is cancelled.     *)
GetAll(k) ==
  /\ voice[k].pos = "get" /\ sessions[k].queue # <<>>
  /\ Takes(k, Head(sessions[k].queue) = Sentinel)
  /\ UNCHANGED <<flag, last, music, at, cur>>

Get(k) ==
  /\ voice[k].pos = "get" /\ sessions[k].queue # <<>>
  /\ Takes(k, Head(sessions[k].queue) = Sentinel \/ sessions[k].cancelled)
  /\ UNCHANGED <<flag, last, music, at, cur>>

Heard(k) ==
  [sessions[k] EXCEPT !.heard = IF voice[k].sole /\ voice[k].unheard = 0
                                THEN Append(@, voice[k].item) ELSE @]

(* Mutant: a chunk that was interrupted is taken for a spoken one.         *)
BackHeedless(k) ==
  /\ voice[k].pos = "back"
  /\ sessions' = [sessions EXCEPT ![k] = Heard(k)]
  /\ voice' = [voice EXCEPT ![k] = At("get", @.sole)]
  /\ UNCHANGED <<flag, last, music, at, cur>>

(* The thread reads _last_timing, which others write too.                  *)
Back(k) ==
  /\ voice[k].pos = "back"
  /\ IF last \/ ~voice[k].spoken
     THEN Ends(k, [Heard(k) EXCEPT !.cut = TRUE])
     ELSE /\ sessions' = [sessions EXCEPT ![k] = Heard(k)]
          /\ voice' = [voice EXCEPT ![k] = At("get", @.sole)]
  /\ UNCHANGED <<flag, last, music, at, cur>>

Worker(k) == Get(k) \/ Speak(k) \/ Back(k)

-----------------------------------------------------------------------------
(* The main thread, and the threads that only stop.                        *)

Struck(v) == [voice[v] EXCEPT !.struck = 
                            IF Inside(v) /\ voice[v].sole /\ @ = "no" THEN "yes" ELSE @]
SetEvent == flag' = TRUE /\ voice' = [v \in Voices |-> Struck(v)]

(* stop: a barge-in, a command typed while the assistant speaks, or the    *)
(* recovery from any error of the main thread's.                           *)
Stop ==
  /\ ~flag
  /\ SetEvent
  /\ UNCHANGED <<last, music, sessions, at, cur>>

(* _speak: a reply that is not streamed.                                   *)
Say ==
  /\ at = "idle"
  /\ at' = "say"
  /\ voice' = [voice EXCEPT ![0] = At("call", Left = {})]
  /\ UNCHANGED <<flag, last, music, sessions, cur>>

Said ==
  /\ voice[0].pos = "back"
  /\ at' = "idle"
  /\ voice' = [voice EXCEPT ![0] = Gone]
  /\ UNCHANGED <<flag, last, music, sessions, cur>>

AskStreaming ==
  /\ at = "idle"
  /\ at' = "reply"
  /\ UNCHANGED <<flag, last, music, sessions, voice, cur>>

Queued(s) == [s EXCEPT !.asked = @ + 1, !.queue = Append(@, s.asked + 1)]

(* start_audio_stream and enqueue: a chunk of the reply is complete.       *)
OpenSession ==
  /\ at = "reply" /\ cur = 0
  /\ \E k \in Workers :
       /\ voice[k].pos = "none" /\ \A j \in 1..(k-1) : voice[j].pos # "none"
       /\ cur' = k
       /\ sessions' = [sessions EXCEPT ![k] = Queued(NoSession)]
       /\ voice' = [voice EXCEPT ![k] = At("get", Left = {})]
  /\ UNCHANGED <<flag, last, music, at>>

Enqueue ==
  /\ at = "reply" /\ cur # 0 /\ sessions[cur].asked < MaxChunks
  /\ sessions' = [sessions EXCEPT ![cur] = Queued(@)]
  /\ UNCHANGED <<flag, last, music, voice, at, cur>>

(* Mutant: the thread is not woken.                                        *)
CancelledUnwoken(s) == [s EXCEPT !.cancelled = TRUE, !.cut = TRUE]

Cancelled(s) == [s EXCEPT !.cancelled = TRUE, !.cut = TRUE, !.queue = Append(@, Sentinel)]

(* on_text_cancel: what was spoken so far is followed by a call of a tool. *)
ToolCall ==
  /\ at = "reply" /\ cur # 0
  /\ sessions' = [sessions EXCEPT ![cur] = Cancelled(@)]
  /\ SetEvent
  /\ at' = "cancelling"
  /\ UNCHANGED <<last, music, cur>>

(* The main thread lets go of its session, whose thread may live on; the   *)
(* recovery from an error also stops the synthesizer.                      *)
LetGo(recovers) ==
  /\ Alive(cur) => Cardinality(Left) < MaxLeft
  /\ cur' = 0
  /\ flag' = (recovers \/ flag)
  /\ voice' = [v \in Voices |->
                 IF v = 0 \/ v # cur THEN IF recovers THEN Struck(v) ELSE voice[v]
                 ELSE IF Alive(v) THEN [At(voice[v].pos, FALSE) EXCEPT
                                          !.parts = voice[v].parts, !.spoken = voice[v].spoken]
                 ELSE Gone]
  /\ sessions' = [k \in Workers |->
                    IF k # cur THEN sessions[k]
                    ELSE IF Alive(k) THEN [sessions[k] EXCEPT !.heard = <<>>] ELSE NoSession]
  /\ UNCHANGED music

(* The join of a cancellation ends after two seconds even if the thread    *)
(* does not.                                                               *)
CancelReturns ==
  /\ at = "cancelling"
  /\ at' = "reply" /\ last' = TRUE
  /\ LetGo(FALSE)

(* The agent raises: nobody has a hold of the session any more.            *)
AgentFails ==
  /\ at = "reply"
  /\ at' = "idle" /\ UNCHANGED last
  /\ LetGo(TRUE)

Finished(s) == [s EXCEPT !.finished = TRUE, !.queue = Append(@, Sentinel)]

(* The reply is complete; a session that was opened is finished.           *)
AgentDone ==
  /\ at = "reply"
  /\ at' = IF cur = 0 THEN "idle" ELSE "finishing"
  /\ sessions' = [k \in Workers |-> IF k = cur THEN Finished(sessions[k]) ELSE sessions[k]]
  /\ UNCHANGED <<flag, last, music, voice, cur>>

(* The join of finish ends; an error of the thread is raised here.         *)
FinishReturns ==
  /\ at = "finishing" /\ ~Alive(cur)
  /\ at' = "idle"
  /\ last' = IF sessions[cur].broken THEN last ELSE sessions[cur].cut
  /\ LetGo(sessions[cur].broken)

(* The join takes too long: finish cancels the session and raises.         *)
FinishTimesOut ==
  /\ at = "finishing" /\ Alive(cur)
  /\ sessions' = [sessions EXCEPT ![cur] = Cancelled(@)]
  /\ SetEvent
  /\ at' = "giving up"
  /\ UNCHANGED <<last, music, cur>>

GiveUp ==
  /\ at = "giving up"
  /\ at' = "idle" /\ last' = TRUE
  /\ LetGo(TRUE)

Main ==
  \/ Say \/ Said \/ AskStreaming \/ OpenSession \/ Enqueue
  \/ ToolCall \/ CancelReturns \/ AgentFails
  \/ AgentDone \/ FinishReturns \/ FinishTimesOut \/ GiveUp

Next ==
  \/ Stop \/ Main \/ Speak(0) \/ MusicEnds
  \/ \E k \in Workers : Worker(k)

(* The threads of the sessions run, and every wait of theirs but the one   *)
(* for a chunk has a timeout.                                              *)
Fairness == \A k \in Workers : WF_vars(Worker(k))

Spec == Init /\ [][Next]_vars /\ Fairness

-----------------------------------------------------------------------------
(* A reply whose session came to its end uninterrupted has been heard:     *)
(* every chunk that was queued, to its end and in order -- unless a thread *)
(* left from an earlier reply lived when it began, and spoke into it.      *)
FinishedMeansHeard ==
  \A k \in Workers :
    (voice[k].pos = "dead" /\ sessions[k].finished /\ ~sessions[k].cut /\ voice[k].sole)
      => sessions[k].heard = [i \in 1..sessions[k].asked |-> i]

(* A cancelled session begins at most the one chunk it had already taken   *)
(* when it was cancelled, also if its thread has been left behind.         *)
CancelSpeaksNoMore == \A k \in Workers : sessions[k].late <= 1

(* Once a stop has come while a chunk is spoken, no further part of that   *)
(* chunk is played.  This is so for a voice that began alone and has not   *)
(* been left: the next chunk of another voice would take the stop back.    *)
StopEndsChunk == \A v \in Voices : voice[v].struck # "deaf"

(* The thread of a session that was finished or cancelled ends, whatever   *)
(* it waits for and whoever disturbs the mixer: the joins need no timeout. *)
WorkerEnds ==
  \A k \in Workers : (sessions[k].finished \/ sessions[k].cancelled) ~> ~Alive(k)

=============================================================================
