---------------------------- MODULE SpeechProofs ----------------------------
(***************************************************************************)
(* Proofs about SpeechStream, for any number of threads left behind, of    *)
(* chunks of a reply and of parts of a chunk: a reply that ended           *)
(* uninterrupted was heard whole and in order, a cancelled session begins  *)
(* no further chunk, and a stop ends the chunk being spoken.               *)
(*                                                                         *)
(* The three need one inductive invariant, SpeechInv. Its heart is         *)
(* InOrder: the chunks heard, the chunk in the thread's hands and the      *)
(* queue are at every moment the numbers of the chunks asked for, in       *)
(* order, with the sentinel behind them once the session is finished. It   *)
(* holds of a voice that began alone and was not left, and Alone says why  *)
(* nothing disturbs such a voice: no other has begun.                      *)
(***************************************************************************)
EXTENDS SpeechStream, SequenceTheorems, TLAPS

(* The voice has a text in its hands. *)
Speaks(v) == voice[v].pos \in {"call", "fetch", "load", "play", "back"}

(* What the main thread, its session and the mixer say of one another. *)
Hold ==
  /\ at # "say" => voice[0].pos = "none"
  /\ at \in {"idle", "say"} => cur = 0
  /\ cur # 0 => voice[cur].pos # "none"
  /\ at = "reply" /\ cur # 0 => ~sessions[cur].finished
  /\ music # Nobody => voice[music].pos = "play"

(* A voice that began with no thread left, and was not left since, is the  *)
(* only one there is.                                                      *)
Alone(v) ==
  voice[v].sole =>
    /\ v \in {0, cur} /\ voice[v].pos # "none"
    /\ \A w \in Voices \ {v} : voice[w].pos = "none"

(* The parts a sole voice has not been heard to the end with are those it  *)
(* has not played, but for the one the mixer has just come to the end of.  *)
Parts(v) ==
  /\ Inside(v) => voice[v].parts >= 1
  /\ voice[v].sole =>
       /\ voice[v].pos \in {"fetch", "load"} => voice[v].unheard = voice[v].parts
       /\ voice[v].pos = "play" =>
            voice[v].unheard = voice[v].parts - (IF music = v THEN 0 ELSE 1)
       /\ voice[v].pos = "back" /\ voice[v].spoken => voice[v].unheard = 0

(* A stop that hit a chunk is not forgotten while the chunk is spoken: the *)
(* event stays set.                                                        *)
Obeys(v) ==
  /\ voice[v].struck # "deaf"
  /\ voice[v].struck = "yes" /\ Inside(v) => voice[v].sole /\ flag

(* The one late chunk of a cancelled session is the one its thread had     *)
(* taken already; whatever cancels a session marks it as cut.              *)
Once(k) ==
  /\ sessions[k].late <= 1
  /\ ~sessions[k].cancelled \/ voice[k].pos = "call" => sessions[k].late = 0
  /\ sessions[k].cancelled => sessions[k].cut

(* The chunks that left the queue. *)
Taken(k) == Len(sessions[k].heard) + (IF Speaks(k) THEN 1 ELSE 0)

(* Of a sole session that was not cut short, the queue holds exactly the   *)
(* chunks that were not taken, in order, and the sentinel once it is       *)
(* finished.                                                               *)
InOrder(k) ==
  voice[k].sole /\ ~sessions[k].cut =>
    /\ \A i \in 1..Len(sessions[k].heard) : sessions[k].heard[i] = i
    /\ Speaks(k) => voice[k].item = Taken(k)
    /\ Len(sessions[k].queue) =
         IF voice[k].pos = "dead" THEN 0
         ELSE sessions[k].asked - Taken(k) + (IF sessions[k].finished THEN 1 ELSE 0)
    /\ \A i \in 1..Len(sessions[k].queue) :
         sessions[k].queue[i] =
           IF Taken(k) + i <= sessions[k].asked THEN Taken(k) + i ELSE Sentinel
    /\ voice[k].pos = "dead" => Taken(k) = sessions[k].asked /\ sessions[k].finished

(* What a thread speaks is a chunk, never the sentinel. *)
ItemIsChunk(k) == voice[k].sole /\ Speaks(k) => voice[k].item # 0

VoiceInv(v) == Alone(v) /\ Parts(v) /\ Obeys(v)
SessionInv(k) == Once(k) /\ InOrder(k) /\ ItemIsChunk(k)

(* The inductive invariant. *)
SpeechInv ==
  /\ SpeechTypeOK
  /\ Hold
  /\ \A v \in Voices : VoiceInv(v)
  /\ \A k \in Workers : SessionInv(k)

-----------------------------------------------------------------------------

(* The main thread's number is no session's. *)
LEMMA VoiceNumbers ==
  /\ Voices = Workers \cup {0} /\ 0 \in Voices /\ 0 \notin Workers
  /\ Nobody \notin Voices
  /\ \A k \in Workers : k \in Voices /\ k # 0 /\ k > 0
BY SpeechAssumption DEF Voices, Workers, Nobody

(* The step of one voice. *)
Put(v, r) == voice' = [voice EXCEPT ![v] = r]

(* Changing one voice keeps the type and leaves the others as they were. *)
LEMMA PutVoice ==
  ASSUME SpeechTypeOK, NEW v \in Voices, NEW r \in Voice, Put(v, r)
  PROVE  /\ voice' \in [Voices -> Voice] /\ voice'[v] = r
         /\ \A w \in Voices \ {v} : voice'[w] = voice[w]
BY DEF SpeechTypeOK, Put

(* The fields of a voice. *)
LEMMA VoiceTypes ==
  ASSUME NEW r \in Voice
  PROVE  /\ r.pos \in {"none", "get", "call", "fetch", "load", "play", "back", "dead"}
         /\ r.parts \in Nat /\ r.parts <= MaxParts /\ r.spoken \in BOOLEAN
         /\ r.sole \in BOOLEAN
         /\ r.item \in 0..MaxChunks /\ r.unheard \in Nat /\ r.struck \in {"no", "yes", "deaf"}
BY SpeechAssumption DEF Voice

(* The fields of a session. *)
LEMMA SessionTypes ==
  ASSUME NEW s \in Session
  PROVE  /\ s.queue \in Seq(0..MaxChunks) /\ s.asked \in 0..MaxChunks /\ s.asked \in Nat
         /\ s.finished \in BOOLEAN /\ s.cancelled \in BOOLEAN /\ s.cut \in BOOLEAN
         /\ s.broken \in BOOLEAN /\ s.heard \in Seq(1..MaxChunks) /\ s.late \in Nat
         /\ Len(s.queue) \in Nat /\ Len(s.heard) \in Nat
BY SpeechAssumption, LenProperties DEF Session

(* The session of the reply is a session. *)
LEMMA CurIsWorker ==
  ASSUME SpeechTypeOK
  PROVE  cur \in Voices /\ (cur # 0 => cur \in Workers)
<1>1. cur \in 0..(MaxLeft + 1)
  BY DEF SpeechTypeOK
<1> QED
  BY <1>1, SpeechAssumption DEF Voices, Workers

(* While some voice is there, no other one began alone. *)
LEMMA ActsAlone ==
  ASSUME SpeechInv, NEW v \in Voices, voice[v].pos # "none", NEW w \in Voices \ {v}
  PROVE  ~voice[w].sole /\ ~(voice[w].struck = "yes" /\ Inside(w))
BY DEF SpeechInv, VoiceInv, Alone, Obeys

(* A session nobody touches, whose voice stays where it is, is fine. *)
LEMMA SessionStays ==
  ASSUME NEW k \in Workers, SessionInv(k), sessions'[k] = sessions[k],
         voice'[k].pos = voice[k].pos, voice'[k].sole = voice[k].sole,
         voice'[k].item = voice[k].item
  PROVE  SessionInv(k)'
BY DEF SessionInv, Once, InOrder, ItemIsChunk, Taken, Speaks

(* So is one whose voice goes on with the same chunk. *)
LEMMA SpeakingStays ==
  ASSUME NEW k \in Workers, SessionInv(k), sessions'[k] = sessions[k],
         Speaks(k), voice'[k].pos \in {"fetch", "load", "play", "back"},
         voice'[k].sole = voice[k].sole, voice'[k].item = voice[k].item
  PROVE  SessionInv(k)'
BY DEF SessionInv, Once, InOrder, ItemIsChunk, Taken, Speaks

(* One voice takes a step: what is to be shown of it suffices, since a     *)
(* step of one voice says that no other one is sole.                       *)
LEMMA VoiceActs ==
  ASSUME SpeechInv, NEW v \in Voices, voice[v].pos # "none", NEW r \in Voice, Put(v, r),
         r.sole => voice[v].sole /\ r.pos # "none", v = cur => r.pos # "none",
         sessions' \in [Workers -> Session],
         \A k \in Workers \ {v} : sessions'[k] = sessions[k],
         v \in Workers => sessions'[v].finished = sessions[v].finished \/ v # cur,
         flag' \in BOOLEAN, last' \in BOOLEAN,
         \/ music' = Nobody
         \/ music' = v /\ r.pos = "play"
         \/ music' = music /\ music # v,
         UNCHANGED <<at, cur>>,
         Parts(v)', Obeys(v)', v \in Workers => SessionInv(v)'
  PROVE  SpeechInv'
<1>1. /\ voice' \in [Voices -> Voice] /\ voice'[v] = r
      /\ \A w \in Voices \ {v} : voice'[w] = voice[w]
  BY PutVoice DEF SpeechInv
<1>2. SpeechTypeOK'
  BY <1>1 DEF SpeechInv, SpeechTypeOK
<1>3. Hold'
  <2>1. cur \in Voices /\ (cur # 0 => cur \in Workers)
    BY CurIsWorker DEF SpeechInv
  <2>2. at # "say" => voice'[0].pos = "none"
    BY <1>1, VoiceNumbers DEF SpeechInv, Hold
  <2>3. cur # 0 => voice'[cur].pos # "none"
    BY <1>1, <2>1 DEF SpeechInv, Hold
  <2>4. at = "reply" /\ cur # 0 => ~sessions'[cur].finished
    BY <1>1, <2>1 DEF SpeechInv, Hold
  <2>5. music' # Nobody => voice'[music'].pos = "play"
    BY <1>1 DEF SpeechInv, Hold, SpeechTypeOK
  <2> QED
    BY <2>2, <2>3, <2>4, <2>5 DEF Hold, SpeechInv
<1>4. ASSUME NEW w \in Voices PROVE VoiceInv(w)'
  <2>1. CASE w = v
    BY <1>1, <2>1 DEF VoiceInv, Alone, SpeechInv
  <2>2. CASE w # v
    BY <1>1, <2>2, ActsAlone DEF VoiceInv, Alone, Parts, Obeys, Inside, SpeechInv
  <2> QED
    BY <2>1, <2>2
<1>5. ASSUME NEW k \in Workers PROVE SessionInv(k)'
  <2>1. CASE k # v
    BY <1>1, <2>1, SessionStays, VoiceNumbers DEF SpeechInv
  <2> QED
    BY <2>1
<1> QED
  BY <1>2, <1>3, <1>4, <1>5 DEF SpeechInv

(* speak clears the event and begins the chunk; of a cancelled session it  *)
(* is the one late chunk, for a thread that takes none from the queue once *)
(* the session is cancelled can only have held it before.                  *)
LEMMA CallKeeps ==
  ASSUME SpeechInv, NEW v \in Voices, Call(v)
  PROVE  SpeechInv'
<1> DEFINE x == voice[v]
<1>1. x \in Voice /\ x.pos = "call"
  BY DEF SpeechInv, SpeechTypeOK, Call
<1>2. PICK n \in 1..MaxParts :
        voice' = [voice EXCEPT ![v].pos = "fetch", ![v].parts = n,
                               ![v].unheard = IF x.sole THEN n ELSE 0,
                               ![v].struck = "no"]
  BY DEF Call
<1> DEFINE u == IF x.sole THEN n ELSE 0
           r == [x EXCEPT !.pos = "fetch", !.parts = n, !.unheard = u, !.struck = "no"]
<1>3. n \in Nat /\ n >= 1 /\ n \in 0..MaxParts /\ u \in 0..MaxParts /\ (x.sole => u = n)
  BY SpeechAssumption, VoiceTypes, <1>1
<1> HIDE DEF u
<1>4. /\ r \in Voice /\ r.pos = "fetch" /\ r.parts = n /\ r.unheard = u
      /\ r.struck = "no" /\ r.sole = x.sole /\ r.item = x.item
  BY <1>1, <1>3 DEF Voice
<1>5. Put(v, r)
  BY <1>2 DEF SpeechInv, SpeechTypeOK, Put, u
<1> HIDE DEF r
<1>6. voice'[v] = r
  BY <1>4, <1>5, PutVoice DEF SpeechInv
<1>7. Parts(v)' /\ Obeys(v)'
  BY <1>3, <1>4, <1>6 DEF Parts, Obeys, Inside
<1>8. v \in Workers => /\ SessionInv(v)' /\ sessions' \in [Workers -> Session]
                       /\ \A k \in Workers \ {v} : sessions'[k] = sessions[k]
                       /\ sessions'[v].finished = sessions[v].finished
  <2> SUFFICES ASSUME v \in Workers
               PROVE /\ SessionInv(v)' /\ sessions' \in [Workers -> Session]
                     /\ \A k \in Workers \ {v} : sessions'[k] = sessions[k]
                     /\ sessions'[v].finished = sessions[v].finished
    OBVIOUS
  <2>1. CASE ~sessions[v].cancelled
    <3>1. sessions' = sessions
      BY <2>1 DEF Call
    <3> QED
      BY <1>1, <1>4, <1>6, <3>1, SpeakingStays DEF SpeechInv, Speaks, SpeechTypeOK
  <2>2. CASE sessions[v].cancelled
    <3> DEFINE s == [sessions[v] EXCEPT !.late = sessions[v].late + 1]
    <3>1. sessions' = [sessions EXCEPT ![v] = s]
      BY <2>2, VoiceNumbers DEF Call, SpeechInv, SpeechTypeOK
    <3>2. sessions[v] \in Session /\ sessions[v].late = 0 /\ sessions[v].cut
      BY <1>1, <2>2 DEF SpeechInv, SpeechTypeOK, SessionInv, Once
    <3>3. s \in Session /\ s.late = 1 /\ s.cut /\ s.cancelled /\ s.finished = sessions[v].finished
      BY <2>2, <3>2 DEF Session
    <3> HIDE DEF s
    <3>4. sessions'[v] = s /\ sessions' \in [Workers -> Session]
          /\ \A k \in Workers \ {v} : sessions'[k] = sessions[k]
      BY <3>1, <3>3 DEF SpeechInv, SpeechTypeOK
    <3>5. SessionInv(v)'
      <4>1. ItemIsChunk(v)
        BY DEF SpeechInv, SessionInv
      <4> QED
        BY <1>1, <1>4, <1>6, <3>3, <3>4, <4>1 DEF SessionInv, Once, InOrder, ItemIsChunk, Speaks
    <3> QED
      BY <3>3, <3>4, <3>5
  <2> QED BY <2>1, <2>2
<1>9. v \notin Workers => sessions' = sessions
  BY VoiceNumbers DEF Call
<1> QED
  BY <1>1, <1>4, <1>5, <1>7, <1>8, <1>9, VoiceActs DEF Call, SpeechInv, SpeechTypeOK, Hold

(* A step within speak that leaves the sessions alone. *)
LEMMA SpeakingActs ==
  ASSUME SpeechInv, NEW v \in Voices, Inside(v), NEW r \in Voice, Put(v, r),
         r.pos \in {"fetch", "load", "play", "back"},
         r.sole = voice[v].sole, r.item = voice[v].item,
         UNCHANGED <<flag, sessions, at, cur>>, last' \in BOOLEAN,
         \/ music' = Nobody
         \/ music' = v /\ r.pos = "play"
         \/ UNCHANGED music /\ voice[v].pos # "play",
         Parts(v)', Obeys(v)'
  PROVE  SpeechInv'
<1>1. voice'[v] = r
  BY PutVoice DEF SpeechInv
<1>2. voice[v].pos # "none" /\ Speaks(v)
  BY DEF Inside, Speaks
<1>3. v \in Workers => SessionInv(v)'
  BY <1>1, <1>2, SpeakingStays DEF SpeechInv
<1>4. UNCHANGED music => music = Nobody \/ music # v \/ voice[v].pos = "play"
  BY DEF SpeechInv, Hold
<1>5. flag' \in BOOLEAN /\ sessions' \in [Workers -> Session]
  BY DEF SpeechInv, SpeechTypeOK
<1> QED
  BY <1>2, <1>3, <1>4, <1>5, VoiceActs

(* What a return from speak does to the voice. *)
LEMMA ReturnsEffect ==
  ASSUME SpeechInv, NEW v \in Voices, NEW b \in BOOLEAN,
         voice' = [voice EXCEPT ![v].pos = "back", ![v].spoken = b]
  PROVE  \E r \in Voice : /\ Put(v, r) /\ r.pos = "back" /\ r.spoken = b
                          /\ r.sole = voice[v].sole /\ r.item = voice[v].item
                          /\ r.unheard = voice[v].unheard /\ r.struck = voice[v].struck
<1> DEFINE x == voice[v]
           r == [x EXCEPT !.pos = "back", !.spoken = b]
<1>1. x \in Voice
  BY DEF SpeechInv, SpeechTypeOK
<1>2. /\ r \in Voice /\ r.pos = "back" /\ r.spoken = b /\ r.sole = x.sole
      /\ r.item = x.item /\ r.unheard = x.unheard /\ r.struck = x.struck
  BY <1>1 DEF Voice
<1>3. Put(v, r)
  BY DEF Put, SpeechInv, SpeechTypeOK
<1> QED
  BY <1>2, <1>3

(* speak returns; it may say the chunk was spoken only when all its parts  *)
(* were heard.                                                             *)
LEMMA ReturnsKeeps ==
  ASSUME SpeechInv, NEW v \in Voices, Inside(v), NEW b \in BOOLEAN,
         voice' = [voice EXCEPT ![v].pos = "back", ![v].spoken = b], last' \in BOOLEAN,
         (b /\ voice[v].sole) => voice[v].unheard = 0,
         UNCHANGED <<flag, sessions, at, cur>>,
         music' = Nobody \/ (music' = music /\ voice[v].pos # "play")
  PROVE  SpeechInv'
<1>1. PICK r \in Voice : /\ Put(v, r) /\ r.pos = "back" /\ r.spoken = b
                         /\ r.sole = voice[v].sole /\ r.item = voice[v].item
                         /\ r.unheard = voice[v].unheard /\ r.struck = voice[v].struck
  BY ReturnsEffect
<1>2. voice'[v] = r
  BY <1>1, PutVoice DEF SpeechInv
<1>3. Parts(v)' /\ Obeys(v)'
  BY <1>1, <1>2 DEF SpeechInv, VoiceInv, Parts, Obeys, Inside
<1> QED
  BY <1>1, <1>3, SpeakingActs

(* _await_audio keeps the invariant. *)
LEMMA FetchKeeps ==
  ASSUME SpeechInv, NEW v \in Voices, Fetch(v)
  PROVE  SpeechInv'
<1> DEFINE x == voice[v]
           r == [x EXCEPT !.pos = "load"]
<1>1. x \in Voice /\ x.pos = "fetch" /\ Inside(v)
  BY DEF SpeechInv, SpeechTypeOK, Fetch, Inside
<1>2. CASE Returns(v, FALSE)
  <2>1. voice' = [voice EXCEPT ![v].pos = "back", ![v].spoken = FALSE] /\ last' \in BOOLEAN
    BY <1>2 DEF Returns
  <2>2. music' = music /\ UNCHANGED <<flag, sessions, at, cur>>
    BY <1>2 DEF Fetch
  <2> QED
    BY <1>1, <2>1, <2>2, ReturnsKeeps
<1>3. CASE voice' = [voice EXCEPT ![v].pos = "load"] /\ UNCHANGED last
  <2>1. /\ r \in Voice /\ r.pos = "load" /\ r.parts = x.parts /\ r.sole = x.sole
        /\ r.item = x.item /\ r.unheard = x.unheard /\ r.struck = x.struck
    BY <1>1 DEF Voice
  <2>2. Put(v, r)
    BY <1>3 DEF Put, SpeechInv, SpeechTypeOK
  <2> HIDE DEF r
  <2>3. voice'[v] = r
    BY <2>1, <2>2, PutVoice DEF SpeechInv
  <2>4. Parts(v)' /\ Obeys(v)'
    BY <1>1, <2>1, <2>3 DEF SpeechInv, VoiceInv, Parts, Obeys, Inside, Fetch
  <2>5. last' \in BOOLEAN
    BY <1>3 DEF SpeechInv, SpeechTypeOK
  <2> QED
    BY <1>1, <2>1, <2>2, <2>4, <2>5, SpeakingActs DEF Fetch
<1> QED
  BY <1>2, <1>3 DEF Fetch

(* Playing a part keeps it: the event is looked at first, so a chunk that  *)
(* was stopped plays no further part.                                      *)
LEMMA LoadKeeps ==
  ASSUME SpeechInv, NEW v \in Voices, Load(v)
  PROVE  SpeechInv'
<1> DEFINE x == voice[v]
           st == IF x.struck = "no" THEN x.struck ELSE "deaf"
           r == [x EXCEPT !.pos = "play", !.struck = st]
<1>1. x \in Voice /\ x.pos = "load" /\ Inside(v)
  BY DEF SpeechInv, SpeechTypeOK, Load, Inside
<1>2. CASE Returns(v, FALSE) /\ UNCHANGED music
  <2>1. voice' = [voice EXCEPT ![v].pos = "back", ![v].spoken = FALSE] /\ last' \in BOOLEAN
    BY <1>2 DEF Returns
  <2>2. music' = music /\ UNCHANGED <<flag, sessions, at, cur>>
    BY <1>2 DEF Load
  <2> QED
    BY <1>1, <2>1, <2>2, ReturnsKeeps
<1>3. CASE ~flag /\ PlayFrom(v)
  <2>1. x.struck = "no" /\ st = "no"
    BY <1>1, <1>3, VoiceTypes DEF SpeechInv, VoiceInv, Obeys
  <2>2. /\ r \in Voice /\ r.pos = "play" /\ r.parts = x.parts /\ r.sole = x.sole
        /\ r.item = x.item /\ r.unheard = x.unheard /\ r.struck = "no"
    BY <1>1, <2>1 DEF Voice
  <2>3. Put(v, r)
    BY <1>3 DEF PlayFrom, Put, SpeechInv, SpeechTypeOK
  <2> HIDE DEF r
  <2>4. voice'[v] = r
    BY <2>2, <2>3, PutVoice DEF SpeechInv
  <2>5. Parts(v)' /\ Obeys(v)'
    BY <1>1, <1>3, <2>2, <2>4, VoiceTypes DEF SpeechInv, VoiceInv, Parts, Obeys, Inside, PlayFrom
  <2>6. last' \in BOOLEAN
    BY <1>3 DEF PlayFrom, SpeechInv, SpeechTypeOK
  <2> QED
    BY <1>1, <1>3, <2>2, <2>3, <2>5, <2>6, SpeakingActs DEF Load, PlayFrom
<1> QED
  BY <1>2, <1>3 DEF Load

(* The mixer is found silent, which for a sole voice means that its own    *)
(* part was heard.                                                         *)
LEMMA PlayEndsKeeps ==
  ASSUME SpeechInv, NEW v \in Voices, PlayEnds(v)
  PROVE  SpeechInv'
<1> DEFINE x == voice[v]
           n == x.parts - 1
           r == [x EXCEPT !.pos = "fetch", !.parts = n]
<1>1. /\ x \in Voice /\ x.pos = "play" /\ Inside(v) /\ music = Nobody /\ v # music
      /\ x.parts >= 1 /\ (x.sole => x.unheard = n)
  BY VoiceNumbers DEF SpeechInv, SpeechTypeOK, VoiceInv, Parts, PlayEnds, Inside
<1>2. CASE x.parts = 1
  <2>1. voice' = [voice EXCEPT ![v].pos = "back", ![v].spoken = TRUE] /\ last' \in BOOLEAN
    BY <1>2 DEF PlayEnds, Returns
  <2>3. x.sole => x.unheard = 0
    BY <1>1, <1>2
  <2>2. music' = Nobody /\ UNCHANGED <<flag, sessions, at, cur>>
    BY <1>1 DEF PlayEnds
  <2> QED
    BY <1>1, <2>1, <2>2, <2>3, ReturnsKeeps
<1>3. CASE x.parts # 1
  <2>1. n \in 0..MaxParts /\ n >= 1
    BY <1>1, <1>3, SpeechAssumption DEF Voice
  <2> HIDE DEF n
  <2>2. /\ r \in Voice /\ r.pos = "fetch" /\ r.parts = n /\ r.sole = x.sole
        /\ r.item = x.item /\ r.unheard = x.unheard /\ r.struck = x.struck
    BY <1>1, <2>1 DEF Voice
  <2>3. Put(v, r)
    BY <1>3 DEF PlayEnds, Put, SpeechInv, SpeechTypeOK, n
  <2> HIDE DEF r
  <2>4. voice'[v] = r
    BY <2>2, <2>3, PutVoice DEF SpeechInv
  <2>5. Parts(v)' /\ Obeys(v)'
    BY <1>1, <2>1, <2>2, <2>4 DEF SpeechInv, VoiceInv, Parts, Obeys, Inside, PlayEnds
  <2>6. last' \in BOOLEAN
    BY <1>3 DEF PlayEnds, SpeechInv, SpeechTypeOK
  <2> QED
    BY <1>1, <2>2, <2>3, <2>5, <2>6, SpeakingActs DEF PlayEnds
<1> QED
  BY <1>2, <1>3

(* The mixer is stopped. *)
LEMMA PlayStoppedKeeps ==
  ASSUME SpeechInv, NEW v \in Voices, PlayStopped(v)
  PROVE  SpeechInv'
<1>1. voice' = [voice EXCEPT ![v].pos = "back", ![v].spoken = FALSE] /\ last' \in BOOLEAN
  BY DEF PlayStopped, Returns
<1>2. Inside(v) /\ music' = Nobody /\ UNCHANGED <<flag, sessions, at, cur>>
  BY DEF PlayStopped, Inside
<1> QED
  BY <1>1, <1>2, ReturnsKeeps

(* The mixer comes to the end of a part. *)
LEMMA MusicEndsKeeps ==
  ASSUME SpeechInv, MusicEnds, NEW v \in Voices, v = music
  PROVE  SpeechInv'
<1> DEFINE x == voice[v]
           u == IF x.sole THEN x.unheard - 1 ELSE 0
           r == [x EXCEPT !.unheard = u]
<1>1. /\ x \in Voice /\ x.pos = "play" /\ Inside(v)
      /\ x.parts >= 1 /\ (x.sole => x.unheard = x.parts)
  <2>1. x \in Voice /\ x.pos = "play"
    BY DEF SpeechInv, SpeechTypeOK, Hold, MusicEnds
  <2>2. Inside(v)
    BY <2>1 DEF Inside
  <2> QED
    BY <2>1, <2>2, VoiceTypes DEF SpeechInv, VoiceInv, Parts
<1>2. u \in 0..MaxParts /\ (x.sole => u = x.parts - 1)
  BY <1>1, SpeechAssumption, VoiceTypes
<1>3. voice' = [voice EXCEPT ![v].unheard = u]
  BY DEF MusicEnds, SpeechInv, SpeechTypeOK
<1> HIDE DEF u
<1>4. /\ r \in Voice /\ r.pos = "play" /\ r.parts = x.parts /\ r.sole = x.sole
      /\ r.item = x.item /\ r.unheard = u /\ r.struck = x.struck
  BY <1>1, <1>2 DEF Voice
<1>5. Put(v, r)
  BY <1>3 DEF Put, SpeechInv, SpeechTypeOK
<1> HIDE DEF r
<1>6. voice'[v] = r
  BY <1>1, <1>4, <1>5, PutVoice DEF SpeechInv
<1>7. music' # v
  BY <1>1, VoiceNumbers DEF MusicEnds
<1>8. Parts(v)' /\ Obeys(v)'

  BY <1>1, <1>2, <1>4, <1>6, <1>7 DEF SpeechInv, VoiceInv, Parts, Obeys, Inside, MusicEnds
<1>9. last' \in BOOLEAN
  BY DEF MusicEnds, SpeechInv, SpeechTypeOK
<1> QED
  BY <1>1, <1>4, <1>5, <1>8, <1>9, SpeakingActs DEF MusicEnds

(* The fields of a voice that is between two texts. *)
LEMMA AtFields ==
  ASSUME NEW p \in {"none", "get", "call", "fetch", "load", "play", "back", "dead"},
         NEW b \in BOOLEAN
  PROVE  /\ At(p, b) \in Voice /\ At(p, b).pos = p /\ At(p, b).sole = b
         /\ At(p, b).struck = "no" /\ At(p, b).item = 0
         /\ At(p, b).parts = 0 /\ At(p, b).unheard = 0
BY SpeechAssumption DEF At, Voice

(* The fields of the session that is not there. *)
LEMMA NoSessionFields ==
  /\ NoSession \in Session /\ NoSession.late = 0 /\ ~NoSession.cancelled
  /\ NoSession.queue = <<>> /\ NoSession.heard = <<>> /\ NoSession.asked = 0
  /\ ~NoSession.finished /\ ~NoSession.cut
<1>1. 0 \in 0..MaxChunks /\ 0 \in Nat
  BY SpeechAssumption
<1>2. <<>> \in Seq(0..MaxChunks) /\ <<>> \in Seq(1..MaxChunks)
  OBVIOUS
<1> QED
  BY <1>1, <1>2 DEF NoSession, Session

(* The thread of a session ends: cut short, or with all its chunks heard. *)
LEMMA EndsKeeps ==
  ASSUME SpeechInv, NEW k \in Workers, voice[k].pos # "none", NEW s \in Session, Ends(k, s),
         s.finished = sessions[k].finished,
         s.late <= 1, ~s.cancelled => s.late = 0, s.cancelled => s.cut,
         (voice[k].sole /\ ~s.cut) =>
            /\ \A i \in 1..Len(s.heard) : s.heard[i] = i
            /\ Len(s.queue) = 0 /\ Len(s.heard) = s.asked /\ s.finished,
         UNCHANGED <<flag, at, cur>>, last' \in BOOLEAN,
         music' = Nobody \/ (music' = music /\ voice[k].pos # "play")
  PROVE  SpeechInv'
<1>1. k \in Voices /\ voice[k] \in Voice /\ voice[k].sole \in BOOLEAN
  BY VoiceNumbers, VoiceTypes DEF SpeechInv, SpeechTypeOK
<1>2. music' = Nobody \/ (music' = music /\ music # k)
  BY DEF SpeechInv, Hold
<1>3. flag' \in BOOLEAN
  BY DEF SpeechInv, SpeechTypeOK
<1>4. CASE k = cur
  <2> DEFINE r == At("dead", voice[k].sole)
  <2>1. r \in Voice /\ r.pos = "dead" /\ r.sole = voice[k].sole /\ r.struck = "no"
    BY <1>1, AtFields
  <2>2. Put(k, r)
    BY <1>1, <1>4 DEF Ends, Put, SpeechInv, SpeechTypeOK
  <2> HIDE DEF r
  <2>3. voice'[k] = r
    BY <1>1, <2>1, <2>2, PutVoice DEF SpeechInv
  <2>4. /\ sessions' \in [Workers -> Session] /\ sessions'[k] = s
        /\ \A j \in Workers \ {k} : sessions'[j] = sessions[j]
    BY <1>4 DEF Ends, SpeechInv, SpeechTypeOK
  <2>5. Parts(k)' /\ Obeys(k)'
    BY <2>1, <2>3 DEF Parts, Obeys, Inside
  <2>6. Once(k)' /\ ItemIsChunk(k)'
    BY <2>1, <2>3, <2>4 DEF Once, ItemIsChunk, Speaks
  <2>7. InOrder(k)'
    <3>1. s.queue \in Seq(0..MaxChunks) /\ Len(s.heard) \in Nat
      BY SessionTypes
    <3>2. Taken(k)' = Len(s.heard)
      <4>1. ~Speaks(k)' /\ sessions'[k].heard = s.heard
        BY <2>1, <2>3, <2>4 DEF Speaks
      <4> QED
        BY <3>1, <4>1 DEF Taken
    <3> QED
      BY <2>1, <2>3, <2>4, <3>1, <3>2 DEF InOrder, Speaks
  <2> QED
    BY <1>1, <1>2, <1>3, <2>1, <2>2, <2>4, <2>5, <2>6, <2>7, VoiceActs DEF SessionInv
<1>5. CASE k # cur
  <2>1. Gone \in Voice /\ Gone.pos = "none" /\ ~Gone.sole /\ Gone.struck = "no"
    BY AtFields DEF Gone
  <2>2. Put(k, Gone)
    BY <1>5 DEF Ends, Put
  <2>3. voice'[k] = Gone
    BY <1>1, <2>1, <2>2, PutVoice DEF SpeechInv
  <2>4. /\ sessions' \in [Workers -> Session] /\ sessions'[k] = NoSession
        /\ \A j \in Workers \ {k} : sessions'[j] = sessions[j]
    BY <1>5, NoSessionFields DEF Ends, SpeechInv, SpeechTypeOK
  <2>5. Parts(k)' /\ Obeys(k)'
    BY <2>1, <2>3 DEF Parts, Obeys, Inside
  <2>6. SessionInv(k)'
    BY <2>1, <2>3, <2>4, NoSessionFields DEF SessionInv, Once, InOrder, ItemIsChunk, Speaks
  <2> QED
    BY <1>1, <1>2, <1>3, <1>5, <2>1, <2>2, <2>4, <2>5, <2>6, VoiceActs
<1> QED
  BY <1>4, <1>5

(* The main thread is done with speaking, or fails at it. *)
LEMMA MainFallsSilent ==
  ASSUME SpeechInv, voice[0].pos # "none", voice' = [voice EXCEPT ![0] = Gone], at' = "idle",
         UNCHANGED <<flag, last, sessions, cur>>,
         music' = Nobody \/ (music' = music /\ voice[0].pos # "play")
  PROVE  SpeechInv'
<1>1. /\ 0 \in Voices /\ cur = 0
  BY VoiceNumbers DEF SpeechInv, Hold
<1>2. Gone \in Voice /\ Gone.pos = "none" /\ ~Gone.sole /\ Gone.struck = "no"
  BY AtFields DEF Gone
<1>3. /\ voice' \in [Voices -> Voice] /\ voice'[0] = Gone
      /\ \A w \in Voices \ {0} : voice'[w] = voice[w]
  BY <1>1, <1>2, PutVoice DEF SpeechInv, Put
<1>4. SpeechTypeOK'
  BY <1>1, <1>3 DEF SpeechInv, SpeechTypeOK
<1>5. Hold'
  BY <1>1, <1>2, <1>3 DEF SpeechInv, SpeechTypeOK, Hold
<1>6. ASSUME NEW w \in Voices PROVE VoiceInv(w)'
  <2>1. CASE w = 0
    BY <1>2, <1>3, <2>1 DEF VoiceInv, Alone, Parts, Obeys, Inside
  <2>2. CASE w # 0
    BY <1>1, <1>2, <1>3, <2>2, ActsAlone DEF VoiceInv, Alone, Parts, Obeys, Inside, SpeechInv
  <2> QED
    BY <2>1, <2>2
<1>7. ASSUME NEW k \in Workers PROVE SessionInv(k)'
  BY <1>3, SessionStays, VoiceNumbers DEF SpeechInv
<1> QED
  BY <1>4, <1>5, <1>6, <1>7 DEF SpeechInv

(* A failure within speak cuts the session short. *)
LEMMA SpeakFailsKeeps ==
  ASSUME SpeechInv, NEW v \in Voices, SpeakFails(v)
  PROVE  SpeechInv'
<1>1. voice[v].pos # "none" /\ (music' = Nobody \/ (music' = music /\ voice[v].pos # "play"))
  BY DEF SpeakFails, Inside
<1>2. CASE v = 0
  BY <1>1, <1>2, MainFallsSilent DEF SpeakFails
<1>3. CASE v # 0
  <2> DEFINE s == [sessions[v] EXCEPT !.broken = TRUE, !.cut = TRUE]
  <2>1. v \in Workers /\ sessions[v] \in Session /\ Once(v)
    BY <1>3, VoiceNumbers DEF SpeechInv, SpeechTypeOK, SessionInv
  <2>2. /\ s \in Session /\ s.finished = sessions[v].finished /\ s.cut
        /\ s.late = sessions[v].late /\ s.cancelled = sessions[v].cancelled
    BY <2>1 DEF Session
  <2>3. Ends(v, s) /\ UNCHANGED <<flag, at, cur>> /\ last' \in BOOLEAN
    BY <1>3 DEF SpeakFails, SpeechInv, SpeechTypeOK
  <2> HIDE DEF s
  <2> QED
    BY <1>1, <2>1, <2>2, <2>3, EndsKeeps DEF Once
<1> QED
  BY <1>2, <1>3

(* Every step of speak keeps the invariant. *)
LEMMA SpeakKeeps ==
  ASSUME SpeechInv, NEW v \in Voices, Speak(v)
  PROVE  SpeechInv'
BY CallKeeps, FetchKeeps, LoadKeeps, PlayEndsKeeps, PlayStoppedKeeps, SpeakFailsKeeps DEF Speak

(* Taking the next item of a queue. *)
LEMMA TailOfQueue ==
  ASSUME NEW k \in Workers, sessions[k] \in Session, sessions[k].queue # <<>>,
         NEW s, s = [sessions[k] EXCEPT !.queue = Tail(@)]
  PROVE  /\ s \in Session /\ Head(sessions[k].queue) \in 0..MaxChunks
         /\ Head(sessions[k].queue) = sessions[k].queue[1]
         /\ Len(sessions[k].queue) >= 1
         /\ Len(s.queue) = Len(sessions[k].queue) - 1
         /\ \A i \in 1..Len(s.queue) : s.queue[i] = sessions[k].queue[i + 1]
         /\ s.heard = sessions[k].heard /\ s.asked = sessions[k].asked
         /\ s.finished = sessions[k].finished /\ s.cancelled = sessions[k].cancelled
         /\ s.cut = sessions[k].cut /\ s.late = sessions[k].late
<1> DEFINE q == sessions[k].queue
<1>1. q \in Seq(0..MaxChunks) /\ q # <<>>
  BY SessionTypes
<1>2. /\ Tail(q) \in Seq(0..MaxChunks) /\ Head(q) \in 0..MaxChunks
      /\ Len(Tail(q)) = Len(q) - 1 /\ \A i \in 1..Len(Tail(q)) : Tail(q)[i] = q[i + 1]
  BY <1>1, HeadTailProperties
<1>3. Head(q) = q[1] /\ Len(q) >= 1
  BY <1>1
<1>4. /\ s \in Session /\ s.queue = Tail(q)
      /\ s.heard = sessions[k].heard /\ s.asked = sessions[k].asked
      /\ s.finished = sessions[k].finished /\ s.cancelled = sessions[k].cancelled
      /\ s.cut = sessions[k].cut /\ s.late = sessions[k].late
  BY <1>2 DEF Session
<1> QED
  BY <1>2, <1>3, <1>4

(* The next item is the next chunk in order; and when it is the sentinel   *)
(* of a session that was not cut, every chunk before it has been heard.    *)
LEMMA GetKeeps ==
  ASSUME SpeechInv, NEW k \in Workers, Get(k)
  PROVE  SpeechInv'
<1> DEFINE x == voice[k]
           q == sessions[k].queue
           s == [sessions[k] EXCEPT !.queue = Tail(@)]
           n == Len(sessions[k].heard)
<1>1. /\ k \in Voices /\ x \in Voice /\ x.pos = "get" /\ ~Speaks(k)
      /\ sessions[k] \in Session /\ q # <<>>
  BY VoiceNumbers DEF SpeechInv, SpeechTypeOK, Get, Speaks
<1>2. /\ s \in Session /\ Head(q) \in 0..MaxChunks /\ Head(q) = q[1] /\ Len(q) >= 1
      /\ Len(s.queue) = Len(q) - 1
      /\ \A i \in 1..Len(s.queue) : s.queue[i] = q[i + 1]
      /\ s.heard = sessions[k].heard /\ s.asked = sessions[k].asked
      /\ s.finished = sessions[k].finished /\ s.cancelled = sessions[k].cancelled
      /\ s.cut = sessions[k].cut /\ s.late = sessions[k].late
  BY <1>1, TailOfQueue
<1> HIDE DEF s
<1>3. /\ n \in Nat /\ Len(q) \in Nat /\ s.asked \in Nat /\ Len(s.queue) \in Nat
      /\ Len(q) >= 1 /\ Len(s.queue) = Len(q) - 1 /\ s.finished \in BOOLEAN
  BY <1>1, <1>2, SessionTypes
<1>4. Taken(k) = n
  BY <1>1, <1>3 DEF Taken
<1>5. Once(k) /\ InOrder(k)
  BY DEF SpeechInv, SessionInv
<1>6. (x.sole /\ ~s.cut) =>
        /\ \A i \in 1..n : s.heard[i] = i
        /\ Len(q) = s.asked - n + (IF s.finished THEN 1 ELSE 0)
        /\ q[1] = IF n + 1 <= s.asked THEN n + 1 ELSE Sentinel
        /\ \A i \in 1..Len(q) : q[i] = IF n + i <= s.asked THEN n + i ELSE Sentinel
  <2> HAVE x.sole /\ ~s.cut
  <2>1. /\ \A i \in 1..n : s.heard[i] = i
        /\ Len(q) = s.asked - n + (IF s.finished THEN 1 ELSE 0)
        /\ \A i \in 1..Len(q) : q[i] = IF n + i <= s.asked THEN n + i ELSE Sentinel
    BY <1>1, <1>2, <1>4, <1>5 DEF InOrder
  <2>2. 1 \in 1..Len(q)
    BY <1>2, <1>3
  <2> QED
    BY <2>1, <2>2
<1>7. UNCHANGED <<flag, at, cur, music>> /\ last' \in BOOLEAN
  BY DEF Get, SpeechInv, SpeechTypeOK
<1>8. CASE Head(q) = Sentinel \/ sessions[k].cancelled
  <2>1. Ends(k, s)
    BY <1>8 DEF Get, Takes, s
  <2>2. (x.sole /\ ~s.cut) => Len(s.queue) = 0 /\ n = s.asked /\ s.finished
    <3> HAVE x.sole /\ ~s.cut
    <3>1. q[1] = Sentinel
      BY <1>2, <1>5, <1>8 DEF Once
    <3>2. ~(n + 1 <= s.asked)
      BY <1>3, <1>6, <3>1 DEF Sentinel
    <3> QED
      <4>1. Len(q) = s.asked - n + (IF s.finished THEN 1 ELSE 0)
        BY <1>6
      <4> QED
        BY <1>3, <3>2, <4>1
  <2> QED
    BY <1>1, <1>2, <1>5, <1>6, <1>7, <2>1, <2>2, EndsKeeps DEF Once
<1>9. CASE Head(q) # Sentinel /\ ~sessions[k].cancelled
  <2> DEFINE it == IF x.sole THEN Head(q) ELSE 0
             r == [x EXCEPT !.pos = "call", !.item = it]
  <2>1. /\ voice' = [voice EXCEPT ![k].pos = "call", ![k].item = it]
        /\ sessions' = [sessions EXCEPT ![k] = s]
    BY <1>9 DEF Get, Takes, s
  <2>2. it \in 0..MaxChunks /\ (x.sole => it = Head(q))
    BY <1>2, SpeechAssumption
  <2> HIDE DEF it
  <2>3. /\ r \in Voice /\ r.pos = "call" /\ r.sole = x.sole /\ r.item = it
        /\ r.parts = x.parts /\ r.struck = x.struck
    BY <1>1, <2>2 DEF Voice
  <2>4. Put(k, r)
    BY <1>1, <2>1 DEF Put, SpeechInv, SpeechTypeOK
  <2> HIDE DEF r
  <2>5. voice'[k] = r
    BY <1>1, <2>3, <2>4, PutVoice DEF SpeechInv
  <2>6. /\ sessions' \in [Workers -> Session] /\ sessions'[k] = s
        /\ \A j \in Workers \ {k} : sessions'[j] = sessions[j]
    BY <1>2, <2>1 DEF SpeechInv, SpeechTypeOK
  <2>7. Parts(k)' /\ Obeys(k)'
    BY <1>1, <2>3, <2>5 DEF Parts, Obeys, Inside, SpeechInv, VoiceInv
  <2>8. Once(k)'
    BY <1>2, <1>5, <1>9, <2>3, <2>5, <2>6 DEF Once
  <2>9. Speaks(k)' /\ sessions'[k].heard = s.heard /\ Len(s.heard) = n
    BY <1>2, <2>3, <2>5, <2>6 DEF Speaks
  <2>10. Taken(k)' = n + 1
    BY <1>3, <2>9 DEF Taken
  <2>11. ItemIsChunk(k)'
    BY <1>9, <2>2, <2>3, <2>5 DEF ItemIsChunk, Sentinel
  <2>12. (x.sole /\ ~s.cut) =>
           /\ Head(q) = n + 1
           /\ Len(s.queue) = s.asked - (n + 1) + (IF s.finished THEN 1 ELSE 0)
           /\ \A i \in 1..Len(s.queue) :
                s.queue[i] = IF (n + 1) + i <= s.asked THEN (n + 1) + i ELSE Sentinel
    <3> HAVE x.sole /\ ~s.cut
    <3>1. Head(q) = n + 1
      BY <1>2, <1>6, <1>9
    <3>2. Len(s.queue) = s.asked - (n + 1) + (IF s.finished THEN 1 ELSE 0)
      <4>1. Len(q) = s.asked - n + (IF s.finished THEN 1 ELSE 0)
        BY <1>6
      <4> QED
        BY <1>3, <4>1
    <3>3. ASSUME NEW i \in 1..Len(s.queue)
          PROVE  s.queue[i] = IF (n + 1) + i <= s.asked THEN (n + 1) + i ELSE Sentinel
      <4> DEFINE a == Len(q)
                 b == Len(s.queue)
      <4>0. a \in Nat /\ b \in Nat /\ b = a - 1 /\ n \in Nat /\ i \in 1..b
        BY <1>3
      <4> HIDE DEF a, b, n
      <4>3. i + 1 \in 1..a /\ n + (i + 1) = (n + 1) + i
        BY <4>0
      <4>1. i + 1 \in 1..Len(q) /\ n + (i + 1) = (n + 1) + i
        BY <4>3 DEF a
      <4>2. s.queue[i] = q[i + 1]
        BY <1>2
      <4> QED
        BY <1>6, <4>1, <4>2
    <3> QED
      BY <3>1, <3>2, <3>3
  <2>13. InOrder(k)'
    BY <1>6, <2>2, <2>3, <2>5, <2>6, <2>9, <2>10, <2>12 DEF InOrder
  <2> QED
    BY <1>1, <1>2, <1>7, <2>3, <2>4, <2>6, <2>7, <2>8, <2>11, <2>13, VoiceActs
    DEF SessionInv, SpeechInv, SpeechTypeOK, Hold
<1> QED
  BY <1>8, <1>9

(* Noting that a chunk was heard. *)
LEMMA HeardSession ==
  ASSUME SpeechInv, NEW k \in Workers, voice[k].pos = "back", NEW s, s = Heard(k)
  PROVE  /\ s \in Session /\ s.queue = sessions[k].queue /\ s.asked = sessions[k].asked
         /\ s.finished = sessions[k].finished /\ s.cancelled = sessions[k].cancelled
         /\ s.cut = sessions[k].cut /\ s.late = sessions[k].late
         /\ voice[k].sole /\ voice[k].unheard = 0 =>
              s.heard = Append(sessions[k].heard, voice[k].item)
<1> DEFINE h == sessions[k].heard
           g == IF voice[k].sole /\ voice[k].unheard = 0 THEN Append(h, voice[k].item) ELSE h
<1>1. k \in Voices /\ voice[k] \in Voice /\ sessions[k] \in Session /\ ItemIsChunk(k) /\ Speaks(k)
  BY VoiceNumbers DEF SpeechInv, SpeechTypeOK, SessionInv, Speaks
<1>2. h \in Seq(1..MaxChunks)
  BY <1>1, SessionTypes
<1>3. g \in Seq(1..MaxChunks)
  <2>1. CASE voice[k].sole /\ voice[k].unheard = 0
    <3>1. voice[k].item \in 1..MaxChunks
      BY <1>1, <2>1, VoiceTypes, SpeechAssumption DEF ItemIsChunk
    <3> QED
      BY <1>2, <2>1, <3>1
  <2> QED
    BY <1>2, <2>1
<1>4. s = [sessions[k] EXCEPT !.heard = g]
  BY DEF Heard
<1> HIDE DEF g
<1>5. /\ s \in Session /\ s.queue = sessions[k].queue /\ s.asked = sessions[k].asked
      /\ s.finished = sessions[k].finished /\ s.cancelled = sessions[k].cancelled
      /\ s.cut = sessions[k].cut /\ s.late = sessions[k].late /\ s.heard = g
  BY <1>1, <1>3, <1>4 DEF Session
<1> QED
  BY <1>5 DEF g

(* speak came back: the session goes on only when neither its own chunk    *)
(* nor _last_timing says interrupted, and then the chunk was heard.        *)
LEMMA BackKeeps ==
  ASSUME SpeechInv, NEW k \in Workers, Back(k)
  PROVE  SpeechInv'
<1> DEFINE x == voice[k]
           s == Heard(k)
           n == Len(sessions[k].heard)
<1>1. /\ k \in Voices /\ x \in Voice /\ x.pos = "back" /\ Speaks(k)
      /\ sessions[k] \in Session /\ x.sole \in BOOLEAN
  BY VoiceNumbers, VoiceTypes DEF SpeechInv, SpeechTypeOK, Back, Speaks
<1>2. /\ s \in Session /\ s.queue = sessions[k].queue /\ s.asked = sessions[k].asked
      /\ s.finished = sessions[k].finished /\ s.cancelled = sessions[k].cancelled
      /\ s.cut = sessions[k].cut /\ s.late = sessions[k].late
      /\ x.sole /\ x.unheard = 0 => s.heard = Append(sessions[k].heard, x.item)
  BY <1>1, HeardSession
<1> HIDE DEF s
<1>3. UNCHANGED <<flag, at, cur, music>> /\ last' \in BOOLEAN
  BY DEF Back, SpeechInv, SpeechTypeOK
<1>4. Once(k) /\ InOrder(k)
  BY DEF SpeechInv, SessionInv
<1>5. CASE last \/ ~x.spoken
  <2> DEFINE e == [s EXCEPT !.cut = TRUE]
  <2>1. Ends(k, e)
    BY <1>5 DEF Back, s
  <2>2. /\ e \in Session /\ e.finished = s.finished /\ e.cancelled = s.cancelled
        /\ e.late = s.late /\ e.cut
    BY <1>2 DEF Session
  <2> HIDE DEF e
  <2> QED
    BY <1>1, <1>2, <1>3, <1>4, <2>1, <2>2, EndsKeeps DEF Once
<1>6. CASE ~(last \/ ~x.spoken)
  <2> DEFINE r == At("get", x.sole)
  <2>1. r \in Voice /\ r.pos = "get" /\ r.sole = x.sole /\ r.struck = "no"
    BY <1>1, AtFields
  <2>2. Put(k, r) /\ sessions' = [sessions EXCEPT ![k] = s]
    BY <1>1, <1>6 DEF Back, Put, SpeechInv, SpeechTypeOK, s
  <2> HIDE DEF r
  <2>3. voice'[k] = r
    BY <1>1, <2>1, <2>2, PutVoice DEF SpeechInv
  <2>4. /\ sessions' \in [Workers -> Session] /\ sessions'[k] = s
        /\ \A j \in Workers \ {k} : sessions'[j] = sessions[j]
    BY <1>2, <2>2 DEF SpeechInv, SpeechTypeOK
  <2>5. Parts(k)' /\ Obeys(k)'
    BY <2>1, <2>3 DEF Parts, Obeys, Inside
  <2>6. Once(k)' /\ ItemIsChunk(k)'
    BY <1>1, <1>2, <1>4, <2>1, <2>3, <2>4 DEF Once, ItemIsChunk, Speaks
  <2>7. InOrder(k)'
    <3> SUFFICES ASSUME x.sole, ~s.cut PROVE InOrder(k)'
      BY <2>1, <2>3, <2>4 DEF InOrder
    <3>1. x.unheard = 0
      BY <1>1, <1>6 DEF SpeechInv, VoiceInv, Parts
    <3>2. sessions[k].heard \in Seq(1..MaxChunks) /\ n \in Nat
      BY <1>1, SessionTypes
    <3>3. Taken(k) = n + 1
      BY <1>1 DEF Taken
    <3>4. s.heard = Append(sessions[k].heard, x.item) /\ x.item = n + 1
      BY <1>1, <1>2, <1>4, <3>1, <3>3 DEF InOrder
    <3>5. /\ Len(s.heard) = n + 1
          /\ \A i \in 1..n + 1 : s.heard[i] = i
      BY <1>2, <1>4, <3>2, <3>4 DEF InOrder
    <3>6. ~Speaks(k)' /\ sessions'[k].heard = s.heard
      BY <2>1, <2>3, <2>4 DEF Speaks
    <3>7. Taken(k)' = Taken(k)
      <4>1. Len(sessions'[k].heard) = n + 1 /\ n + 1 \in Nat /\ ~Speaks(k)'
        BY <3>2, <3>5, <3>6
      <4> HIDE DEF n
      <4>2. Taken(k)' = n + 1
        BY <4>1 DEF Taken
      <4> QED
        BY <3>3, <4>2
    <3> QED
      BY <1>1, <1>2, <1>4, <2>1, <2>3, <2>4, <3>5, <3>6, <3>7 DEF InOrder
  <2> QED
    BY <1>1, <1>2, <1>3, <2>1, <2>2, <2>4, <2>5, <2>6, <2>7, VoiceActs
    DEF SessionInv, SpeechInv, SpeechTypeOK, Hold
<1> QED
  BY <1>5, <1>6

(* What a stop changes of a voice. *)
LEMMA StruckFields ==
  ASSUME SpeechTypeOK, NEW v \in Voices, NEW r, r = Struck(v)
  PROVE  /\ r \in Voice /\ r.pos = voice[v].pos /\ r.parts = voice[v].parts
         /\ r.spoken = voice[v].spoken /\ r.sole = voice[v].sole
         /\ r.item = voice[v].item /\ r.unheard = voice[v].unheard
         /\ r.struck = voice[v].struck \/ (r.struck = "yes" /\ Inside(v) /\ voice[v].sole)
<1> DEFINE t == IF Inside(v) /\ voice[v].sole /\ voice[v].struck = "no"
                THEN "yes" ELSE voice[v].struck
<1>1. voice[v] \in Voice
  BY DEF SpeechTypeOK
<1>2. t \in {"no", "yes", "deaf"} /\ (t = voice[v].struck \/ (t = "yes" /\ Inside(v) /\ voice[v].sole))
  BY <1>1, VoiceTypes
<1>3. r = [voice[v] EXCEPT !.struck = t]
  BY DEF Struck
<1> HIDE DEF t
<1>4. /\ r \in Voice /\ r.pos = voice[v].pos /\ r.parts = voice[v].parts
      /\ r.spoken = voice[v].spoken /\ r.sole = voice[v].sole
      /\ r.item = voice[v].item /\ r.unheard = voice[v].unheard /\ r.struck = t
  BY <1>1, <1>2, <1>3 DEF Voice
<1> QED
  BY <1>2, <1>4

(* The voice is as it was, but that a stop may have struck it. *)
SameButStruck(v) ==
  /\ voice'[v] \in Voice /\ voice'[v].pos = voice[v].pos
  /\ voice'[v].parts = voice[v].parts /\ voice'[v].spoken = voice[v].spoken
  /\ voice'[v].sole = voice[v].sole /\ voice'[v].item = voice[v].item
  /\ voice'[v].unheard = voice[v].unheard
  /\ \/ voice'[v].struck = voice[v].struck
     \/ flag' /\ voice'[v].struck = "yes" /\ voice[v].sole

(* Setting the event leaves the voices as they are but for the mark. *)
LEMMA SetEventStrikes ==
  ASSUME SpeechInv, SetEvent
  PROVE  flag' = TRUE /\ voice' \in [Voices -> Voice] /\ \A v \in Voices : SameButStruck(v)
<1>1. flag' = TRUE
  BY DEF SetEvent
<1>2. ASSUME NEW v \in Voices PROVE SameButStruck(v)
  <2>1. voice'[v] = Struck(v)
    BY DEF SetEvent
  <2> QED
    BY <1>1, <2>1, StruckFields DEF SameButStruck, SpeechInv
<1>3. voice' \in [Voices -> Voice]
  BY <1>2 DEF SetEvent, SameButStruck
<1> QED
  BY <1>1, <1>2, <1>3

(* A voice that only is struck keeps its part of the invariant. *)
LEMMA VoiceStays ==
  ASSUME SpeechInv, NEW v \in Voices, SameButStruck(v), UNCHANGED music,
         flag' \in BOOLEAN, flag => flag'
  PROVE  Parts(v)' /\ Obeys(v)'
BY DEF SpeechInv, VoiceInv, Parts, Obeys, Inside, SameButStruck

(* A step of the main thread that moves no voice: its sessions are what is *)
(* to be shown.                                                            *)
LEMMA MainActs ==
  ASSUME SpeechInv, voice' \in [Voices -> Voice], \A v \in Voices : SameButStruck(v),
         flag' \in BOOLEAN, flag => flag', last' \in BOOLEAN, UNCHANGED <<music, cur>>,
         at' = at \/ (at # "say" /\ at' # "say"),
         at' \in {"idle", "reply", "cancelling", "finishing", "giving up", "say"},
         at' \in {"idle", "say"} => cur = 0, at' \in {"cancelling", "finishing", "giving up"} => cur # 0,
         sessions' \in [Workers -> Session],
         at' = "reply" /\ cur # 0 => ~sessions'[cur].finished,
         \A k \in Workers : SessionInv(k)'
  PROVE  SpeechInv'
<1>1. 0 \in Voices /\ cur \in Voices
  BY VoiceNumbers, CurIsWorker DEF SpeechInv
<1>2. SpeechTypeOK'
  BY DEF SpeechInv, SpeechTypeOK
<1>3. Hold'
  BY <1>1 DEF SpeechInv, Hold, SpeechTypeOK, SameButStruck
<1>4. ASSUME NEW v \in Voices PROVE VoiceInv(v)'
  BY <1>4, VoiceStays DEF SpeechInv, VoiceInv, Alone, SameButStruck
<1> QED
  BY <1>2, <1>3, <1>4 DEF SpeechInv

(* Queueing a chunk. *)
LEMMA QueuedFields ==
  ASSUME NEW t \in Session, t.asked < MaxChunks, NEW s, s = Queued(t)
  PROVE  /\ s \in Session /\ s.asked = t.asked + 1 /\ s.queue = Append(t.queue, t.asked + 1)
         /\ s.finished = t.finished /\ s.cancelled = t.cancelled /\ s.cut = t.cut
         /\ s.heard = t.heard /\ s.late = t.late
<1> DEFINE a == t.asked + 1
           q == Append(t.queue, t.asked + 1)
<1>1. a \in 0..MaxChunks
  BY SessionTypes, SpeechAssumption
<1>2. q \in Seq(0..MaxChunks)
  BY <1>1, SessionTypes
<1>3. s = [t EXCEPT !.asked = a, !.queue = q]
  BY DEF Queued
<1> HIDE DEF a, q
<1>4. /\ s \in Session /\ s.asked = a /\ s.queue = q
      /\ s.finished = t.finished /\ s.cancelled = t.cancelled /\ s.cut = t.cut
      /\ s.heard = t.heard /\ s.late = t.late
  BY <1>1, <1>2, <1>3 DEF Session
<1> QED
  BY <1>4 DEF a, q

(* A chunk is queued behind those before it. *)
LEMMA QueuedInOrder ==
  ASSUME NEW k \in Workers, NEW t \in Session, t.asked < MaxChunks, ~t.finished,
         sessions'[k] = Queued(t), voice'[k].pos \in {"get", "call", "fetch", "load", "play", "back", "dead"},
         NEW m \in Nat, m = Taken(k)',
         (voice'[k].sole /\ ~t.cut) =>
            /\ voice'[k].pos # "dead"
            /\ \A i \in 1..Len(t.heard) : t.heard[i] = i
            /\ Speaks(k)' => voice'[k].item = m
            /\ Len(t.queue) = t.asked - m
            /\ \A i \in 1..Len(t.queue) : t.queue[i] = m + i
  PROVE  InOrder(k)'
<1> DEFINE s == Queued(t)
<1>1. /\ s \in Session /\ s.asked = t.asked + 1 /\ s.queue = Append(t.queue, t.asked + 1)
      /\ s.finished = t.finished /\ s.cut = t.cut /\ s.heard = t.heard
  BY QueuedFields
<1> HIDE DEF s
<1>2. t.queue \in Seq(0..MaxChunks) /\ t.asked \in Nat /\ Len(t.queue) \in Nat
  BY SessionTypes
<1> SUFFICES ASSUME voice'[k].sole, ~t.cut PROVE InOrder(k)'
  BY <1>1 DEF InOrder, s
<1>3. /\ Len(s.queue) = Len(t.queue) + 1
      /\ \A i \in 1..Len(t.queue) : s.queue[i] = t.queue[i]
      /\ s.queue[Len(t.queue) + 1] = t.asked + 1
  BY <1>1, <1>2
<1>4. Len(t.queue) = t.asked - m /\ s.asked = t.asked + 1
  BY <1>1
<1>5. Len(s.queue) = s.asked - m
  BY <1>2, <1>3, <1>4
<1>6. ASSUME NEW i \in 1..Len(s.queue)
      PROVE  s.queue[i] = IF m + i <= s.asked THEN m + i ELSE Sentinel
  <2>1. i \in Nat /\ m + i <= s.asked
    BY <1>2, <1>4, <1>5
  <2>2. CASE i = Len(t.queue) + 1
    BY <1>2, <1>3, <1>4, <2>1, <2>2
  <2>3. CASE i # Len(t.queue) + 1
    <3>1. i \in 1..Len(t.queue)
      BY <1>2, <1>3, <2>3
    <3> QED
      BY <1>3, <2>1, <3>1
  <2> QED
    BY <2>2, <2>3
<1>7. /\ sessions'[k] = s /\ s.heard = t.heard /\ ~s.finished /\ voice'[k].pos # "dead"
      /\ s.asked \in Nat
  BY <1>1, <1>2 DEF s
<1> QED
  BY <1>5, <1>6, <1>7 DEF InOrder

(* Cancelling a session. *)
LEMMA CancelledFields ==
  ASSUME NEW t \in Session, NEW s, s = Cancelled(t)
  PROVE  s \in Session /\ s.cancelled /\ s.cut /\ s.late = t.late /\ s.finished = t.finished
<1>1. 0 \in 0..MaxChunks
  BY SpeechAssumption
<1>2. Append(t.queue, Sentinel) \in Seq(0..MaxChunks)
  BY <1>1, SessionTypes DEF Sentinel
<1> QED
  BY <1>2 DEF Cancelled, Session

(* Finishing a session. *)
LEMMA FinishedFields ==
  ASSUME NEW t \in Session, NEW s, s = Finished(t)
  PROVE  /\ s \in Session /\ s.finished /\ s.queue = Append(t.queue, Sentinel)
         /\ s.asked = t.asked /\ s.cancelled = t.cancelled /\ s.cut = t.cut
         /\ s.heard = t.heard /\ s.late = t.late
<1>1. 0 \in 0..MaxChunks
  BY SpeechAssumption
<1>2. Append(t.queue, Sentinel) \in Seq(0..MaxChunks)
  BY <1>1, SessionTypes DEF Sentinel
<1> QED
  BY <1>2 DEF Finished, Session

(* A step that leaves the voices alone. *)
LEMMA SameVoices ==
  ASSUME SpeechInv, UNCHANGED voice
  PROVE  voice' \in [Voices -> Voice] /\ \A v \in Voices : SameButStruck(v)
BY DEF SpeechInv, SpeechTypeOK, SameButStruck

(* A stop of the synthesizer keeps the invariant. *)
LEMMA StopKeeps ==
  ASSUME SpeechInv, Stop
  PROVE  SpeechInv'
<1>1. flag' = TRUE /\ voice' \in [Voices -> Voice] /\ \A v \in Voices : SameButStruck(v)
  BY SetEventStrikes DEF Stop
<1>2. ASSUME NEW k \in Workers PROVE SessionInv(k)'
  BY <1>1, SessionStays, VoiceNumbers DEF SpeechInv, Stop, SameButStruck
<1>3. UNCHANGED <<last, music, sessions, at, cur>>
  BY DEF Stop
<1> QED
  BY <1>1, <1>2, <1>3, MainActs, CurIsWorker DEF SpeechInv, SpeechTypeOK, Hold

(* Asking the model for a streamed reply does. *)
LEMMA AskStreamingKeeps ==
  ASSUME SpeechInv, AskStreaming
  PROVE  SpeechInv'
<1>1. voice' \in [Voices -> Voice] /\ \A v \in Voices : SameButStruck(v)
  BY SameVoices DEF AskStreaming
<1>2. ASSUME NEW k \in Workers PROVE SessionInv(k)'
  BY <1>1, SessionStays, VoiceNumbers DEF SpeechInv, AskStreaming, SameButStruck
<1>3. /\ at = "idle" /\ cur = 0 /\ at' = "reply"
      /\ UNCHANGED <<flag, last, music, sessions, cur>>
  BY DEF AskStreaming, SpeechInv, Hold
<1> QED
  BY <1>1, <1>2, <1>3, MainActs DEF SpeechInv, SpeechTypeOK

(* Cancelling the session does, by a call of a tool or after the join of   *)
(* finish took too long.                                                   *)
LEMMA CancelKeeps ==
  ASSUME SpeechInv, cur # 0, sessions' = [sessions EXCEPT ![cur] = Cancelled(@)], SetEvent,
         \/ at = "reply" /\ at' = "cancelling"
         \/ at = "finishing" /\ at' = "giving up",
         UNCHANGED <<last, music, cur>>
  PROVE  SpeechInv'
<1> DEFINE s == Cancelled(sessions[cur])
<1>1. /\ cur \in Workers /\ sessions[cur] \in Session /\ sessions \in [Workers -> Session]
      /\ cur \in Voices /\ last \in BOOLEAN
  BY CurIsWorker DEF SpeechInv, SpeechTypeOK
<1>2. s \in Session /\ s.cancelled /\ s.cut /\ s.late = sessions[cur].late
  BY <1>1, CancelledFields
<1> HIDE DEF s
<1>3. /\ sessions' \in [Workers -> Session] /\ sessions'[cur] = s
      /\ \A k \in Workers \ {cur} : sessions'[k] = sessions[k]
  BY <1>1, <1>2 DEF s
<1>4. flag' = TRUE /\ voice' \in [Voices -> Voice] /\ \A v \in Voices : SameButStruck(v)
  BY SetEventStrikes
<1>5. ASSUME NEW k \in Workers PROVE SessionInv(k)'
  <2>1. SessionInv(k) /\ SameButStruck(k)
    BY <1>4, VoiceNumbers DEF SpeechInv
  <2>2. CASE k = cur
    BY <1>2, <1>3, <2>1, <2>2 DEF SessionInv, Once, InOrder, ItemIsChunk, Speaks, SameButStruck
  <2>3. CASE k # cur
    BY <1>3, <2>1, <2>3, SessionStays DEF SameButStruck
  <2> QED
    BY <2>2, <2>3
<1> QED
  BY <1>1, <1>3, <1>4, <1>5, MainActs

(* Taken counts. *)
LEMMA TakenIsNat ==
  ASSUME NEW k, sessions[k] \in Session
  PROVE  Taken(k) \in Nat
<1>1. Len(sessions[k].heard) \in Nat
  BY SessionTypes
<1>2. CASE Speaks(k)
  BY <1>1, <1>2 DEF Taken
<1>3. CASE ~Speaks(k)
  BY <1>1, <1>3 DEF Taken
<1> QED
  BY <1>2, <1>3

(* Queueing a further chunk of the reply does. *)
LEMMA EnqueueKeeps ==
  ASSUME SpeechInv, Enqueue
  PROVE  SpeechInv'
<1> DEFINE t == sessions[cur]
           s == Queued(t)
<1>1. /\ cur \in Workers /\ cur # 0 /\ t \in Session /\ t.asked < MaxChunks
      /\ at = "reply" /\ ~t.finished /\ cur \in Voices /\ SessionInv(cur)
      /\ voice[cur].pos # "none" /\ voice[cur] \in Voice
  BY CurIsWorker DEF SpeechInv, SpeechTypeOK, Hold, Enqueue
<1>2. /\ s \in Session /\ s.finished = t.finished /\ s.cancelled = t.cancelled /\ s.cut = t.cut
      /\ s.heard = t.heard /\ s.late = t.late
  BY <1>1, QueuedFields
<1> HIDE DEF s
<1>3. /\ sessions' \in [Workers -> Session] /\ sessions'[cur] = s
      /\ \A k \in Workers \ {cur} : sessions'[k] = sessions[k]
  BY <1>1, <1>2 DEF Enqueue, SpeechInv, SpeechTypeOK, s
<1>4. voice' = voice /\ UNCHANGED <<flag, last, music, at, cur>>
  BY DEF Enqueue
<1>5. voice' \in [Voices -> Voice] /\ \A v \in Voices : SameButStruck(v)
  BY <1>4, SameVoices
<1>6. SessionInv(cur)'
  <2> DEFINE m == Taken(cur)
  <2>1. m \in Nat /\ t.asked \in Nat /\ Len(t.queue) \in Nat
    BY <1>1, SessionTypes, TakenIsNat
  <2>2. Taken(cur)' = m
    BY <1>2, <1>3, <1>4 DEF Taken, Speaks
  <2>3. voice[cur].pos \in {"get", "call", "fetch", "load", "play", "back", "dead"}
    BY <1>1, VoiceTypes
  <2>4. (voice[cur].sole /\ ~t.cut) =>
            /\ voice[cur].pos # "dead"
            /\ \A i \in 1..Len(t.heard) : t.heard[i] = i
            /\ Speaks(cur) => voice[cur].item = m
            /\ Len(t.queue) = t.asked - m
            /\ \A i \in 1..Len(t.queue) : t.queue[i] = m + i
    <3> HAVE voice[cur].sole /\ ~t.cut
    <3>1. /\ \A i \in 1..Len(t.heard) : t.heard[i] = i
          /\ Speaks(cur) => voice[cur].item = m
          /\ Len(t.queue) = IF voice[cur].pos = "dead" THEN 0 ELSE t.asked - m + 0
          /\ \A i \in 1..Len(t.queue) :
               t.queue[i] = IF m + i <= t.asked THEN m + i ELSE Sentinel
          /\ voice[cur].pos # "dead"
      BY <1>1 DEF SessionInv, InOrder
    <3> HIDE DEF m
    <3>2. Len(t.queue) = t.asked - m
      BY <2>1, <3>1
    <3>3. ASSUME NEW i \in 1..Len(t.queue) PROVE t.queue[i] = m + i
      BY <2>1, <3>1, <3>2
    <3> QED
      BY <3>1, <3>2, <3>3
  <2>5. Speaks(cur)' <=> Speaks(cur)
    BY <1>4 DEF Speaks
  <2>6. InOrder(cur)'
    <3> HIDE DEF m
    <3>1. sessions'[cur] = Queued(t)
      BY <1>3 DEF s
    <3> QED
      BY <1>1, <1>4, <2>1, <2>2, <2>3, <2>4, <2>5, <3>1, QueuedInOrder
  <2> QED
    BY <1>1, <1>2, <1>3, <1>4, <2>6 DEF SessionInv, Once, ItemIsChunk, Speaks
<1>7. ASSUME NEW k \in Workers PROVE SessionInv(k)'
  BY <1>3, <1>4, <1>6, SessionStays DEF SpeechInv
<1>8. ~sessions'[cur].finished
  BY <1>1, <1>2, <1>3
<1> QED
  BY <1>1, <1>3, <1>4, <1>5, <1>7, <1>8, MainActs DEF SpeechInv, SpeechTypeOK

(* So does finishing the session: the sentinel comes last. *)
LEMMA AgentDoneKeeps ==
  ASSUME SpeechInv, AgentDone
  PROVE  SpeechInv'
<1>1. /\ at = "reply" /\ UNCHANGED <<flag, last, music, voice, cur>>
      /\ at' = IF cur = 0 THEN "idle" ELSE "finishing"
      /\ sessions' = [k \in Workers |-> IF k = cur THEN Finished(sessions[k]) ELSE sessions[k]]
  BY DEF AgentDone
<1>2. voice' \in [Voices -> Voice] /\ \A v \in Voices : SameButStruck(v)
  BY <1>1, SameVoices
<1>3. ASSUME NEW k \in Workers, k = cur
      PROVE  sessions'[k] \in Session /\ SessionInv(k)'
  <2> DEFINE t == sessions[k]
             s == Finished(t)
             m == Taken(k)
  <2>1. /\ t \in Session /\ voice[k].pos # "none" /\ ~t.finished /\ SessionInv(k) /\ k # 0
    BY <1>1, <1>3, VoiceNumbers DEF SpeechInv, SpeechTypeOK, Hold
  <2>2. /\ s \in Session /\ s.finished /\ s.queue = Append(t.queue, Sentinel)
        /\ s.asked = t.asked /\ s.cancelled = t.cancelled /\ s.cut = t.cut
        /\ s.heard = t.heard /\ s.late = t.late
    BY <2>1, FinishedFields
  <2>3. sessions'[k] = s
    BY <1>1, <1>3
  <2> HIDE DEF s
  <2>4. /\ m \in Nat /\ t.asked \in Nat /\ Len(t.queue) \in Nat
        /\ t.queue \in Seq(0..MaxChunks)
    BY <2>1, SessionTypes, TakenIsNat
  <2>5. Taken(k)' = m /\ (Speaks(k)' <=> Speaks(k))
    BY <1>1, <2>2, <2>3 DEF Taken, Speaks
  <2>6. Once(k)' /\ ItemIsChunk(k)'
    BY <1>1, <2>1, <2>2, <2>3, <2>5 DEF SessionInv, Once, ItemIsChunk
  <2>7. InOrder(k)'
    <3> SUFFICES ASSUME voice[k].sole, ~t.cut PROVE InOrder(k)'
      BY <1>1, <2>2, <2>3 DEF InOrder
    <3>1. /\ \A i \in 1..Len(t.heard) : t.heard[i] = i
          /\ Speaks(k) => voice[k].item = m
          /\ voice[k].pos # "dead"
          /\ Len(t.queue) = t.asked - m + 0
          /\ \A i \in 1..Len(t.queue) :
               t.queue[i] = IF m + i <= t.asked THEN m + i ELSE Sentinel
      BY <2>1 DEF SessionInv, InOrder
    <3> HIDE DEF m
    <3>2. /\ Len(s.queue) = Len(t.queue) + 1
          /\ \A i \in 1..Len(t.queue) : s.queue[i] = t.queue[i]
          /\ s.queue[Len(t.queue) + 1] = Sentinel
      BY <2>2, <2>4
    <3>3. Len(t.queue) = t.asked - m
      BY <2>4, <3>1
    <3>4. Len(s.queue) = s.asked - m + 1
      BY <2>2, <2>4, <3>2, <3>3
    <3>5. ASSUME NEW i \in 1..Len(s.queue)
          PROVE  s.queue[i] = IF m + i <= s.asked THEN m + i ELSE Sentinel
      <4>1. CASE i = Len(t.queue) + 1
        <5>1. ~(m + i <= t.asked)
          BY <2>4, <3>3, <4>1
        <5> QED
          BY <2>2, <3>2, <4>1, <5>1
      <4>2. CASE i # Len(t.queue) + 1
        <5>1. i \in 1..Len(t.queue)
          BY <2>4, <3>2, <4>2
        <5> QED
          BY <2>2, <3>1, <3>2, <5>1
      <4> QED
        BY <4>1, <4>2
    <3> QED
      BY <1>1, <2>2, <2>3, <2>5, <3>1, <3>4, <3>5 DEF InOrder
  <2> QED
    BY <2>2, <2>3, <2>6, <2>7 DEF SessionInv
<1>4. ASSUME NEW k \in Workers, k # cur
      PROVE  sessions'[k] \in Session /\ SessionInv(k)'
  <2>1. sessions'[k] = sessions[k] /\ SessionInv(k) /\ sessions[k] \in Session
    BY <1>1, <1>4 DEF SpeechInv, SpeechTypeOK
  <2> QED
    BY <1>1, <2>1, SessionStays
<1>5. /\ sessions' \in [Workers -> Session]
      /\ \A k \in Workers : SessionInv(k)'
  BY <1>1, <1>3, <1>4
<1> QED
  BY <1>1, <1>2, <1>5, MainActs DEF SpeechInv, SpeechTypeOK

(* Speaking a reply that is not streamed does. *)
LEMMA SayKeeps ==
  ASSUME SpeechInv, Say
  PROVE  SpeechInv'
<1> DEFINE b == (Left = {})
           r == At("call", b)
<1>1. /\ cur = 0 /\ 0 \in Voices /\ voice[0].pos = "none" /\ at' = "say"
      /\ UNCHANGED <<flag, last, music, sessions, cur>> /\ Put(0, r)
  BY VoiceNumbers DEF SpeechInv, Hold, Say, Put
<1>2. b => \A w \in Workers : voice[w].pos = "none"
  BY <1>1, VoiceNumbers DEF Left
<1>3. b \in BOOLEAN
  OBVIOUS
<1> HIDE DEF b
<1>4. r \in Voice /\ r.pos = "call" /\ r.sole = b /\ r.struck = "no"
  BY <1>3, AtFields
<1> HIDE DEF r
<1>5. /\ voice' \in [Voices -> Voice] /\ voice'[0] = r
      /\ \A w \in Voices \ {0} : voice'[w] = voice[w]
  BY <1>1, <1>4, PutVoice DEF SpeechInv
<1>6. SpeechTypeOK' /\ Hold'
  BY <1>1, <1>4, <1>5 DEF SpeechInv, SpeechTypeOK, Hold
<1>7. ASSUME NEW w \in Voices PROVE VoiceInv(w)'
  <2>1. CASE w = 0
    BY <1>1, <1>2, <1>4, <1>5, <2>1, VoiceNumbers DEF VoiceInv, Alone, Parts, Obeys, Inside
  <2>2. CASE w # 0
    BY <1>1, <1>5, <2>2 DEF VoiceInv, Alone, Parts, Obeys, Inside, SpeechInv
  <2> QED
    BY <2>1, <2>2
<1>8. ASSUME NEW k \in Workers PROVE SessionInv(k)'
  BY <1>1, <1>5, SessionStays, VoiceNumbers DEF SpeechInv
<1> QED
  BY <1>6, <1>7, <1>8 DEF SpeechInv

(* Its end does. *)
LEMMA SaidKeeps ==
  ASSUME SpeechInv, Said
  PROVE  SpeechInv'
BY MainFallsSilent DEF Said

(* Opening a session does. *)
LEMMA OpenSessionKeeps ==
  ASSUME SpeechInv, OpenSession
  PROVE  SpeechInv'
<1> DEFINE b == (Left = {})
           r == At("get", b)
           s == Queued(NoSession)
<1>1. PICK k \in Workers :
        /\ voice[k].pos = "none" /\ cur' = k
        /\ sessions' = [sessions EXCEPT ![k] = s]
        /\ Put(k, r)
  BY DEF OpenSession, Put
<1>2. /\ k \in Voices /\ k # 0 /\ cur = 0 /\ at = "reply" /\ voice[0].pos = "none"
      /\ UNCHANGED <<flag, last, music, at>> /\ 0 \in Voices /\ 0 \notin Workers
  BY VoiceNumbers DEF OpenSession, SpeechInv, Hold
<1>3. b => \A w \in Workers : voice[w].pos = "none"
  BY <1>2, VoiceNumbers DEF Left
<1>4. b \in BOOLEAN
  OBVIOUS
<1> HIDE DEF b
<1>5. r \in Voice /\ r.pos = "get" /\ r.sole = b /\ r.struck = "no"
  BY <1>4, AtFields
<1> HIDE DEF r
<1>6. /\ voice' \in [Voices -> Voice] /\ voice'[k] = r
      /\ \A w \in Voices \ {k} : voice'[w] = voice[w]
  BY <1>1, <1>2, <1>5, PutVoice DEF SpeechInv
<1>7. NoSession.asked < MaxChunks
  BY NoSessionFields, SpeechAssumption
<1>8. /\ s \in Session /\ ~s.finished /\ ~s.cancelled /\ ~s.cut
      /\ s.heard = <<>> /\ s.late = 0
  BY <1>7, QueuedFields, NoSessionFields
<1> HIDE DEF s
<1>9. /\ sessions' \in [Workers -> Session] /\ sessions'[k] = s
      /\ \A j \in Workers \ {k} : sessions'[j] = sessions[j]
  BY <1>1, <1>8 DEF SpeechInv, SpeechTypeOK
<1>10. SpeechTypeOK'
  <2>1. cur' \in 0..(MaxLeft + 1)
    BY <1>1, SpeechAssumption DEF Workers
  <2> QED
    BY <1>1, <1>2, <1>6, <1>9, <2>1 DEF SpeechInv, SpeechTypeOK
<1>11. Hold'
  BY <1>1, <1>2, <1>5, <1>6, <1>8, <1>9 DEF SpeechInv, SpeechTypeOK, Hold
<1>12. ASSUME NEW w \in Voices PROVE VoiceInv(w)'
  <2>1. CASE w = k
    BY <1>1, <1>2, <1>3, <1>5, <1>6, <2>1, VoiceNumbers DEF VoiceInv, Alone, Parts, Obeys, Inside
  <2>2. CASE w # k
    <3>1. voice'[w] = voice[w] /\ UNCHANGED <<music, flag>>
      BY <1>2, <1>6, <2>2
    <3>2. ~voice'[w].sole
      BY <1>2, <3>1 DEF SpeechInv, VoiceInv, Alone
    <3> QED
      BY <3>1, <3>2 DEF SpeechInv, VoiceInv, Alone, Parts, Obeys, Inside
  <2> QED
    BY <2>1, <2>2
<1>13. SessionInv(k)'
  <2>1. ~Speaks(k)' /\ Len(s.heard) = 0
    BY <1>5, <1>6, <1>8 DEF Speaks
  <2>2. Taken(k)' = 0
    BY <1>9, <2>1 DEF Taken
  <2>3. /\ NoSession \in Session /\ ~NoSession.finished /\ sessions'[k] = Queued(NoSession)
        /\ Len(NoSession.heard) = 0 /\ Len(NoSession.queue) = 0 /\ NoSession.asked - 0 = 0
    BY <1>9, NoSessionFields DEF s
  <2>4. InOrder(k)'
    BY <1>5, <1>6, <1>7, <2>1, <2>2, <2>3, QueuedInOrder
  <2> QED
    BY <1>5, <1>6, <1>8, <1>9, <2>1, <2>4 DEF SessionInv, Once, ItemIsChunk
<1>14. ASSUME NEW j \in Workers \ {k} PROVE SessionInv(j)'
  BY <1>6, <1>9, SessionStays, VoiceNumbers DEF SpeechInv
<1> QED
  BY <1>10, <1>11, <1>12, <1>13, <1>14 DEF SpeechInv

(* Letting go of the session does: its thread, when it lives on, is no     *)
(* longer sole.                                                            *)
LEMMA LetGoKeeps ==
  ASSUME SpeechInv, NEW b \in BOOLEAN, LetGo(b), at # "say", at' \in {"idle", "reply"},
         last' \in BOOLEAN
  PROVE  SpeechInv'
<1>1. /\ cur' = 0 /\ UNCHANGED music /\ flag' = (b \/ flag)
      /\ voice' = [v \in Voices |->
                 IF v = 0 \/ v # cur THEN IF b THEN Struck(v) ELSE voice[v]
                 ELSE IF Alive(v) THEN [At(voice[v].pos, FALSE) EXCEPT
                                          !.parts = voice[v].parts, !.spoken = voice[v].spoken]
                 ELSE Gone]
      /\ sessions' = [k \in Workers |->
                    IF k # cur THEN sessions[k]
                    ELSE IF Alive(k) THEN [sessions[k] EXCEPT !.heard = <<>>] ELSE NoSession]
  BY DEF LetGo
<1>2. flag' \in BOOLEAN /\ (flag => flag') /\ (b => flag')
  BY <1>1 DEF SpeechInv, SpeechTypeOK
<1>3. 0 \in Voices /\ voice[0].pos = "none" /\ 0 \notin Workers /\ Workers \subseteq Voices
  BY VoiceNumbers DEF SpeechInv, Hold
<1>4. ASSUME NEW v \in Voices, v = 0 \/ v # cur PROVE SameButStruck(v)
  <2>1. CASE b
    <3>1. voice'[v] = Struck(v)
      BY <1>1, <1>4, <2>1
    <3> QED
      BY <1>2, <2>1, <3>1, StruckFields DEF SameButStruck, SpeechInv
  <2>2. CASE ~b
    <3>1. voice'[v] = voice[v]
      BY <1>1, <1>4, <2>2
    <3> QED
      BY <3>1 DEF SameButStruck, SpeechInv, SpeechTypeOK
  <2> QED
    BY <2>1, <2>2
<1>5. ASSUME NEW v \in Voices, v # 0, v = cur
      PROVE  /\ voice'[v] \in Voice /\ ~voice'[v].sole /\ voice'[v].struck = "no"
             /\ voice'[v].pos = IF Alive(v) THEN voice[v].pos ELSE "none"
             /\ Alive(v) => voice'[v].parts = voice[v].parts
  <2> DEFINE g == At(voice[v].pos, FALSE)
             r == [g EXCEPT !.parts = voice[v].parts, !.spoken = voice[v].spoken]
  <2>1. CASE Alive(v)
    <3>1. /\ voice[v] \in Voice /\ voice[v].parts \in 0..MaxParts
          /\ voice[v].spoken \in BOOLEAN
      BY DEF SpeechInv, SpeechTypeOK, Voice
    <3>2. g \in Voice /\ g.pos = voice[v].pos /\ ~g.sole /\ g.struck = "no"
      <4> DEFINE p == voice[v].pos
      <4>1. p \in {"none", "get", "call", "fetch", "load", "play", "back", "dead"}
        BY <3>1, VoiceTypes
      <4> HIDE DEF p
      <4>2. /\ At(p, FALSE) \in Voice /\ At(p, FALSE).pos = p /\ At(p, FALSE).sole = FALSE
            /\ At(p, FALSE).struck = "no"
        BY <4>1, AtFields
      <4> QED
        BY <4>2 DEF p
    <3> HIDE DEF g
    <3>3. /\ r \in Voice /\ r.pos = voice[v].pos /\ ~r.sole /\ r.struck = "no"
          /\ r.parts = voice[v].parts
      BY <3>1, <3>2 DEF Voice
    <3>4. voice'[v] = r
      BY <1>1, <1>5, <2>1 DEF g
    <3> QED
      BY <2>1, <3>3, <3>4
  <2>2. CASE ~Alive(v)
    <3>1. voice'[v] = Gone
      BY <1>1, <1>5, <2>2
    <3>2. Gone \in Voice /\ Gone.pos = "none" /\ ~Gone.sole /\ Gone.struck = "no"
      BY AtFields DEF Gone
    <3> QED
      BY <2>2, <3>1, <3>2
  <2> QED
    BY <2>1, <2>2
<1>6. voice' \in [Voices -> Voice]
  <2>1. \A v \in Voices : voice'[v] \in Voice
    BY <1>4, <1>5 DEF SameButStruck
  <2> QED
    BY <1>1, <2>1
<1>7. ASSUME NEW v \in Voices
      PROVE  /\ voice'[v].pos = IF v = 0 \/ v # cur \/ Alive(v) THEN voice[v].pos ELSE "none"
             /\ voice'[v].sole => voice[v].sole /\ (v = 0 \/ v # cur)
  BY <1>4, <1>5 DEF SameButStruck
<1>8. ASSUME NEW k \in Workers PROVE sessions'[k] \in Session /\ SessionInv(k)'
  <2>1. SessionInv(k) /\ sessions[k] \in Session /\ k \in Voices /\ k # 0
    BY VoiceNumbers DEF SpeechInv, SpeechTypeOK
  <2>2. CASE k # cur
    <3>1. sessions'[k] = sessions[k]
      BY <1>1, <2>2
    <3> QED
      BY <1>4, <2>1, <2>2, <3>1, SessionStays DEF SameButStruck
  <2>3. CASE k = cur /\ Alive(k)
    <3> DEFINE s == [sessions[k] EXCEPT !.heard = <<>>]
    <3>1. sessions'[k] = s
      BY <1>1, <2>3
    <3>2. <<>> \in Seq(1..MaxChunks)
      OBVIOUS
    <3>3. /\ s \in Session /\ s.late = sessions[k].late /\ s.cut = sessions[k].cut
          /\ s.cancelled = sessions[k].cancelled
      BY <2>1, <3>2 DEF Session
    <3> HIDE DEF s
    <3>4. ~voice'[k].sole /\ voice'[k].pos = voice[k].pos
      BY <1>5, <2>1, <2>3
    <3> QED
      BY <2>1, <3>1, <3>3, <3>4 DEF SessionInv, Once, InOrder, ItemIsChunk
  <2>4. CASE k = cur /\ ~Alive(k)
    <3>1. sessions'[k] = NoSession
      BY <1>1, <2>4
    <3>2. ~voice'[k].sole
      BY <1>5, <2>1, <2>4
    <3> QED
      BY <3>1, <3>2, NoSessionFields DEF SessionInv, Once, InOrder, ItemIsChunk
  <2> QED
    BY <2>2, <2>3, <2>4
<1>9. sessions' \in [Workers -> Session]
  BY <1>1, <1>8
<1>10. SpeechTypeOK'
  <2>1. 0 \in 0..(MaxLeft + 1)
    BY SpeechAssumption
  <2> QED
    BY <1>1, <1>2, <1>6, <1>9, <2>1 DEF SpeechInv, SpeechTypeOK
<1>11. Hold'
  <2>1. voice'[0].pos = "none"
    BY <1>3, <1>7
  <2>2. music' # Nobody => voice'[music'].pos = "play"
    BY <1>1, <1>7 DEF SpeechInv, SpeechTypeOK, Hold, Alive
  <2> QED
    BY <1>1, <2>1, <2>2 DEF Hold
<1>12. ASSUME NEW v \in Voices PROVE VoiceInv(v)'
  <2>1. Alone(v)'
    BY <1>1, <1>7 DEF SpeechInv, VoiceInv, Alone
  <2>2. CASE v = 0 \/ v # cur
    <3>1. SameButStruck(v)
      BY <1>4, <2>2
    <3> QED
      BY <1>1, <1>2, <2>1, <3>1, VoiceStays DEF VoiceInv
  <2>3. CASE v # 0 /\ v = cur
    <3>1. Inside(v)' => Inside(v) /\ Alive(v)
      BY <1>7, <2>3 DEF Inside, Alive
    <3> QED
      BY <1>5, <2>1, <2>3, <3>1 DEF SpeechInv, VoiceInv, Parts, Obeys
  <2> QED
    BY <2>2, <2>3
<1> QED
  BY <1>8, <1>10, <1>11, <1>12 DEF SpeechInv

(* The initial state satisfies the invariant. *)
LEMMA SpeechInit ==
  ASSUME Init
  PROVE  SpeechInv
<1>1. Gone \in Voice /\ Gone.pos = "none" /\ ~Gone.sole /\ Gone.struck = "no"
  BY AtFields DEF Gone
<1>2. 0 \in Voices
  BY VoiceNumbers
<1>3. /\ voice \in [Voices -> Voice] /\ \A v \in Voices : voice[v] = Gone
      /\ sessions \in [Workers -> Session] /\ \A k \in Workers : sessions[k] = NoSession
  BY <1>1, NoSessionFields DEF Init
<1>4. SpeechTypeOK
  <2>1. 0 \in 0..(MaxLeft + 1)
    BY SpeechAssumption
  <2> QED
    BY <1>3, <2>1 DEF Init, SpeechTypeOK
<1>5. Hold
  BY <1>1, <1>2, <1>3 DEF Init, Hold
<1>6. ASSUME NEW v \in Voices PROVE VoiceInv(v)
  BY <1>1, <1>3 DEF VoiceInv, Alone, Parts, Obeys, Inside
<1>7. ASSUME NEW k \in Workers PROVE SessionInv(k)
  BY <1>1, <1>3, NoSessionFields, VoiceNumbers DEF SessionInv, Once, InOrder, ItemIsChunk
<1> QED
  BY <1>4, <1>5, <1>6, <1>7 DEF SpeechInv

(* Every step of the main thread keeps it. *)
LEMMA MainKeeps ==
  ASSUME SpeechInv, Main
  PROVE  SpeechInv'
<1>1. CASE ToolCall \/ FinishTimesOut
  <2>1. CASE ToolCall
    <3>1. /\ cur # 0 /\ sessions' = [sessions EXCEPT ![cur] = Cancelled(@)] /\ SetEvent
          /\ at = "reply" /\ at' = "cancelling" /\ UNCHANGED <<last, music, cur>>
      BY <2>1 DEF ToolCall
    <3> QED
      BY <3>1, CancelKeeps
  <2>2. CASE FinishTimesOut
    <3>1. /\ cur # 0 /\ sessions' = [sessions EXCEPT ![cur] = Cancelled(@)] /\ SetEvent
          /\ at = "finishing" /\ at' = "giving up" /\ UNCHANGED <<last, music, cur>>
      BY <2>2 DEF FinishTimesOut, SpeechInv, SpeechTypeOK
    <3> QED
      BY <3>1, CancelKeeps
  <2> QED
    BY <1>1, <2>1, <2>2
<1>2. CASE CancelReturns
  BY <1>2, LetGoKeeps DEF CancelReturns
<1>3. CASE AgentFails
  BY <1>3, LetGoKeeps DEF AgentFails, SpeechInv, SpeechTypeOK
<1>4. CASE GiveUp
  BY <1>4, LetGoKeeps DEF GiveUp
<1>5. CASE FinishReturns
  <2>1. /\ cur \in Workers /\ sessions[cur] \in Session /\ at = "finishing"
    BY <1>5, CurIsWorker DEF FinishReturns, SpeechInv, SpeechTypeOK
  <2>2. sessions[cur].broken \in BOOLEAN /\ sessions[cur].cut \in BOOLEAN
    BY <2>1, SessionTypes
  <2>3. last' \in BOOLEAN /\ at' = "idle" /\ LetGo(sessions[cur].broken)
    BY <1>5, <2>2 DEF FinishReturns, SpeechInv, SpeechTypeOK
  <2> QED
    BY <2>1, <2>2, <2>3, LetGoKeeps
<1> QED
  BY <1>1, <1>2, <1>3, <1>4, <1>5, SayKeeps, SaidKeeps, AskStreamingKeeps, OpenSessionKeeps,
     EnqueueKeeps, AgentDoneKeeps DEF Main

(* Nothing changes, nothing breaks. *)
LEMMA StutterKeeps ==
  ASSUME SpeechInv, UNCHANGED vars
  PROVE  SpeechInv'
BY DEF vars, SpeechInv, SpeechTypeOK, Hold, VoiceInv, Alone, Parts, Obeys, Inside,
       SessionInv, Once, InOrder, ItemIsChunk, Taken, Speaks

(* The invariant holds in every reachable state; with it the types. *)
THEOREM SpeechInvariant == Spec => []SpeechInv
<1>1. Init => SpeechInv
  BY SpeechInit
<1>2. SpeechInv /\ [Next]_vars => SpeechInv'
  <2> SUFFICES ASSUME SpeechInv, [Next]_vars PROVE SpeechInv'
    OBVIOUS
  <2>1. CASE Stop
    BY <2>1, StopKeeps
  <2>2. CASE Main
    BY <2>2, MainKeeps
  <2>3. CASE Speak(0)
    BY <2>3, SpeakKeeps, VoiceNumbers
  <2>4. CASE MusicEnds
    BY <2>4, MusicEndsKeeps DEF MusicEnds, SpeechInv, SpeechTypeOK
  <2>5. ASSUME NEW k \in Workers, Worker(k) PROVE SpeechInv'
    BY <2>5, GetKeeps, SpeakKeeps, BackKeeps, VoiceNumbers DEF Worker
  <2>6. CASE UNCHANGED vars
    BY <2>6, StutterKeeps
  <2> QED
    BY <2>1, <2>2, <2>3, <2>4, <2>5, <2>6 DEF Next
<1> QED
  BY <1>1, <1>2, PTL DEF Spec

(* Every chunk of a reply whose session ended uninterrupted was heard to   *)
(* its end and in the order the reply has them, for a session whose thread *)
(* began alone and was not left: run_turn's finish may be believed.        *)
THEOREM FinishedIsHeard == Spec => []FinishedMeansHeard
<1>1. SpeechInv => FinishedMeansHeard
  <2> SUFFICES ASSUME SpeechInv, NEW k \in Workers,
                      voice[k].pos = "dead", ~sessions[k].cut, voice[k].sole
               PROVE  sessions[k].heard = [i \in 1..sessions[k].asked |-> i]
    BY DEF FinishedMeansHeard
  <2> DEFINE h == sessions[k].heard
  <2>1. h \in Seq(1..MaxChunks) /\ Len(h) \in Nat
    BY SessionTypes DEF SpeechInv, SpeechTypeOK
  <2>2. Taken(k) = Len(h)
    BY <2>1 DEF Taken, Speaks
  <2>3. Len(h) = sessions[k].asked /\ \A i \in 1..Len(h) : h[i] = i
    BY <2>2 DEF SpeechInv, SessionInv, InOrder
  <2>4. h = [i \in 1..Len(h) |-> h[i]]
    BY <2>1
  <2> QED
    BY <2>3, <2>4
<1> QED
  BY <1>1, SpeechInvariant, PTL

(* A cancelled session speaks at most the chunk its thread had already     *)
(* taken: cancel wakes the thread with a sentinel and _run looks at the    *)
(* cancellation before it speaks.                                          *)
THEOREM CancelledFallsSilent == Spec => []CancelSpeaksNoMore
<1>1. SpeechInv => CancelSpeaksNoMore
  BY DEF SpeechInv, SessionInv, Once, CancelSpeaksNoMore
<1> QED
  BY <1>1, SpeechInvariant, PTL

(* Once stop() came while a chunk of a sole voice is spoken, speak plays   *)
(* no further part of it.                                                  *)
THEOREM StopIsObeyed == Spec => []StopEndsChunk
<1>1. SpeechInv => StopEndsChunk
  BY DEF SpeechInv, VoiceInv, Obeys, StopEndsChunk
<1> QED
  BY <1>1, SpeechInvariant, PTL

=============================================================================
