---------------------------- MODULE RuntimeProofs ----------------------------
(***************************************************************************)
(* The invariants of the main loop for every set of configurations, every  *)
(* turn limit and every bound of the environment.                          *)
(*                                                                         *)
(* The inductive invariant has four parts beside the types, each proved    *)
(* from the ones before it: where a command and a conversation may be open *)
(* (CommandInv), where a monitor may be alive (MonitorInv), which state    *)
(* the loop starts from (LoopInv) and, when replies are spoken at once,    *)
(* the state of every place of a turn with what the monitor has heard      *)
(* (BufferedInv).                                                          *)
(***************************************************************************)
EXTENDS Runtime, TLAPS

SpeechPlaces == {"speaking", "waiting", "stopping", "hushing"}
AgentPlaces == {"ask", "pausing", "paused", "pause", "call", "agentTool",
                "settling", "settleStop"}
RecoveryPlaces == {"recover", "recovering", "exit", "crash"}
Idle == {"boot", "greet", "wake", "watch"}

Follow == {"AWAITING_SPEECH", "AWAITING_CONFIRMATION"}
Replying == {"TEXT_INPUT", "TRANSCRIBING", "EXECUTING_TOOL", "THINKING"}

(* A text that is being taken from the queue is there.                     *)
Types ==
  /\ TypeOK
  /\ console <= typed
  /\ at = "text" => console > 0

(* A command belongs to a conversation, from the capture to the last step  *)
(* of its turn.                                                            *)
CommandInv ==
  /\ cmd # "none" => conv.active
  /\ at \in Idle \cup {"loop", "text", "wrapup", "interrupted"} => cmd = "none"
  /\ at \in Idle => ~conv.active
  /\ at \in Busy \cup {"listen", "hearing", "wrapup", "interrupted"} => conv.active

(* A monitor lives while the assistant speaks or the agent streams, and is *)
(* gone when the turn goes on: every wait ends with a dead thread or in    *)
(* the recovery, which joins it.                                           *)
MonitorInv ==
  ~config.slow =>
    /\ Alive => /\ config.bargeIn
                /\ at \in SpeechPlaces \cup AgentPlaces \cup RecoveryPlaces
    /\ at \in AgentPlaces /\ Alive => Streams /\ tts

LoopInv ==
  ~config.slow =>
    /\ at = "boot" => state = "STARTING"
    /\ at \in Idle \ {"boot"} => state = "SLEEPING"
    /\ at = "loop" => IF conv.active THEN state \in Follow ELSE state = "SLEEPING"

(* Replies are spoken at once, and no wait times out.                      *)
Buffered == ~config.streaming /\ ~config.slow

(* The state at every place of a turn.                                     *)
StateFits ==
  /\ at = "listen" => state \in Follow
  /\ at = "hearing" => state = "CAPTURING"
  /\ at = "text" => state \in Follow \cup {"SLEEPING", "CAPTURING"}
  /\ at = "transcribe" => state = "CAPTURING"
  /\ at = "stt" => state = "TRANSCRIBING"
  /\ at = "route" => state \in {"TEXT_INPUT", "TRANSCRIBING"}
  /\ at \in {"tool", "agentTool"} => state = "EXECUTING_TOOL"
  /\ at \in {"ask", "call"} => state = "THINKING"
  /\ at = "say" => state \in Replying
  /\ at \in {"route", "say"} /\ state = "TEXT_INPUT" => turn.src = "text"
  /\ at \in SpeechPlaces => state \in {"SPEAKING", "CAPTURING"}
  /\ at = "after" => state \in Replying \cup {"SPEAKING", "CAPTURING"}
  /\ at \in {"late", "interrupted"} => state = "CAPTURING"
  /\ at = "wrapup" => state \in Replying \cup {"SPEAKING"}
  /\ at \notin {"paused", "pausing", "pause", "settling", "settleStop"}
  /\ ~turn.open
  /\ at = "close" => turn.goal = "end"

(* The monitor moves the state to CAPTURING when it calls back, not before *)
(* and not twice, and stores either a capture or an error.                 *)
MonitorFits ==
  /\ ~config.bargeIn => mon = "none" /\ ~result
  /\ Alive => at \in SpeechPlaces \cup {"exit", "crash"}
  /\ at \in SpeechPlaces =>
       /\ mon \in {"listening", "callback", "acting"} => state = "SPEAKING"
       /\ mon = "capturing" \/ result => state = "CAPTURING"
  /\ at \in SpeechPlaces \cup {"after"} /\ state = "CAPTURING" => trigEv
  /\ mon \in {"callback", "acting"} => trigEv
  /\ result => ~error
  /\ mon \in {"listening", "callback", "acting", "capturing"} => ~result /\ ~error

(* Where an interruption is that has been heard and not handed on, and     *)
(* which transitions have been refused.                                    *)
HeardFits ==
  /\ held => at \in {"after", "close"} \cup RecoveryPlaces
  /\ at = "after" /\ held => state = "CAPTURING"
  /\ heard =>
       \/ at \in SpeechPlaces \cup {"after", "late"} /\ result /\ state = "CAPTURING"
       \/ at = "interrupted"
       \/ at \in {"close", "recover", "recovering", "loop"} /\ turn.goal = "end"
       \/ Over
  /\ at = "loop" /\ conv.active => ~heard
  /\ fault # "none" => at \in RecoveryPlaces
  /\ fault = "invalid" => turn.goal = "end"

BufferedInv == Buffered => StateFits /\ MonitorFits /\ HeardFits

RuntimeInv == Types /\ CommandInv /\ MonitorInv /\ LoopInv /\ BufferedInv

-----------------------------------------------------------------------------
(* The transition table, read by the states the runtime moves to.          *)

(* From which states each state can be entered.                            *)
LEMMA Moves ==
  ASSUME NEW s \in States
  PROVE  /\ CanMove(s, "SLEEPING") <=>
              s \in Follow \cup Replying \cup {"STARTING", "SPEAKING", "RECOVERING"}
         /\ CanMove(s, "AWAITING_SPEECH") <=>
              s \in Replying \cup {"SLEEPING", "AWAITING_CONFIRMATION", "SPEAKING"}
         /\ CanMove(s, "AWAITING_CONFIRMATION") <=>
              s \in Replying \cup {"AWAITING_SPEECH", "SPEAKING"}
         /\ CanMove(s, "CAPTURING") <=> s \in Follow \cup {"SPEAKING"}
         /\ CanMove(s, "TEXT_INPUT") <=> s \in Follow \cup {"SLEEPING", "CAPTURING"}
         /\ CanMove(s, "TRANSCRIBING") <=> s = "CAPTURING"
         /\ CanMove(s, "EXECUTING_TOOL") <=>
              s \in {"TEXT_INPUT", "TRANSCRIBING", "THINKING", "SPEAKING"}
         /\ CanMove(s, "THINKING") <=>
              s \in {"TEXT_INPUT", "TRANSCRIBING", "EXECUTING_TOOL", "SPEAKING"}
         /\ CanMove(s, "SPEAKING") <=>
              s \in {"TRANSCRIBING", "THINKING", "EXECUTING_TOOL"}
BY DEF CanMove, Allowed, Normal, States, Waiting, Follow, Replying

-----------------------------------------------------------------------------
(* Types.                                                                  *)

(* The records a turn or a conversation starts with are well-formed.       *)
LEMMA RecordTypes ==
  /\ Silent \in Conversation /\ Fresh \in Conversation
  /\ Begin("voice") \in Turn /\ Begin("text") \in Turn
BY RuntimeAssumption DEF Silent, Fresh, Conversation, Begin, Turn

(* Choosing what follows the reply changes nothing else of the turn.       *)
LEMMA GoalSet ==
  ASSUME NEW t \in Turn, NEW goal \in {"after", "mute", "end"}
  PROVE  LET u == [t EXCEPT !.goal = goal]
         IN  u \in Turn /\ u.src = t.src /\ u.open = t.open /\ u.goal = goal
BY DEF Turn

(* So does opening or cancelling its speech,                               *)
LEMMA SpeechOpened ==
  ASSUME NEW t \in Turn, NEW b \in BOOLEAN
  PROVE  LET u == [t EXCEPT !.open = b]
         IN  u \in Turn /\ u.src = t.src /\ u.open = b /\ u.goal = t.goal
BY DEF Turn

(* and counting a round of tools.                                          *)
LEMMA RoundCounted ==
  ASSUME NEW t \in Turn, t.rounds # MaxRounds
  PROVE  LET u == [t EXCEPT !.rounds = t.rounds + 1]
         IN  u \in Turn /\ u.src = t.src /\ u.open = t.open /\ u.goal = t.goal
BY RuntimeAssumption DEF Turn

(* Completing a turn leaves the conversation open and within its limit.    *)
LEMMA TurnCompleted ==
  ASSUME NEW c \in Conversation
  PROVE  LET d == [c EXCEPT !.turns = IF c.turns < MaxTurns THEN c.turns + 1
                                                            ELSE c.turns]
         IN  d \in Conversation /\ d.active = c.active
BY RuntimeAssumption DEF Conversation

(* The places and the states, by name.                                     *)
LEMMA Names ==
  /\ Busy \subseteq Place
  /\ {"transcribe", "stt", "route", "tool", "say", "speaking", "waiting",
      "stopping", "hushing", "ask", "pausing", "paused", "pause", "call",
      "agentTool", "settling", "settleStop", "after", "late", "close", "greet",
      "loop", "wake", "watch", "listen", "hearing", "text", "interrupted",
      "wrapup", "recover", "recovering", "exit", "crash"} \subseteq Place
  /\ {"SLEEPING", "AWAITING_SPEECH", "AWAITING_CONFIRMATION", "CAPTURING",
      "TEXT_INPUT", "TRANSCRIBING", "EXECUTING_TOOL", "THINKING", "SPEAKING",
      "STOPPED"} \subseteq States
BY DEF Place, Busy, MonitorWaits, States

(* What the thread of the monitor does by itself.                          *)
ThreadMoves ==
  \/ Trigger \/ CaptureEnds \/ ThreadLeaves \/ MonitorFails
  \/ /\ mon = "callback" /\ mon' = "acting"
     /\ UNCHANGED <<stopEv, trigEv, finEv, result, error>>
  \/ mon \in {"callback", "acting"} /\ (CallbackReturns \/ CallbackFails)

(* A step of the program starts the monitor, asks it to stop, is one of    *)
(* the monitor's own or leaves it alone.                                   *)
LEMMA MonitorMoves ==
  ASSUME Next
  PROVE  UNCHANGED monVars \/ StartMonitor \/ RequestStop \/ ThreadMoves
<1>0. UNCHANGED config
  BY DEF Next, MainStep, CallbackStep, ThreadStep, Environment
<1> USE <1>0 DEF SayNext, Leave, Outside, ThreadMoves, turnVars, heardVars, world,
   mainVars
<1>1. CASE Boot
  BY <1>1 DEF Boot
<1>2. CASE Deliver
  BY <1>2 DEF Deliver
<1>3. CASE Listening
  BY <1>3
     DEF Listening, WakeCycle, NoWake, WakeText, WakeWord, FollowupText,
        CaptureFollowup, ListenText, ListenTimeout, SpeechStart, Captured,
        MicrophoneFails
<1>4. CASE Routing
  BY <1>4
     DEF Routing, ReadText, Transcribe, Transcribed, LocalReply, TtsOn,
        TtsOff, EndSession, FastPath, AskAgent, FastDone, FastFails
<1>5. CASE Speaking
  BY <1>5
     DEF Speaking, SaySilently, Speak, SpeakReturns, SpeakFails, SpeakWaited,
        SpeakStopped, SpeakHushed
<1>6. CASE Agent
  BY <1>6
     DEF Agent, AgentFails, ToolRound, CancelStopped, CancelReadsState,
        CancelPauses, ToolStarted, ToolFinished, AgentReplies, StreamSpeaks,
        StreamEnds, StreamSettled, StreamStopped
<1>7. CASE Ending
  BY <1>7
     DEF Ending, AfterTurn, LateCapture, Interrupted, Wrapup, CloseSession,
        Recover, RecoveryFails, Recovered
<1>8. CASE MonitorStep
  BY <1>8 DEF MonitorStep
<1>9. CASE CallbackReads
  BY <1>9 DEF CallbackReads
<1>10. CASE CallbackActs
  BY <1>10 DEF CallbackActs
<1>11. CASE KeyboardInterrupt
  BY <1>11 DEF KeyboardInterrupt
<1>12. CASE SubmitText
  BY <1>12 DEF SubmitText
<1>13. CASE ClaimReminder
  BY <1>13 DEF ClaimReminder
<1>14. CASE ApprovalExpires
  BY <1>14 DEF ApprovalExpires
<1> QED
  BY <1>1, <1>2, <1>3, <1>4, <1>5, <1>6, <1>7, <1>8, <1>9, <1>10, <1>11,
     <1>12, <1>13, <1>14
     DEF Next, MainStep, CallbackStep, ThreadStep, Environment

(* So the variables of the monitor keep their types.                       *)
LEMMA MonitorTypes ==
  ASSUME MonTypeOK, Next
  PROVE  MonTypeOK'
<1> USE DEF MonTypeOK, monVars
<1>1. CASE UNCHANGED monVars
  BY <1>1
<1>2. CASE StartMonitor
  BY <1>2 DEF StartMonitor
<1>3. CASE RequestStop
  BY <1>3 DEF RequestStop
<1>4. CASE ThreadMoves
  BY <1>4 DEF ThreadMoves, Trigger, CaptureEnds, ThreadLeaves, StopSeen, Finish,
              ThreadEnds, MonitorFails, CallbackReturns, CallbackFails
<1> QED
  BY <1>1, <1>2, <1>3, <1>4, MonitorMoves

(* Every other variable keeps its type, and no text is taken from an empty *)
(* queue.                                                                  *)
LEMMA TypesStep ==
  ASSUME Types, MonTypeOK', Next
  PROVE  Types'
<1>0. UNCHANGED config
  BY DEF Next, MainStep, CallbackStep, ThreadStep, Environment
<1> USE <1>0 DEF Types, TypeOK, Move, Raise, Goto, Fails, ReturnToSleep, SayNext,
   Spoken, FinishTurn, Leave, mainVars, turnVars, heardVars, world, monVars,
   Outside
<1>1. CASE Boot
  BY <1>1, Names DEF Boot
<1>2. CASE Deliver
  BY <1>2, Names, RuntimeAssumption DEF Deliver
<1>3. CASE Listening
  <2>1. CASE WakeCycle
    BY <2>1, Names, RecordTypes DEF WakeCycle
  <2>2. CASE NoWake
    BY <2>2, Names DEF NoWake
  <2>3. CASE WakeText
    BY <2>3, Names DEF WakeText
  <2>4. CASE WakeWord
    BY <2>4, Names, RecordTypes DEF WakeWord
  <2>5. CASE FollowupText
    BY <2>5, Names DEF FollowupText
  <2>6. CASE CaptureFollowup
    BY <2>6, Names, RecordTypes DEF CaptureFollowup
  <2>7. CASE ListenText
    BY <2>7, Names DEF ListenText
  <2>8. CASE ListenTimeout
    BY <2>8, Names, RecordTypes DEF ListenTimeout
  <2>9. CASE SpeechStart
    BY <2>9, Names DEF SpeechStart
  <2>10. CASE Captured
    BY <2>10, Names DEF Captured
  <2>11. CASE MicrophoneFails
    BY <2>11, Names DEF MicrophoneFails
  <2> QED
    BY <1>3, <2>1, <2>2, <2>3, <2>4, <2>5, <2>6, <2>7, <2>8, <2>9, <2>10,
       <2>11
       DEF Listening
<1>4. CASE Routing
  <2>1. CASE ReadText
    BY <2>1, Names, RecordTypes, RuntimeAssumption DEF ReadText
  <2>2. CASE Transcribe
    BY <2>2, Names DEF Transcribe
  <2>3. CASE Transcribed
    BY <2>3, Names DEF Transcribed
  <2>4. CASE LocalReply
    BY <2>4, Names, GoalSet DEF LocalReply
  <2>5. CASE TtsOn
    BY <2>5, Names, GoalSet DEF TtsOn
  <2>6. CASE TtsOff
    BY <2>6, Names, GoalSet DEF TtsOff
  <2>7. CASE EndSession
    BY <2>7, Names, GoalSet DEF EndSession
  <2>8. CASE FastPath
    BY <2>8, Names DEF FastPath
  <2>9. CASE AskAgent
    BY <2>9, Names DEF AskAgent
  <2>10. CASE FastDone
    BY <2>10, Names, GoalSet DEF FastDone
  <2>11. CASE FastFails
    BY <2>11, Names DEF FastFails
  <2> QED
    BY <1>4, <2>1, <2>2, <2>3, <2>4, <2>5, <2>6, <2>7, <2>8, <2>9, <2>10,
       <2>11
       DEF Routing
<1>5. CASE Speaking
  <2>1. CASE SaySilently
    BY <2>1, Names DEF SaySilently
  <2>2. CASE Speak
    BY <2>2, Names DEF Speak
  <2>3. CASE SpeakReturns
    BY <2>3, Names DEF SpeakReturns
  <2>4. CASE SpeakFails
    BY <2>4, Names DEF SpeakFails
  <2>5. CASE SpeakWaited
    BY <2>5, Names DEF SpeakWaited
  <2>6. CASE SpeakStopped
    BY <2>6, Names DEF SpeakStopped
  <2>7. CASE SpeakHushed
    BY <2>7, Names DEF SpeakHushed
  <2> QED
    BY <1>5, <2>1, <2>2, <2>3, <2>4, <2>5, <2>6, <2>7 DEF Speaking
<1>6. CASE Agent
  <2>1. CASE AgentFails
    BY <2>1, Names DEF AgentFails
  <2>2. CASE ToolRound
    BY <2>2, Names, SpeechOpened DEF ToolRound
  <2>3. CASE CancelStopped
    BY <2>3, Names DEF CancelStopped
  <2>4. CASE CancelReadsState
    BY <2>4, Names DEF CancelReadsState
  <2>5. CASE CancelPauses
    BY <2>5, Names DEF CancelPauses
  <2>6. CASE ToolStarted
    BY <2>6, Names, RoundCounted DEF ToolStarted
  <2>7. CASE ToolFinished
    BY <2>7, Names DEF ToolFinished
  <2>8. CASE AgentReplies
    BY <2>8, Names, GoalSet DEF AgentReplies
  <2>9. CASE StreamSpeaks
    BY <2>9, Names, SpeechOpened DEF StreamSpeaks
  <2>10. CASE StreamEnds
    BY <2>10, Names DEF StreamEnds
  <2>11. CASE StreamSettled
    BY <2>11, Names DEF StreamSettled
  <2>12. CASE StreamStopped
    BY <2>12, Names DEF StreamStopped
  <2> QED
    BY <1>6, <2>1, <2>2, <2>3, <2>4, <2>5, <2>6, <2>7, <2>8, <2>9, <2>10,
       <2>11, <2>12
       DEF Agent
<1>7. CASE Ending
  <2>1. CASE AfterTurn
    BY <2>1, Names, TurnCompleted DEF AfterTurn
  <2>2. CASE LateCapture
    BY <2>2, Names, TurnCompleted DEF LateCapture
  <2>3. CASE Interrupted
    BY <2>3, Names, RecordTypes DEF Interrupted
  <2>4. CASE Wrapup
    BY <2>4, Names, RecordTypes DEF Wrapup
  <2>5. CASE CloseSession
    BY <2>5, Names, RecordTypes DEF CloseSession
  <2>6. CASE Recover
    BY <2>6, Names DEF Recover
  <2>7. CASE RecoveryFails
    BY <2>7, Names, RecordTypes DEF RecoveryFails
  <2>8. CASE Recovered
    BY <2>8, Names, RecordTypes DEF Recovered
  <2> QED
    BY <1>7, <2>1, <2>2, <2>3, <2>4, <2>5, <2>6, <2>7, <2>8 DEF Ending
<1>8. CASE MonitorStep
  BY <1>8, Names DEF MonitorStep
<1>9. CASE CallbackReads
  BY <1>9, Names DEF CallbackReads
<1>10. CASE CallbackActs
  BY <1>10, Names DEF CallbackActs
<1>11. CASE KeyboardInterrupt
  BY <1>11, Names, RecordTypes DEF KeyboardInterrupt
<1>12. CASE SubmitText
  BY <1>12, Names, RuntimeAssumption DEF SubmitText
<1>13. CASE ClaimReminder
  BY <1>13, Names, RuntimeAssumption DEF ClaimReminder
<1>14. CASE ApprovalExpires
  BY <1>14, Names DEF ApprovalExpires
<1> QED
  BY <1>1, <1>2, <1>3, <1>4, <1>5, <1>6, <1>7, <1>8, <1>9, <1>10, <1>11,
     <1>12, <1>13, <1>14
     DEF Next, MainStep, CallbackStep, ThreadStep, Environment

-----------------------------------------------------------------------------
(* The invariant, part after part.                                         *)

(* A command is only open inside a conversation.                           *)
LEMMA CommandStep ==
  ASSUME TypeOK, CommandInv, Next
  PROVE  CommandInv'
<1>0. UNCHANGED config
  BY DEF Next, MainStep, CallbackStep, ThreadStep, Environment
<1> USE <1>0 DEF TypeOK, CommandInv, Idle, Busy, MonitorWaits, CanAcceptFollowup,
   Begin, Silent, Fresh, Move, Raise, Goto, Fails, ReturnToSleep, SayNext,
   Spoken, FinishTurn, Leave, mainVars, turnVars, heardVars, world, monVars,
   Outside
<1>1. CASE Boot
  BY <1>1 DEF Boot
<1>2. CASE Deliver
  BY <1>2 DEF Deliver
<1>3. CASE Listening
  <2>1. CASE WakeCycle
    BY <2>1 DEF WakeCycle
  <2>2. CASE NoWake
    BY <2>2 DEF NoWake
  <2>3. CASE WakeText
    BY <2>3 DEF WakeText
  <2>4. CASE WakeWord
    BY <2>4 DEF WakeWord
  <2>5. CASE FollowupText
    BY <2>5 DEF FollowupText
  <2>6. CASE CaptureFollowup
    BY <2>6 DEF CaptureFollowup
  <2>7. CASE ListenText
    BY <2>7 DEF ListenText
  <2>8. CASE ListenTimeout
    BY <2>8 DEF ListenTimeout
  <2>9. CASE SpeechStart
    BY <2>9 DEF SpeechStart
  <2>10. CASE Captured
    BY <2>10 DEF Captured
  <2>11. CASE MicrophoneFails
    BY <2>11 DEF MicrophoneFails
  <2> QED
    BY <1>3, <2>1, <2>2, <2>3, <2>4, <2>5, <2>6, <2>7, <2>8, <2>9, <2>10,
       <2>11
       DEF Listening
<1>4. CASE Routing
  <2>1. CASE ReadText
    BY <2>1 DEF ReadText
  <2>2. CASE Transcribe
    BY <2>2 DEF Transcribe
  <2>3. CASE Transcribed
    BY <2>3 DEF Transcribed
  <2>4. CASE LocalReply
    BY <2>4 DEF LocalReply
  <2>5. CASE TtsOn
    BY <2>5 DEF TtsOn
  <2>6. CASE TtsOff
    BY <2>6 DEF TtsOff
  <2>7. CASE EndSession
    BY <2>7 DEF EndSession
  <2>8. CASE FastPath
    BY <2>8 DEF FastPath
  <2>9. CASE AskAgent
    BY <2>9 DEF AskAgent
  <2>10. CASE FastDone
    BY <2>10 DEF FastDone
  <2>11. CASE FastFails
    BY <2>11 DEF FastFails
  <2> QED
    BY <1>4, <2>1, <2>2, <2>3, <2>4, <2>5, <2>6, <2>7, <2>8, <2>9, <2>10,
       <2>11
       DEF Routing
<1>5. CASE Speaking
  <2>1. CASE SaySilently
    BY <2>1 DEF SaySilently
  <2>2. CASE Speak
    BY <2>2 DEF Speak
  <2>3. CASE SpeakReturns
    BY <2>3 DEF SpeakReturns
  <2>4. CASE SpeakFails
    BY <2>4 DEF SpeakFails
  <2>5. CASE SpeakWaited
    BY <2>5 DEF SpeakWaited
  <2>6. CASE SpeakStopped
    BY <2>6 DEF SpeakStopped
  <2>7. CASE SpeakHushed
    BY <2>7 DEF SpeakHushed
  <2> QED
    BY <1>5, <2>1, <2>2, <2>3, <2>4, <2>5, <2>6, <2>7 DEF Speaking
<1>6. CASE Agent
  <2>1. CASE AgentFails
    BY <2>1 DEF AgentFails
  <2>2. CASE ToolRound
    BY <2>2 DEF ToolRound
  <2>3. CASE CancelStopped
    BY <2>3 DEF CancelStopped
  <2>4. CASE CancelReadsState
    BY <2>4 DEF CancelReadsState
  <2>5. CASE CancelPauses
    BY <2>5 DEF CancelPauses
  <2>6. CASE ToolStarted
    BY <2>6 DEF ToolStarted
  <2>7. CASE ToolFinished
    BY <2>7 DEF ToolFinished
  <2>8. CASE AgentReplies
    BY <2>8 DEF AgentReplies
  <2>9. CASE StreamSpeaks
    BY <2>9 DEF StreamSpeaks
  <2>10. CASE StreamEnds
    BY <2>10 DEF StreamEnds
  <2>11. CASE StreamSettled
    BY <2>11 DEF StreamSettled
  <2>12. CASE StreamStopped
    BY <2>12 DEF StreamStopped
  <2> QED
    BY <1>6, <2>1, <2>2, <2>3, <2>4, <2>5, <2>6, <2>7, <2>8, <2>9, <2>10,
       <2>11, <2>12
       DEF Agent
<1>7. CASE Ending
  <2>1. CASE AfterTurn
    BY <2>1, TurnCompleted DEF AfterTurn
  <2>2. CASE LateCapture
    BY <2>2, TurnCompleted DEF LateCapture
  <2>3. CASE Interrupted
    BY <2>3 DEF Interrupted
  <2>4. CASE Wrapup
    BY <2>4 DEF Wrapup
  <2>5. CASE CloseSession
    BY <2>5 DEF CloseSession
  <2>6. CASE Recover
    BY <2>6 DEF Recover
  <2>7. CASE RecoveryFails
    BY <2>7 DEF RecoveryFails
  <2>8. CASE Recovered
    BY <2>8 DEF Recovered
  <2> QED
    BY <1>7, <2>1, <2>2, <2>3, <2>4, <2>5, <2>6, <2>7, <2>8 DEF Ending
<1>8. CASE MonitorStep
  BY <1>8 DEF MonitorStep
<1>9. CASE CallbackReads
  BY <1>9 DEF CallbackReads
<1>10. CASE CallbackActs
  BY <1>10 DEF CallbackActs
<1>11. CASE KeyboardInterrupt
  BY <1>11 DEF KeyboardInterrupt
<1>12. CASE SubmitText
  BY <1>12 DEF SubmitText
<1>13. CASE ClaimReminder
  BY <1>13 DEF ClaimReminder
<1>14. CASE ApprovalExpires
  BY <1>14 DEF ApprovalExpires
<1> QED
  BY <1>1, <1>2, <1>3, <1>4, <1>5, <1>6, <1>7, <1>8, <1>9, <1>10, <1>11,
     <1>12, <1>13, <1>14
     DEF Next, MainStep, CallbackStep, ThreadStep, Environment

(* A monitor is only alive where somebody waits for it or stops it.        *)
LEMMA MonitorPlaces ==
  ASSUME TypeOK, MonitorInv, Next
  PROVE  MonitorInv'
<1>0. UNCHANGED config
  BY DEF Next, MainStep, CallbackStep, ThreadStep, Environment
<1> USE <1>0 DEF TypeOK, MonitorInv, SpeechPlaces, AgentPlaces, RecoveryPlaces,
   Streams, Alive, Answer, JoinReturns, WaitReturns, Move, Raise, Goto, Fails,
   ReturnToSleep, SayNext, Spoken, FinishTurn, Leave, mainVars, turnVars,
   heardVars, world, monVars, Outside, RequestStop, StartMonitor,
   CallbackReturns, CallbackFails, Trigger, CaptureEnds, ThreadLeaves,
   StopSeen, Finish, ThreadEnds, MonitorFails
<1>1. CASE Boot
  BY <1>1 DEF Boot
<1>2. CASE Deliver
  BY <1>2 DEF Deliver
<1>3. CASE Listening
  <2>1. CASE WakeCycle
    BY <2>1 DEF WakeCycle
  <2>2. CASE NoWake
    BY <2>2 DEF NoWake
  <2>3. CASE WakeText
    BY <2>3 DEF WakeText
  <2>4. CASE WakeWord
    BY <2>4 DEF WakeWord
  <2>5. CASE FollowupText
    BY <2>5 DEF FollowupText
  <2>6. CASE CaptureFollowup
    BY <2>6 DEF CaptureFollowup
  <2>7. CASE ListenText
    BY <2>7 DEF ListenText
  <2>8. CASE ListenTimeout
    BY <2>8 DEF ListenTimeout
  <2>9. CASE SpeechStart
    BY <2>9 DEF SpeechStart
  <2>10. CASE Captured
    BY <2>10 DEF Captured
  <2>11. CASE MicrophoneFails
    BY <2>11 DEF MicrophoneFails
  <2> QED
    BY <1>3, <2>1, <2>2, <2>3, <2>4, <2>5, <2>6, <2>7, <2>8, <2>9, <2>10,
       <2>11
       DEF Listening
<1>4. CASE Routing
  <2>1. CASE ReadText
    BY <2>1 DEF ReadText
  <2>2. CASE Transcribe
    BY <2>2 DEF Transcribe
  <2>3. CASE Transcribed
    BY <2>3 DEF Transcribed
  <2>4. CASE LocalReply
    BY <2>4 DEF LocalReply
  <2>5. CASE TtsOn
    BY <2>5 DEF TtsOn
  <2>6. CASE TtsOff
    BY <2>6 DEF TtsOff
  <2>7. CASE EndSession
    BY <2>7 DEF EndSession
  <2>8. CASE FastPath
    BY <2>8 DEF FastPath
  <2>9. CASE AskAgent
    BY <2>9 DEF AskAgent
  <2>10. CASE FastDone
    BY <2>10 DEF FastDone
  <2>11. CASE FastFails
    BY <2>11 DEF FastFails
  <2> QED
    BY <1>4, <2>1, <2>2, <2>3, <2>4, <2>5, <2>6, <2>7, <2>8, <2>9, <2>10,
       <2>11
       DEF Routing
<1>5. CASE Speaking
  <2>1. CASE SaySilently
    BY <2>1 DEF SaySilently
  <2>2. CASE Speak
    BY <2>2 DEF Speak
  <2>3. CASE SpeakReturns
    BY <2>3 DEF SpeakReturns
  <2>4. CASE SpeakFails
    BY <2>4 DEF SpeakFails
  <2>5. CASE SpeakWaited
    BY <2>5 DEF SpeakWaited
  <2>6. CASE SpeakStopped
    BY <2>6 DEF SpeakStopped
  <2>7. CASE SpeakHushed
    BY <2>7 DEF SpeakHushed
  <2> QED
    BY <1>5, <2>1, <2>2, <2>3, <2>4, <2>5, <2>6, <2>7 DEF Speaking
<1>6. CASE Agent
  <2>1. CASE AgentFails
    BY <2>1 DEF AgentFails
  <2>2. CASE ToolRound
    BY <2>2, SpeechOpened DEF ToolRound
  <2>3. CASE CancelStopped
    BY <2>3 DEF CancelStopped
  <2>4. CASE CancelReadsState
    BY <2>4 DEF CancelReadsState
  <2>5. CASE CancelPauses
    BY <2>5 DEF CancelPauses
  <2>6. CASE ToolStarted
    BY <2>6, RoundCounted DEF ToolStarted
  <2>7. CASE ToolFinished
    BY <2>7 DEF ToolFinished
  <2>8. CASE AgentReplies
    BY <2>8 DEF AgentReplies
  <2>9. CASE StreamSpeaks
    BY <2>9, SpeechOpened DEF StreamSpeaks
  <2>10. CASE StreamEnds
    BY <2>10 DEF StreamEnds
  <2>11. CASE StreamSettled
    BY <2>11 DEF StreamSettled
  <2>12. CASE StreamStopped
    BY <2>12 DEF StreamStopped
  <2> QED
    BY <1>6, <2>1, <2>2, <2>3, <2>4, <2>5, <2>6, <2>7, <2>8, <2>9, <2>10,
       <2>11, <2>12
       DEF Agent
<1>7. CASE Ending
  <2>1. CASE AfterTurn
    BY <2>1 DEF AfterTurn
  <2>2. CASE LateCapture
    BY <2>2 DEF LateCapture
  <2>3. CASE Interrupted
    BY <2>3 DEF Interrupted
  <2>4. CASE Wrapup
    BY <2>4 DEF Wrapup
  <2>5. CASE CloseSession
    BY <2>5 DEF CloseSession
  <2>6. CASE Recover
    BY <2>6 DEF Recover
  <2>7. CASE RecoveryFails
    BY <2>7 DEF RecoveryFails
  <2>8. CASE Recovered
    BY <2>8 DEF Recovered
  <2> QED
    BY <1>7, <2>1, <2>2, <2>3, <2>4, <2>5, <2>6, <2>7, <2>8 DEF Ending
<1>8. CASE MonitorStep
  BY <1>8 DEF MonitorStep
<1>9. CASE CallbackReads
  BY <1>9 DEF CallbackReads
<1>10. CASE CallbackActs
  BY <1>10 DEF CallbackActs
<1>11. CASE KeyboardInterrupt
  BY <1>11 DEF KeyboardInterrupt
<1>12. CASE SubmitText
  BY <1>12 DEF SubmitText
<1>13. CASE ClaimReminder
  BY <1>13 DEF ClaimReminder
<1>14. CASE ApprovalExpires
  BY <1>14 DEF ApprovalExpires
<1> QED
  BY <1>1, <1>2, <1>3, <1>4, <1>5, <1>6, <1>7, <1>8, <1>9, <1>10, <1>11,
     <1>12, <1>13, <1>14
     DEF Next, MainStep, CallbackStep, ThreadStep, Environment

(* The cycle starts in the state its kind of cycle needs: no callback can  *)
(* change it there, for no monitor is alive.                               *)
LEMMA LoopStep ==
  ASSUME TypeOK, CommandInv, MonitorInv, LoopInv, Next
  PROVE  LoopInv'
<1>0. UNCHANGED config
  BY DEF Next, MainStep, CallbackStep, ThreadStep, Environment
<1> USE <1>0 DEF TypeOK, LoopInv, Idle, Follow, Replying, Silent,
   CanAcceptFollowup, Move, Raise, Goto, Fails, ReturnToSleep, SayNext,
   Spoken, FinishTurn, Leave, mainVars, turnVars, heardVars, world, monVars,
   Outside
<1>1. CASE Boot
  BY <1>1, Moves DEF Boot
<1>2. CASE Deliver
  <2>1. state' = "SLEEPING" \/ at' = "crash"
    BY <1>2 DEF Deliver
  <2>2. at' \in {"watch", "loop", "recover", "crash"} /\ conv' = conv
    BY <1>2 DEF Deliver
  <2>3. ~conv.active
    BY <1>2 DEF Deliver, CommandInv
  <2> QED
    BY <2>1, <2>2, <2>3
<1>3. CASE Listening
  <2>1. CASE WakeCycle
    BY <2>1, Moves DEF WakeCycle
  <2>2. CASE NoWake
    BY <2>2, Moves DEF NoWake
  <2>3. CASE WakeText
    BY <2>3, Moves DEF WakeText
  <2>4. CASE WakeWord
    BY <2>4, Moves DEF WakeWord
  <2>5. CASE FollowupText
    BY <2>5, Moves DEF FollowupText
  <2>6. CASE CaptureFollowup
    BY <2>6, Moves DEF CaptureFollowup
  <2>7. CASE ListenText
    BY <2>7, Moves DEF ListenText
  <2>8. CASE ListenTimeout
    BY <2>8, Moves DEF ListenTimeout
  <2>9. CASE SpeechStart
    BY <2>9, Moves DEF SpeechStart
  <2>10. CASE Captured
    BY <2>10, Moves DEF Captured
  <2>11. CASE MicrophoneFails
    BY <2>11, Moves DEF MicrophoneFails
  <2> QED
    BY <1>3, <2>1, <2>2, <2>3, <2>4, <2>5, <2>6, <2>7, <2>8, <2>9, <2>10,
       <2>11
       DEF Listening
<1>4. CASE Routing
  <2>1. CASE ReadText
    BY <2>1, Moves DEF ReadText
  <2>2. CASE Transcribe
    BY <2>2, Moves DEF Transcribe
  <2>3. CASE Transcribed
    BY <2>3, Moves DEF Transcribed
  <2>4. CASE LocalReply
    BY <2>4, Moves DEF LocalReply
  <2>5. CASE TtsOn
    BY <2>5, Moves DEF TtsOn
  <2>6. CASE TtsOff
    BY <2>6, Moves DEF TtsOff
  <2>7. CASE EndSession
    BY <2>7, Moves DEF EndSession
  <2>8. CASE FastPath
    BY <2>8, Moves DEF FastPath
  <2>9. CASE AskAgent
    BY <2>9, Moves DEF AskAgent
  <2>10. CASE FastDone
    BY <2>10, Moves DEF FastDone
  <2>11. CASE FastFails
    BY <2>11, Moves DEF FastFails
  <2> QED
    BY <1>4, <2>1, <2>2, <2>3, <2>4, <2>5, <2>6, <2>7, <2>8, <2>9, <2>10,
       <2>11
       DEF Routing
<1>5. CASE Speaking
  <2>1. CASE SaySilently
    BY <2>1, Moves DEF SaySilently
  <2>2. CASE Speak
    BY <2>2, Moves DEF Speak
  <2>3. CASE SpeakReturns
    BY <2>3, Moves DEF SpeakReturns
  <2>4. CASE SpeakFails
    BY <2>4, Moves DEF SpeakFails
  <2>5. CASE SpeakWaited
    BY <2>5, Moves DEF SpeakWaited
  <2>6. CASE SpeakStopped
    BY <2>6, Moves DEF SpeakStopped
  <2>7. CASE SpeakHushed
    BY <2>7, Moves DEF SpeakHushed
  <2> QED
    BY <1>5, <2>1, <2>2, <2>3, <2>4, <2>5, <2>6, <2>7 DEF Speaking
<1>6. CASE Agent
  <2>1. CASE AgentFails
    BY <2>1, Moves DEF AgentFails
  <2>2. CASE ToolRound
    BY <2>2, Moves DEF ToolRound
  <2>3. CASE CancelStopped
    BY <2>3, Moves DEF CancelStopped
  <2>4. CASE CancelReadsState
    BY <2>4, Moves DEF CancelReadsState
  <2>5. CASE CancelPauses
    BY <2>5, Moves DEF CancelPauses
  <2>6. CASE ToolStarted
    BY <2>6, Moves DEF ToolStarted
  <2>7. CASE ToolFinished
    BY <2>7, Moves DEF ToolFinished
  <2>8. CASE AgentReplies
    BY <2>8, Moves DEF AgentReplies
  <2>9. CASE StreamSpeaks
    BY <2>9, Moves DEF StreamSpeaks
  <2>10. CASE StreamEnds
    BY <2>10, Moves DEF StreamEnds
  <2>11. CASE StreamSettled
    BY <2>11, Moves DEF StreamSettled
  <2>12. CASE StreamStopped
    BY <2>12, Moves DEF StreamStopped
  <2> QED
    BY <1>6, <2>1, <2>2, <2>3, <2>4, <2>5, <2>6, <2>7, <2>8, <2>9, <2>10,
       <2>11, <2>12
       DEF Agent
<1>7. CASE Ending
  <2>1. CASE AfterTurn
    BY <2>1, Moves DEF AfterTurn
  <2>2. CASE LateCapture
    BY <2>2, Moves DEF LateCapture
  <2>3. CASE Interrupted
    BY <2>3, Moves DEF Interrupted
  <2>4. CASE Wrapup
    BY <2>4, Moves DEF Wrapup, CommandInv
  <2>5. CASE CloseSession
    BY <2>5, Moves DEF CloseSession
  <2>6. CASE Recover
    BY <2>6, Moves DEF Recover
  <2>7. CASE RecoveryFails
    BY <2>7, Moves DEF RecoveryFails
  <2>8. CASE Recovered
    BY <2>8, Moves DEF Recovered
  <2> QED
    BY <1>7, <2>1, <2>2, <2>3, <2>4, <2>5, <2>6, <2>7, <2>8 DEF Ending
<1>8. CASE MonitorStep
  BY <1>8, Moves DEF MonitorStep
<1>9. CASE CallbackReads
  BY <1>9, Moves DEF CallbackReads
<1>10. CASE CallbackActs
  BY <1>10, Moves
     DEF CallbackActs, MonitorInv, SpeechPlaces, AgentPlaces, RecoveryPlaces,
        Alive
<1>11. CASE KeyboardInterrupt
  BY <1>11, Moves DEF KeyboardInterrupt
<1>12. CASE SubmitText
  BY <1>12, Moves DEF SubmitText
<1>13. CASE ClaimReminder
  BY <1>13, Moves DEF ClaimReminder
<1>14. CASE ApprovalExpires
  BY <1>14, Moves DEF ApprovalExpires
<1> QED
  BY <1>1, <1>2, <1>3, <1>4, <1>5, <1>6, <1>7, <1>8, <1>9, <1>10, <1>11,
     <1>12, <1>13, <1>14
     DEF Next, MainStep, CallbackStep, ThreadStep, Environment

(* When replies are spoken at once every place of a turn has its states,   *)
(* so no transition but that of an ending conversation is refused.         *)
LEMMA StateFitsStep ==
  ASSUME TypeOK, CommandInv, MonitorInv, LoopInv, Buffered, BufferedInv,
         Next
  PROVE  StateFits'
<1>0. UNCHANGED config
  BY DEF Next, MainStep, CallbackStep, ThreadStep, Environment
<1> USE <1>0 DEF TypeOK, LoopInv, Idle, Buffered, BufferedInv, StateFits,
   SpeechPlaces, Follow, Replying, Streams, Begin, Move, Raise, Goto, Fails,
   ReturnToSleep, SayNext, Spoken, FinishTurn, Leave, mainVars, turnVars,
   heardVars, world, monVars, Outside
<1>1. CASE Boot
  BY <1>1, Moves DEF Boot
<1>2. CASE Deliver
  BY <1>2, Moves DEF Deliver
<1>3. CASE Listening
  <2>1. CASE WakeCycle
    BY <2>1, Moves DEF WakeCycle
  <2>2. CASE NoWake
    BY <2>2, Moves DEF NoWake
  <2>3. CASE WakeText
    BY <2>3, Moves DEF WakeText
  <2>4. CASE WakeWord
    BY <2>4, Moves DEF WakeWord
  <2>5. CASE FollowupText
    BY <2>5, Moves DEF FollowupText
  <2>6. CASE CaptureFollowup
    BY <2>6, Moves DEF CaptureFollowup
  <2>7. CASE ListenText
    BY <2>7, Moves DEF ListenText
  <2>8. CASE ListenTimeout
    BY <2>8, Moves DEF ListenTimeout
  <2>9. CASE SpeechStart
    BY <2>9, Moves DEF SpeechStart
  <2>10. CASE Captured
    BY <2>10, Moves DEF Captured
  <2>11. CASE MicrophoneFails
    BY <2>11, Moves DEF MicrophoneFails
  <2> QED
    BY <1>3, <2>1, <2>2, <2>3, <2>4, <2>5, <2>6, <2>7, <2>8, <2>9, <2>10,
       <2>11
       DEF Listening
<1>4. CASE Routing
  <2>1. CASE ReadText
    BY <2>1, Moves DEF ReadText
  <2>2. CASE Transcribe
    BY <2>2, Moves DEF Transcribe
  <2>3. CASE Transcribed
    BY <2>3, Moves DEF Transcribed
  <2>4. CASE LocalReply
    BY <2>4, Moves, GoalSet DEF LocalReply
  <2>5. CASE TtsOn
    BY <2>5, Moves, GoalSet DEF TtsOn
  <2>6. CASE TtsOff
    BY <2>6, Moves, GoalSet DEF TtsOff
  <2>7. CASE EndSession
    BY <2>7, Moves, GoalSet DEF EndSession
  <2>8. CASE FastPath
    BY <2>8, Moves DEF FastPath
  <2>9. CASE AskAgent
    BY <2>9, Moves DEF AskAgent
  <2>10. CASE FastDone
    BY <2>10, Moves, GoalSet DEF FastDone
  <2>11. CASE FastFails
    BY <2>11, Moves DEF FastFails
  <2> QED
    BY <1>4, <2>1, <2>2, <2>3, <2>4, <2>5, <2>6, <2>7, <2>8, <2>9, <2>10,
       <2>11
       DEF Routing
<1>5. CASE Speaking
  <2>1. CASE SaySilently
    BY <2>1, Moves DEF SaySilently
  <2>2. CASE Speak
    BY <2>2, Moves DEF Speak
  <2>3. CASE SpeakReturns
    BY <2>3, Moves DEF SpeakReturns
  <2>4. CASE SpeakFails
    BY <2>4, Moves DEF SpeakFails
  <2>5. CASE SpeakWaited
    BY <2>5, Moves DEF SpeakWaited
  <2>6. CASE SpeakStopped
    BY <2>6, Moves DEF SpeakStopped
  <2>7. CASE SpeakHushed
    BY <2>7, Moves DEF SpeakHushed
  <2> QED
    BY <1>5, <2>1, <2>2, <2>3, <2>4, <2>5, <2>6, <2>7 DEF Speaking
<1>6. CASE Agent
  <2>1. CASE AgentFails
    BY <2>1, Moves DEF AgentFails
  <2>2. CASE ToolRound
    BY <2>2, Moves, SpeechOpened DEF ToolRound
  <2>3. CASE CancelStopped
    BY <2>3, Moves DEF CancelStopped
  <2>4. CASE CancelReadsState
    BY <2>4, Moves DEF CancelReadsState
  <2>5. CASE CancelPauses
    BY <2>5, Moves DEF CancelPauses
  <2>6. CASE ToolStarted
    BY <2>6, Moves, RoundCounted DEF ToolStarted
  <2>7. CASE ToolFinished
    BY <2>7, Moves DEF ToolFinished
  <2>8. CASE AgentReplies
    BY <2>8, Moves, GoalSet DEF AgentReplies
  <2>9. CASE StreamSpeaks
    BY <2>9, Moves, SpeechOpened DEF StreamSpeaks
  <2>10. CASE StreamEnds
    BY <2>10, Moves DEF StreamEnds
  <2>11. CASE StreamSettled
    BY <2>11, Moves DEF StreamSettled
  <2>12. CASE StreamStopped
    BY <2>12, Moves DEF StreamStopped
  <2> QED
    BY <1>6, <2>1, <2>2, <2>3, <2>4, <2>5, <2>6, <2>7, <2>8, <2>9, <2>10,
       <2>11, <2>12
       DEF Agent
<1>7. CASE Ending
  <2>1. CASE AfterTurn
    BY <2>1, Moves DEF AfterTurn, HeardFits, MonitorFits
  <2>2. CASE LateCapture
    BY <2>2, Moves DEF LateCapture
  <2>3. CASE Interrupted
    BY <2>3, Moves DEF Interrupted
  <2>4. CASE Wrapup
    BY <2>4, Moves DEF Wrapup
  <2>5. CASE CloseSession
    BY <2>5, Moves DEF CloseSession
  <2>6. CASE Recover
    BY <2>6, Moves DEF Recover
  <2>7. CASE RecoveryFails
    BY <2>7, Moves DEF RecoveryFails
  <2>8. CASE Recovered
    BY <2>8, Moves DEF Recovered
  <2> QED
    BY <1>7, <2>1, <2>2, <2>3, <2>4, <2>5, <2>6, <2>7, <2>8 DEF Ending
<1>8. CASE MonitorStep
  BY <1>8, Moves DEF MonitorStep
<1>9. CASE CallbackReads
  BY <1>9, Moves DEF CallbackReads
<1>10. CASE CallbackActs
  BY <1>10, Moves DEF CallbackActs, MonitorFits, Alive
<1>11. CASE KeyboardInterrupt
  BY <1>11, Moves DEF KeyboardInterrupt
<1>12. CASE SubmitText
  BY <1>12, Moves DEF SubmitText
<1>13. CASE ClaimReminder
  BY <1>13, Moves DEF ClaimReminder
<1>14. CASE ApprovalExpires
  BY <1>14, Moves DEF ApprovalExpires
<1> QED
  BY <1>1, <1>2, <1>3, <1>4, <1>5, <1>6, <1>7, <1>8, <1>9, <1>10, <1>11,
     <1>12, <1>13, <1>14
     DEF Next, MainStep, CallbackStep, ThreadStep, Environment

(* The monitor's callback finds the assistant speaking, and its capture    *)
(* leaves the state at CAPTURING.                                          *)
LEMMA MonitorFitsStep ==
  ASSUME TypeOK, CommandInv, MonitorInv, LoopInv, Buffered, BufferedInv,
         Next
  PROVE  MonitorFits'
<1>0. UNCHANGED config
  BY DEF Next, MainStep, CallbackStep, ThreadStep, Environment
<1> USE <1>0 DEF TypeOK, MonTypeOK, Buffered, BufferedInv, StateFits, MonitorFits,
   SpeechPlaces, Follow, Replying, Streams, Over, Alive, Answer, JoinReturns,
   WaitReturns, Move, Raise, Goto, Fails, ReturnToSleep, SayNext, Spoken,
   FinishTurn, Leave, mainVars, turnVars, heardVars, world, monVars, Outside,
   RequestStop, StartMonitor, CallbackReturns, CallbackFails, Trigger,
   CaptureEnds, ThreadLeaves, StopSeen, Finish, ThreadEnds, MonitorFails
<1>1. CASE Boot
  BY <1>1, Moves DEF Boot
<1>2. CASE Deliver
  BY <1>2, Moves DEF Deliver
<1>3. CASE Listening
  <2>1. CASE WakeCycle
    BY <2>1, Moves DEF WakeCycle
  <2>2. CASE NoWake
    BY <2>2, Moves DEF NoWake
  <2>3. CASE WakeText
    BY <2>3, Moves DEF WakeText
  <2>4. CASE WakeWord
    BY <2>4, Moves DEF WakeWord
  <2>5. CASE FollowupText
    BY <2>5, Moves DEF FollowupText
  <2>6. CASE CaptureFollowup
    BY <2>6, Moves DEF CaptureFollowup
  <2>7. CASE ListenText
    BY <2>7, Moves DEF ListenText
  <2>8. CASE ListenTimeout
    BY <2>8, Moves DEF ListenTimeout
  <2>9. CASE SpeechStart
    BY <2>9, Moves DEF SpeechStart
  <2>10. CASE Captured
    BY <2>10, Moves DEF Captured
  <2>11. CASE MicrophoneFails
    BY <2>11, Moves DEF MicrophoneFails
  <2> QED
    BY <1>3, <2>1, <2>2, <2>3, <2>4, <2>5, <2>6, <2>7, <2>8, <2>9, <2>10,
       <2>11
       DEF Listening
<1>4. CASE Routing
  <2>1. CASE ReadText
    BY <2>1, Moves DEF ReadText
  <2>2. CASE Transcribe
    BY <2>2, Moves DEF Transcribe
  <2>3. CASE Transcribed
    BY <2>3, Moves DEF Transcribed
  <2>4. CASE LocalReply
    BY <2>4, Moves DEF LocalReply
  <2>5. CASE TtsOn
    BY <2>5, Moves DEF TtsOn
  <2>6. CASE TtsOff
    BY <2>6, Moves DEF TtsOff
  <2>7. CASE EndSession
    BY <2>7, Moves DEF EndSession
  <2>8. CASE FastPath
    BY <2>8, Moves DEF FastPath
  <2>9. CASE AskAgent
    BY <2>9, Moves DEF AskAgent
  <2>10. CASE FastDone
    BY <2>10, Moves DEF FastDone
  <2>11. CASE FastFails
    BY <2>11, Moves DEF FastFails
  <2> QED
    BY <1>4, <2>1, <2>2, <2>3, <2>4, <2>5, <2>6, <2>7, <2>8, <2>9, <2>10,
       <2>11
       DEF Routing
<1>5. CASE Speaking
  <2>1. CASE SaySilently
    BY <2>1, Moves DEF SaySilently
  <2>2. CASE Speak
    BY <2>2, Moves DEF Speak
  <2>3. CASE SpeakReturns
    BY <2>3, Moves DEF SpeakReturns
  <2>4. CASE SpeakFails
    BY <2>4, Moves DEF SpeakFails
  <2>5. CASE SpeakWaited
    BY <2>5, Moves DEF SpeakWaited
  <2>6. CASE SpeakStopped
    BY <2>6, Moves DEF SpeakStopped
  <2>7. CASE SpeakHushed
    BY <2>7, Moves DEF SpeakHushed
  <2> QED
    BY <1>5, <2>1, <2>2, <2>3, <2>4, <2>5, <2>6, <2>7 DEF Speaking
<1>6. CASE Agent
  <2>1. CASE AgentFails
    BY <2>1, Moves DEF AgentFails
  <2>2. CASE ToolRound
    BY <2>2, Moves DEF ToolRound
  <2>3. CASE CancelStopped
    BY <2>3, Moves DEF CancelStopped
  <2>4. CASE CancelReadsState
    BY <2>4, Moves DEF CancelReadsState
  <2>5. CASE CancelPauses
    BY <2>5, Moves DEF CancelPauses
  <2>6. CASE ToolStarted
    BY <2>6, Moves DEF ToolStarted
  <2>7. CASE ToolFinished
    BY <2>7, Moves DEF ToolFinished
  <2>8. CASE AgentReplies
    BY <2>8, Moves DEF AgentReplies
  <2>9. CASE StreamSpeaks
    BY <2>9, Moves DEF StreamSpeaks
  <2>10. CASE StreamEnds
    BY <2>10, Moves DEF StreamEnds
  <2>11. CASE StreamSettled
    BY <2>11, Moves DEF StreamSettled
  <2>12. CASE StreamStopped
    BY <2>12, Moves DEF StreamStopped
  <2> QED
    BY <1>6, <2>1, <2>2, <2>3, <2>4, <2>5, <2>6, <2>7, <2>8, <2>9, <2>10,
       <2>11, <2>12
       DEF Agent
<1>7. CASE Ending
  <2>1. CASE AfterTurn
    BY <2>1, Moves DEF AfterTurn
  <2>2. CASE LateCapture
    BY <2>2, Moves DEF LateCapture
  <2>3. CASE Interrupted
    BY <2>3, Moves DEF Interrupted
  <2>4. CASE Wrapup
    BY <2>4, Moves DEF Wrapup
  <2>5. CASE CloseSession
    BY <2>5, Moves DEF CloseSession
  <2>6. CASE Recover
    BY <2>6, Moves DEF Recover
  <2>7. CASE RecoveryFails
    BY <2>7, Moves DEF RecoveryFails
  <2>8. CASE Recovered
    BY <2>8, Moves DEF Recovered
  <2> QED
    BY <1>7, <2>1, <2>2, <2>3, <2>4, <2>5, <2>6, <2>7, <2>8 DEF Ending
<1>8. CASE MonitorStep
  BY <1>8, Moves DEF MonitorStep
<1>9. CASE CallbackReads
  BY <1>9, Moves DEF CallbackReads
<1>10. CASE CallbackActs
  <2>1. at \in SpeechPlaces /\ at' = at
    BY <1>10 DEF CallbackActs
  <2>2. state = "SPEAKING" /\ CanMove(state, "CAPTURING")
    BY <1>10, <2>1, Moves DEF CallbackActs
  <2>3. state' = "CAPTURING" /\ CallbackReturns
    BY <1>10, <2>2 DEF CallbackActs
  <2>4. trigEv
    BY <1>10 DEF CallbackActs
  <2> QED
    BY <1>10, <2>1, <2>3, <2>4 DEF CallbackActs
<1>11. CASE KeyboardInterrupt
  BY <1>11, Moves DEF KeyboardInterrupt
<1>12. CASE SubmitText
  BY <1>12, Moves DEF SubmitText
<1>13. CASE ClaimReminder
  BY <1>13, Moves DEF ClaimReminder
<1>14. CASE ApprovalExpires
  BY <1>14, Moves DEF ApprovalExpires
<1> QED
  BY <1>1, <1>2, <1>3, <1>4, <1>5, <1>6, <1>7, <1>8, <1>9, <1>10, <1>11,
     <1>12, <1>13, <1>14
     DEF Next, MainStep, CallbackStep, ThreadStep, Environment

(* A captured interruption stays where a step of the turn will take it.    *)
LEMMA HeardFitsStep ==
  ASSUME TypeOK, CommandInv, MonitorInv, LoopInv, Buffered, BufferedInv,
         StateFits', MonitorFits', Next
  PROVE  HeardFits'
<1>0. UNCHANGED config
  BY DEF Next, MainStep, CallbackStep, ThreadStep, Environment
<1> USE <1>0 DEF TypeOK, MonTypeOK, LoopInv, Idle, Buffered, BufferedInv,
   StateFits, MonitorFits, HeardFits, Over, SpeechPlaces, RecoveryPlaces,
   Follow, Replying, Silent, Begin, Alive, Answer, JoinReturns, WaitReturns,
   Move, Raise, Goto, Fails, ReturnToSleep, SayNext, Spoken, FinishTurn,
   Leave, mainVars, turnVars, heardVars, world, monVars, Outside, RequestStop,
   StartMonitor, CallbackReturns, CallbackFails, Trigger, CaptureEnds,
   ThreadLeaves, StopSeen, Finish, ThreadEnds, MonitorFails
<1>1. CASE Boot
  BY <1>1, Moves DEF Boot
<1>2. CASE Deliver
  BY <1>2, Moves DEF Deliver
<1>3. CASE Listening
  <2>1. CASE WakeCycle
    BY <2>1, Moves DEF WakeCycle
  <2>2. CASE NoWake
    BY <2>2, Moves DEF NoWake
  <2>3. CASE WakeText
    BY <2>3, Moves DEF WakeText
  <2>4. CASE WakeWord
    BY <2>4, Moves DEF WakeWord
  <2>5. CASE FollowupText
    BY <2>5, Moves DEF FollowupText
  <2>6. CASE CaptureFollowup
    BY <2>6, Moves DEF CaptureFollowup
  <2>7. CASE ListenText
    BY <2>7, Moves DEF ListenText
  <2>8. CASE ListenTimeout
    BY <2>8, Moves DEF ListenTimeout
  <2>9. CASE SpeechStart
    BY <2>9, Moves DEF SpeechStart
  <2>10. CASE Captured
    BY <2>10, Moves DEF Captured
  <2>11. CASE MicrophoneFails
    BY <2>11, Moves DEF MicrophoneFails
  <2> QED
    BY <1>3, <2>1, <2>2, <2>3, <2>4, <2>5, <2>6, <2>7, <2>8, <2>9, <2>10,
       <2>11
       DEF Listening
<1>4. CASE Routing
  <2>1. CASE ReadText
    BY <2>1, Moves DEF ReadText
  <2>2. CASE Transcribe
    BY <2>2, Moves DEF Transcribe
  <2>3. CASE Transcribed
    BY <2>3, Moves DEF Transcribed
  <2>4. CASE LocalReply
    BY <2>4, Moves, GoalSet DEF LocalReply
  <2>5. CASE TtsOn
    BY <2>5, Moves, GoalSet DEF TtsOn
  <2>6. CASE TtsOff
    BY <2>6, Moves, GoalSet DEF TtsOff
  <2>7. CASE EndSession
    BY <2>7, Moves, GoalSet DEF EndSession
  <2>8. CASE FastPath
    BY <2>8, Moves DEF FastPath
  <2>9. CASE AskAgent
    BY <2>9, Moves DEF AskAgent
  <2>10. CASE FastDone
    BY <2>10, Moves, GoalSet DEF FastDone
  <2>11. CASE FastFails
    BY <2>11, Moves DEF FastFails
  <2> QED
    BY <1>4, <2>1, <2>2, <2>3, <2>4, <2>5, <2>6, <2>7, <2>8, <2>9, <2>10,
       <2>11
       DEF Routing
<1>5. CASE Speaking
  <2>1. CASE SaySilently
    BY <2>1, Moves DEF SaySilently
  <2>2. CASE Speak
    BY <2>2, Moves DEF Speak
  <2>3. CASE SpeakReturns
    BY <2>3, Moves DEF SpeakReturns
  <2>4. CASE SpeakFails
    BY <2>4, Moves DEF SpeakFails
  <2>5. CASE SpeakWaited
    BY <2>5, Moves DEF SpeakWaited
  <2>6. CASE SpeakStopped
    BY <2>6, Moves DEF SpeakStopped
  <2>7. CASE SpeakHushed
    BY <2>7, Moves DEF SpeakHushed
  <2> QED
    BY <1>5, <2>1, <2>2, <2>3, <2>4, <2>5, <2>6, <2>7 DEF Speaking
<1>6. CASE Agent
  <2>1. CASE AgentFails
    BY <2>1, Moves DEF AgentFails
  <2>2. CASE ToolRound
    BY <2>2, Moves, SpeechOpened DEF ToolRound
  <2>3. CASE CancelStopped
    BY <2>3, Moves DEF CancelStopped
  <2>4. CASE CancelReadsState
    BY <2>4, Moves DEF CancelReadsState
  <2>5. CASE CancelPauses
    BY <2>5, Moves DEF CancelPauses
  <2>6. CASE ToolStarted
    BY <2>6, Moves, RoundCounted DEF ToolStarted
  <2>7. CASE ToolFinished
    BY <2>7, Moves DEF ToolFinished
  <2>8. CASE AgentReplies
    BY <2>8, Moves, GoalSet DEF AgentReplies
  <2>9. CASE StreamSpeaks
    BY <2>9, Moves, SpeechOpened DEF StreamSpeaks
  <2>10. CASE StreamEnds
    BY <2>10, Moves DEF StreamEnds
  <2>11. CASE StreamSettled
    BY <2>11, Moves DEF StreamSettled
  <2>12. CASE StreamStopped
    BY <2>12, Moves DEF StreamStopped
  <2> QED
    BY <1>6, <2>1, <2>2, <2>3, <2>4, <2>5, <2>6, <2>7, <2>8, <2>9, <2>10,
       <2>11, <2>12
       DEF Agent
<1>7. CASE Ending
  <2>1. CASE AfterTurn
    BY <2>1, Moves DEF AfterTurn
  <2>2. CASE LateCapture
    BY <2>2, Moves DEF LateCapture
  <2>3. CASE Interrupted
    BY <2>3, Moves DEF Interrupted
  <2>4. CASE Wrapup
    BY <2>4, Moves DEF Wrapup
  <2>5. CASE CloseSession
    BY <2>5, Moves DEF CloseSession
  <2>6. CASE Recover
    BY <2>6, Moves DEF Recover
  <2>7. CASE RecoveryFails
    BY <2>7, Moves DEF RecoveryFails
  <2>8. CASE Recovered
    BY <2>8, Moves DEF Recovered
  <2> QED
    BY <1>7, <2>1, <2>2, <2>3, <2>4, <2>5, <2>6, <2>7, <2>8 DEF Ending
<1>8. CASE MonitorStep
  BY <1>8, Moves DEF MonitorStep
<1>9. CASE CallbackReads
  BY <1>9, Moves DEF CallbackReads
<1>10. CASE CallbackActs
  BY <1>10, Moves DEF CallbackActs
<1>11. CASE KeyboardInterrupt
  BY <1>11, Moves DEF KeyboardInterrupt
<1>12. CASE SubmitText
  BY <1>12, Moves DEF SubmitText
<1>13. CASE ClaimReminder
  BY <1>13, Moves DEF ClaimReminder
<1>14. CASE ApprovalExpires
  BY <1>14, Moves DEF ApprovalExpires
<1> QED
  BY <1>1, <1>2, <1>3, <1>4, <1>5, <1>6, <1>7, <1>8, <1>9, <1>10, <1>11,
     <1>12, <1>13, <1>14
     DEF Next, MainStep, CallbackStep, ThreadStep, Environment

-----------------------------------------------------------------------------
(* The initial states have the invariant.                                  *)
LEMMA RuntimeStarts == Init => RuntimeInv
<1> SUFFICES ASSUME Init PROVE RuntimeInv
  OBVIOUS
<1>1. Types
  <2>1. MonTypeOK /\ at \in Place /\ state \in States
    BY DEF Init, MonInit, MonTypeOK, Place, States
  <2>2. console \in 0..MaxText /\ typed \in 0..MaxText /\ due \in 0..MaxDue
    BY RuntimeAssumption DEF Init
  <2>3. console <= typed /\ at # "text"
    BY DEF Init
  <2> QED
    BY <2>1, <2>2, <2>3, RecordTypes DEF Init, Types, TypeOK
<1>2. CommandInv /\ LoopInv
  BY DEF Init, CommandInv, LoopInv, Idle, Silent, Busy, MonitorWaits
<1>3. MonitorInv
  BY DEF Init, MonInit, MonitorInv, Alive, AgentPlaces
<1>4. BufferedInv
  BY DEF Init, MonInit, BufferedInv, StateFits, MonitorFits, HeardFits, Alive,
         SpeechPlaces, RecoveryPlaces, Begin
<1> QED
  BY <1>1, <1>2, <1>3, <1>4 DEF RuntimeInv

(* So does every state that a stuttering step leaves as it is.             *)
LEMMA RuntimeStutters ==
  ASSUME RuntimeInv, UNCHANGED vars
  PROVE  RuntimeInv'
<1> USE DEF RuntimeInv, vars, mainVars, turnVars, heardVars, world, monVars
<1>1. Types'
  BY DEF Types, TypeOK, MonTypeOK
<1>2. CommandInv' /\ LoopInv'
  BY DEF CommandInv, LoopInv
<1>3. MonitorInv'
  BY DEF MonitorInv, Alive, Streams
<1>4. BufferedInv'
  BY DEF BufferedInv, Buffered, StateFits, MonitorFits, HeardFits, Alive, Over
<1> QED
  BY <1>1, <1>2, <1>3, <1>4

(* Every step keeps the invariant.                                         *)
LEMMA RuntimeKeeps == RuntimeInv /\ [Next]_vars => RuntimeInv'
<1> SUFFICES ASSUME RuntimeInv, [Next]_vars PROVE RuntimeInv'
  OBVIOUS
<1>1. CASE UNCHANGED vars
  BY <1>1, RuntimeStutters
<1>2. CASE Next
  <2>0. TypeOK /\ MonTypeOK
    BY DEF RuntimeInv, Types, TypeOK
  <2>1. Types'
    BY <1>2, <2>0, MonitorTypes, TypesStep DEF RuntimeInv
  <2>2. CommandInv' /\ MonitorInv' /\ LoopInv'
    BY <1>2, <2>0, CommandStep, MonitorPlaces, LoopStep DEF RuntimeInv
  <2>3. ASSUME Buffered PROVE StateFits' /\ MonitorFits' /\ HeardFits'
    <3>1. StateFits' /\ MonitorFits'
      BY <1>2, <2>0, <2>3, StateFitsStep, MonitorFitsStep DEF RuntimeInv
    <3> QED
      BY <1>2, <2>0, <2>3, <3>1, HeardFitsStep DEF RuntimeInv
  <2>4. Buffered' => Buffered
    BY <1>2 DEF Buffered, Next, MainStep, CallbackStep, ThreadStep, Environment
  <2>5. BufferedInv'
    BY <2>3, <2>4 DEF BufferedInv
  <2> QED
    BY <2>1, <2>2, <2>5 DEF RuntimeInv
<1> QED
  BY <1>1, <1>2

(* The invariant of the main loop, for all configurations and bounds.      *)
THEOREM RuntimeInvariant == Spec => []RuntimeInv
BY RuntimeStarts, RuntimeKeeps, PTL DEF Spec

(* Whatever interruption or error ended the last cycle, the next one finds *)
(* the state machine in the state it needs (run, runtime.py).              *)
THEOREM LoopIsReady == Spec => []LoopMatchesState
<1>1. RuntimeInv => LoopMatchesState
  BY DEF RuntimeInv, LoopInv, LoopMatchesState, Follow
<1> QED
  BY <1>1, RuntimeInvariant, PTL

(* A command lives inside one conversation and one cycle: complete_turn is *)
(* never called without an active session.                                 *)
THEOREM CommandsAreClosed == Spec => []CommandInConversation
<1>1. RuntimeInv => CommandInConversation
  BY DEF RuntimeInv, CommandInv, CommandInConversation, Busy, MonitorWaits
<1> QED
  BY <1>1, RuntimeInvariant, PTL

(* The main thread never captures or awaits the wake word beside a monitor *)
(* that is left from a former speech.                                      *)
THEOREM MicHasOneReader == Spec => []OneMicReader
<1>1. RuntimeInv => OneMicReader
  BY DEF RuntimeInv, MonitorInv, OneMicReader, SpeechPlaces, AgentPlaces,
         RecoveryPlaces
<1> QED
  BY <1>1, RuntimeInvariant, PTL

(* When replies are spoken at once the table refuses nothing but the end   *)
(* of a conversation while the user interrupts, and the announcement of a  *)
(* spoken reminder, which has a fault of its own ("reminder").             *)
THEOREM RefusesOnlyTheEnd == Spec => []OnlyEndIsRefused
<1>1. RuntimeInv => OnlyEndIsRefused
  BY DEF RuntimeInv, BufferedInv, Buffered, HeardFits, OnlyEndIsRefused
<1> QED
  BY <1>1, RuntimeInvariant, PTL

(* Then, too, no cycle starts with an interruption that was captured and   *)
(* not processed, unless the user ended the session by what he said.       *)
THEOREM NoInterruptionIsLost == Spec => []InterruptionProcessed
<1>1. RuntimeInv => InterruptionProcessed
  BY DEF RuntimeInv, BufferedInv, Buffered, HeardFits, InterruptionProcessed,
         SpeechPlaces, Over
<1> QED
  BY <1>1, RuntimeInvariant, PTL

=============================================================================
