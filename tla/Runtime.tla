------------------------------- MODULE Runtime -------------------------------
(***************************************************************************)
(* The assistant's main loop (src/src/app/runtime.py) with the threads that*)
(* touch its state: the barge-in monitor, whose callback moves the state   *)
(* machine from its own thread, the console reader and the scheduler.      *)
(*                                                                         *)
(* `at' is where the main thread is.  A step of the main thread runs to    *)
(* the next point where another thread's action can make a difference; a   *)
(* RuntimeError sends it to "recover", as run() does.                      *)
(***************************************************************************)
EXTENDS Naturals, AgentState, BargeInMonitor

CONSTANTS
  Configs,           \* the configurations the program may start with
  MaxTurns,          \* conversation.config.max_turns
  MaxRounds,         \* the agent's max_tool_rounds
  MaxAnnouncements,  \* scheduler_max_announcements
  MaxText,           \* bound: texts typed
  MaxDue             \* bound: reminders claimed and not announced

(* streaming_enabled, barge_in.config.enabled, scheduler_announce_tts; and *)
(* whether the monitor may outlast the timeout of a join or a wait.        *)
Config == [streaming : BOOLEAN, bargeIn : BOOLEAN, announce : BOOLEAN, slow : BOOLEAN]

ASSUME RuntimeAssumption ==
  /\ Configs \subseteq Config
  /\ MaxTurns \in Nat \ {0} /\ MaxRounds \in Nat
  /\ MaxAnnouncements \in Nat \ {0}
  /\ MaxText \in Nat /\ MaxDue \in Nat

VARIABLES
  config,          \* chosen at the start
  at, fault,       \* the main thread, and why it is in recover
  state,           \* state.current
  conv,            \* the conversation session: active, turns
  cmd,             \* _active_command: none, or its input source
  turn,            \* locals of the turn: source, goal, open stream, tool rounds
  held,            \* _pending_barge_in_capture is set
  heard,           \* an interruption is captured and not yet handed to STT
  tts,             \* tts_enabled
  approval,        \* the registry has a pending confirmation
  console, typed,  \* queued texts, texts typed so far
  due              \* scheduler.drain would return so many

turnVars  == <<conv, cmd, turn>>
heardVars == <<held, heard>>
world     == <<console, typed, due>>
mainVars  == <<at, fault, turnVars, heardVars, tts, approval, world>>
vars      == <<config, mainVars, state, monVars>>

Silent == [active |-> FALSE, turns |-> 0]
Fresh  == [active |-> TRUE, turns |-> 0]
Begin(source) == [src |-> source, goal |-> "after", open |-> FALSE, rounds |-> 0]

Over == at \in {"exit", "crash"}

MonitorWaits == {"waiting", "stopping", "hushing", "pausing", "settling",
                 "settleStop", "late", "recovering"}

Busy == {"transcribe", "stt", "route", "tool", "say", "speaking",
         "ask", "paused", "pause", "call", "agentTool", "after", "close"}
        \cup (MonitorWaits \ {"recovering"})

Place == Busy \cup {"boot", "greet", "loop", "wake", "watch", "listen", "hearing", "text",
                   "interrupted", "wrapup", "recover", "recovering", "exit", "crash"}

Conversation == [active : BOOLEAN, turns : 0..MaxTurns]

Turn == [src : {"voice", "text"}, goal : {"after", "mute", "end"},
         open : BOOLEAN, rounds : 0..MaxRounds]

TypeOK ==
  /\ MonTypeOK
  /\ config \in Configs
  /\ at \in Place
  /\ fault \in {"none", "external", "invalid", "reminder", "monitor"}
  /\ state \in States
  /\ conv \in Conversation
  /\ cmd \in {"none", "voice", "text"}
  /\ turn \in Turn
  /\ held \in BOOLEAN /\ heard \in BOOLEAN /\ tts \in BOOLEAN /\ approval \in BOOLEAN
  /\ console \in 0..MaxText /\ typed \in 0..MaxText /\ due \in 0..MaxDue

Init ==
  /\ config \in Configs
  /\ at = "boot" /\ fault = "none" /\ state = "STARTING"
  /\ conv = Silent /\ cmd = "none" /\ turn = Begin("voice")
  /\ held = FALSE /\ heard = FALSE
  /\ tts \in BOOLEAN /\ approval = FALSE
  /\ console = 0 /\ typed = 0 /\ due = 0
  /\ MonInit

-----------------------------------------------------------------------------
(* Steps common to many actions.                                           *)

Raise(kind) == at' = "recover" /\ fault' = kind
Goto(next) == at' = next /\ UNCHANGED fault

(* _transition, and what follows it when it does not raise.                *)
Move(to, next) ==
  IF CanMove(state, to)
  THEN state' = to /\ Goto(next)
  ELSE UNCHANGED state /\ Raise("invalid")

(* An exception of the microphone, a model, the network or a tool.         *)
Fails == Raise("external")

CanAcceptFollowup == conv.active /\ conv.turns < MaxTurns

ReturnToSleep == conv' = Silent /\ Move("SLEEPING", "loop")

-----------------------------------------------------------------------------
(* Start, the wake word and the reminders.                                 *)

Boot ==
  /\ at = "boot"
  /\ Move("SLEEPING", "greet")
  /\ UNCHANGED <<turnVars, heardVars, tts, approval, world, monVars>>

(* _deliver_due_reminders: what it drained is gone even if the first of it *)
(* raises.  Before the loop nothing catches the exception.                 *)
Deliver ==
  /\ at \in {"greet", "wake"}
  /\ state = "SLEEPING"
  /\ due' = IF due > MaxAnnouncements THEN due - MaxAnnouncements ELSE 0
  /\ IF due > 0 /\ tts /\ config.announce /\ ~CanMove(state, "SPEAKING")
     THEN \/ at = "wake" /\ Raise("reminder") /\ UNCHANGED state
          \/ at = "greet" /\ at' = "crash" /\ fault' = "reminder" /\ state' = "STOPPED"
     ELSE Goto(IF at = "greet" THEN "loop" ELSE "watch") /\ UNCHANGED state
  /\ UNCHANGED <<turnVars, heardVars, tts, approval, console, typed, monVars>>

WakeCycle ==
  /\ at = "loop" /\ ~conv.active
  /\ Goto("wake")
  /\ heard' = FALSE /\ turn' = Begin("voice")
  /\ UNCHANGED <<state, conv, cmd, held, tts, approval, world, monVars>>

(* _wait_for_wakeword                                                      *)
NoWake ==
  /\ at = "watch" /\ console = 0
  /\ Goto("wake")
  /\ UNCHANGED <<state, turnVars, heardVars, tts, approval, world, monVars>>

WakeText ==
  /\ at = "watch" /\ console > 0
  /\ Goto("text")
  /\ UNCHANGED <<state, turnVars, heardVars, tts, approval, world, monVars>>

WakeWord ==
  /\ at = "watch" /\ console = 0
  /\ conv' = Fresh /\ cmd' = "voice" /\ turn' = Begin("voice")
  /\ Move("AWAITING_SPEECH", "listen")
  /\ UNCHANGED <<heardVars, tts, approval, world, monVars>>

-----------------------------------------------------------------------------
(* Follow-ups, the capture of speech, and text that preempts it.  Queued   *)
(* text is looked for right before every read of the microphone; text      *)
(* typed after that look and before the read's effect could as well have   *)
(* been typed after the effect, so look, read and effect are one step.     *)

FollowupText ==
  /\ at = "loop" /\ conv.active /\ console > 0
  /\ Goto("text")
  /\ UNCHANGED <<state, turnVars, heardVars, tts, approval, world, monVars>>

CaptureFollowup ==
  /\ at = "loop" /\ conv.active /\ console = 0
  /\ cmd' = "voice" /\ turn' = Begin("voice")
  /\ Goto("listen")
  /\ UNCHANGED <<state, conv, heardVars, tts, approval, world, monVars>>

ListenText ==
  /\ at \in {"listen", "hearing"} /\ console > 0
  /\ cmd' = "none"
  /\ Goto("text")
  /\ UNCHANGED <<state, conv, turn, heardVars, tts, approval, world, monVars>>

ListenTimeout ==
  /\ at = "listen" /\ console = 0
  /\ cmd' = "none"
  /\ ReturnToSleep
  /\ UNCHANGED <<turn, heardVars, tts, approval, world, monVars>>

SpeechStart ==
  /\ at = "listen" /\ console = 0
  /\ Move("CAPTURING", "hearing")
  /\ UNCHANGED <<turnVars, heardVars, tts, approval, world, monVars>>

Captured ==
  /\ at = "hearing" /\ console = 0
  /\ Goto("transcribe")
  /\ UNCHANGED <<state, turnVars, heardVars, tts, approval, world, monVars>>

MicrophoneFails ==
  /\ at \in {"watch", "listen", "hearing"} /\ console = 0
  /\ Fails
  /\ UNCHANGED <<state, turnVars, heardVars, tts, approval, world, monVars>>

(* Mutants: the text stays queued, or no conversation is started for it.   *)
ReadTextPeeks ==
  /\ at = "text"
  /\ conv' = IF CanAcceptFollowup THEN conv ELSE Fresh
  /\ turn' = Begin("text") /\ cmd' = "text"
  /\ Move("TEXT_INPUT", "route")
  /\ UNCHANGED <<heardVars, tts, approval, world, monVars>>

ReadTextAlone ==
  /\ at = "text"
  /\ console' = console - 1
  /\ turn' = Begin("text") /\ cmd' = "text"
  /\ Move("TEXT_INPUT", "route")
  /\ UNCHANGED <<conv, heardVars, tts, approval, typed, due, monVars>>

(* _process_next_text_input up to the routing                              *)
ReadText ==
  /\ at = "text"
  /\ console' = console - 1
  /\ conv' = IF CanAcceptFollowup THEN conv ELSE Fresh
  /\ turn' = Begin("text")
  /\ Move("TEXT_INPUT", "route")
  /\ cmd' = IF CanMove(state, "TEXT_INPUT") THEN "text" ELSE cmd
  /\ UNCHANGED <<heardVars, tts, approval, typed, due, monVars>>

Transcribe ==
  /\ at = "transcribe"
  /\ Move("TRANSCRIBING", "stt")
  /\ UNCHANGED <<turnVars, heardVars, tts, approval, world, monVars>>

Transcribed ==
  /\ at = "stt"
  /\ Goto("route") \/ Fails
  /\ UNCHANGED <<state, turnVars, heardVars, tts, approval, world, monVars>>

-----------------------------------------------------------------------------
(* Routing the transcript: _handle_local_command, _try_fast_path, _ask_agent*)

SayNext(goal) ==
  /\ turn' = [turn EXCEPT !.goal = goal]
  /\ Goto("say")
  /\ UNCHANGED <<state, conv, cmd, heardVars, world, monVars>>

LocalReply == at = "route" /\ SayNext("after") /\ UNCHANGED <<tts, approval>>

TtsOn == at = "route" /\ SayNext("after") /\ tts' = TRUE /\ UNCHANGED approval

TtsOff == at = "route" /\ SayNext("mute") /\ UNCHANGED <<tts, approval>>

EndSession == at = "route" /\ SayNext("end") /\ approval' = FALSE /\ UNCHANGED tts

FastPath ==
  /\ at = "route"
  /\ Move("EXECUTING_TOOL", "tool")
  /\ UNCHANGED <<turnVars, heardVars, tts, approval, world, monVars>>

(* The tools a route runs may park an action, run the parked one or cancel.*)
FastDone ==
  /\ at = "tool"
  /\ approval' \in BOOLEAN
  /\ SayNext("after")
  /\ UNCHANGED tts

FastFails ==
  /\ at = "tool"
  /\ Fails
  /\ UNCHANGED <<state, turnVars, heardVars, tts, approval, world, monVars>>

AskAgent ==
  /\ at = "route"
  /\ Move("THINKING", "ask")
  /\ UNCHANGED <<turnVars, heardVars, tts, approval, world, monVars>>

-----------------------------------------------------------------------------
(* _speak, with the monitor of an interruption.                            *)

(* What follows speaking: TTS stays on if it worked, unless it was the     *)
(* command to turn it off.                                                 *)
Spoken(ok) ==
  /\ tts' = (ok /\ turn.goal # "mute")
  /\ Goto(IF turn.goal = "end" THEN "close" ELSE "after")

SaySilently ==
  /\ at = "say" /\ (turn.src = "text" \/ ~tts)
  /\ Spoken(tts)
  /\ UNCHANGED <<state, turnVars, heardVars, approval, world, monVars>>

(* The transition is outside the try; a monitor that still runs from a     *)
(* former turn makes start() raise inside it.                              *)
Speak ==
  /\ at = "say" /\ turn.src = "voice" /\ tts
  /\ IF ~CanMove(state, "SPEAKING")
     THEN Raise("invalid") /\ UNCHANGED <<state, held, tts, monVars>>
     ELSE /\ state' = "SPEAKING" /\ held' = FALSE
          /\ \/ ~config.bargeIn /\ Goto("speaking") /\ UNCHANGED <<tts, monVars>>
             \/ config.bargeIn /\ StartMonitor /\ Goto("speaking") /\ UNCHANGED tts
             \/ config.bargeIn /\ Alive /\ Spoken(FALSE) /\ UNCHANGED monVars
  /\ UNCHANGED <<turnVars, heard, approval, world>>

SpeakReturns ==
  /\ at = "speaking"
  /\ \/ ~config.bargeIn /\ Spoken(TRUE) /\ UNCHANGED monVars
     \/ config.bargeIn /\ trigEv /\ Goto("waiting") /\ UNCHANGED <<tts, monVars>>
     \/ config.bargeIn /\ ~trigEv /\ RequestStop /\ Goto("stopping") /\ UNCHANGED tts
  /\ UNCHANGED <<state, turnVars, heardVars, approval, world>>

SpeakFails ==
  /\ at = "speaking"
  /\ IF config.bargeIn
     THEN RequestStop /\ Goto("hushing") /\ UNCHANGED tts
     ELSE Spoken(FALSE) /\ UNCHANGED monVars
  /\ UNCHANGED <<state, turnVars, heardVars, approval, world>>

SpeakWaited ==
  /\ at = "waiting" /\ WaitReturns(config.slow)
  /\ IF Answer = "capture"
     THEN held' = TRUE /\ Spoken(TRUE) /\ UNCHANGED monVars
     ELSE RequestStop /\ Goto("hushing") /\ UNCHANGED <<held, tts>>
  /\ UNCHANGED <<state, turnVars, heard, approval, world>>

SpeakStopped ==
  /\ at = "stopping" /\ JoinReturns(config.slow)
  /\ Spoken(Answer # "error")
  /\ UNCHANGED <<state, turnVars, heardVars, approval, world, monVars>>

SpeakHushed ==
  /\ at = "hushing" /\ JoinReturns(config.slow)
  /\ Spoken(FALSE)
  /\ UNCHANGED <<state, turnVars, heardVars, approval, world, monVars>>

-----------------------------------------------------------------------------
(* The agent: tool events, and in streaming the speech of its text.        *)

Streams == config.streaming /\ turn.src = "voice"

AgentFails ==
  /\ at \in {"ask", "agentTool"}
  /\ Fails
  /\ UNCHANGED <<state, turnVars, heardVars, tts, approval, world, monVars>>

(* A round of tool calls.  Speech begun in this round is cancelled first   *)
(* (on_text_cancel); a monitor that has triggered is left to finish.       *)
ToolRound ==
  /\ at = "ask"
  /\ \/ ~turn.open /\ Goto("call") /\ UNCHANGED monVars
     \/ turn.open /\ config.bargeIn /\ ~trigEv /\ RequestStop /\ Goto("pausing")
     \/ turn.open /\ (trigEv \/ ~config.bargeIn) /\ Goto("paused") /\ UNCHANGED monVars
  /\ turn' = [turn EXCEPT !.open = FALSE]
  /\ UNCHANGED <<state, conv, cmd, heardVars, tts, approval, world>>

CancelStopped ==
  /\ at = "pausing" /\ JoinReturns(config.slow)
  /\ IF Answer = "error" THEN Raise("monitor") ELSE Goto("paused")
  /\ UNCHANGED <<state, turnVars, heardVars, tts, approval, world, monVars>>

(* The state is read, and the transition made, by two calls.               *)
CancelReadsState ==
  /\ at = "paused"
  /\ Goto(IF state = "SPEAKING" THEN "pause" ELSE "call")
  /\ UNCHANGED <<state, turnVars, heardVars, tts, approval, world, monVars>>

CancelPauses ==
  /\ at = "pause"
  /\ Move("THINKING", "call")
  /\ UNCHANGED <<turnVars, heardVars, tts, approval, world, monVars>>

(* Mutant: the rounds are not counted.                                     *)
ToolStartedAgain ==
  /\ at = "call"
  /\ Move("EXECUTING_TOOL", "agentTool")
  /\ UNCHANGED <<turnVars, heardVars, tts, approval, world, monVars>>

ToolStarted ==
  /\ at = "call"
  /\ IF turn.rounds = MaxRounds
     THEN Fails /\ UNCHANGED <<state, turn>>
     ELSE /\ turn' = [turn EXCEPT !.rounds = @ + 1]
          /\ Move("EXECUTING_TOOL", "agentTool")
  /\ UNCHANGED <<conv, cmd, heardVars, tts, approval, world, monVars>>

ToolFinished ==
  /\ at = "agentTool"
  /\ approval' \in BOOLEAN
  /\ Move("THINKING", "ask")
  /\ UNCHANGED <<turnVars, heardVars, tts, world, monVars>>

AgentReplies ==
  /\ at = "ask" /\ ~Streams
  /\ SayNext("after")
  /\ UNCHANGED <<tts, approval>>

(* start_audio_stream, at the first chunk of a round.                      *)
StreamSpeaks ==
  /\ at = "ask" /\ Streams /\ tts /\ ~turn.open
  /\ IF state # "SPEAKING" /\ ~CanMove(state, "SPEAKING")
     THEN Raise("invalid") /\ UNCHANGED <<state, turn, held, monVars>>
     ELSE /\ state' = "SPEAKING" /\ held' = FALSE
          /\ IF config.bargeIn /\ Alive
             THEN Raise("monitor") /\ UNCHANGED <<turn, monVars>>
             ELSE /\ turn' = [turn EXCEPT !.open = TRUE]
                  /\ Goto("ask")
                  /\ IF config.bargeIn THEN StartMonitor ELSE UNCHANGED monVars
  /\ UNCHANGED <<conv, cmd, heard, tts, approval, world>>

(* The stream has ended: session.finish, then _settle_stream_barge_in.     *)
StreamEnds ==
  /\ at = "ask" /\ Streams
  /\ \/ ~turn.open /\ ~tts /\ Goto("after") /\ UNCHANGED monVars
     \/ turn.open /\ ~config.bargeIn /\ Goto("after") /\ UNCHANGED monVars
     \/ turn.open /\ config.bargeIn /\ trigEv /\ Goto("settling") /\ UNCHANGED monVars
     \/ turn.open /\ config.bargeIn /\ ~trigEv /\ RequestStop /\ Goto("settleStop")
  /\ UNCHANGED <<state, turnVars, heardVars, tts, approval, world>>

StreamSettled ==
  /\ at = "settling" /\ WaitReturns(config.slow)
  /\ IF Answer = "capture" THEN held' = TRUE /\ Goto("after")
                           ELSE UNCHANGED held /\ Raise("monitor")
  /\ UNCHANGED <<state, turnVars, heard, tts, approval, world, monVars>>

StreamStopped ==
  /\ at = "settleStop" /\ JoinReturns(config.slow)
  /\ IF Answer = "error" THEN Raise("monitor") ELSE Goto("after")
  /\ UNCHANGED <<state, turnVars, heardVars, tts, approval, world, monVars>>

-----------------------------------------------------------------------------
(* _after_turn and the end of a conversation.                              *)

FinishTurn(next) ==
  /\ cmd' = "none"
  /\ conv' = [conv EXCEPT !.turns = IF @ < MaxTurns THEN @ + 1 ELSE @]
  /\ Goto(next)

(* Mutant: an utterance that is not finished yet is not waited for.        *)
AfterTurnHeldOnly ==
  /\ at = "after"
  /\ FinishTurn(IF held THEN "interrupted" ELSE "wrapup")
  /\ held' = FALSE
  /\ UNCHANGED <<state, turn, heard, tts, approval, world, monVars>>

(* _take_pending_barge_in_capture: a trigger after the speech ended has    *)
(* left the state at CAPTURING; its utterance is waited for.               *)
AfterTurn ==
  /\ at = "after"
  /\ IF ~held /\ state = "CAPTURING" /\ trigEv
     THEN Goto("late") /\ UNCHANGED <<conv, cmd>>
     ELSE FinishTurn(IF held THEN "interrupted" ELSE "wrapup")
  /\ held' = FALSE
  /\ UNCHANGED <<state, turn, heard, tts, approval, world, monVars>>

(* Mutant: the late capture is waited for and then forgotten.              *)
LateCaptureForgotten ==
  /\ at = "late" /\ WaitReturns(config.slow)
  /\ FinishTurn("wrapup")
  /\ UNCHANGED <<state, turn, heardVars, tts, approval, world, monVars>>

LateCapture ==
  /\ at = "late" /\ WaitReturns(config.slow)
  /\ IF Answer = "capture" THEN FinishTurn("interrupted")
                           ELSE Raise("monitor") /\ UNCHANGED <<conv, cmd>>
  /\ UNCHANGED <<state, turn, heardVars, tts, approval, world, monVars>>

(* The interruption is the next command, in a new conversation at the limit*)
Interrupted ==
  /\ at = "interrupted"
  /\ conv' = IF conv.turns = MaxTurns THEN Fresh ELSE conv
  /\ cmd' = "voice" /\ turn' = Begin("voice")
  /\ heard' = FALSE
  /\ Goto("transcribe")
  /\ UNCHANGED <<state, held, tts, approval, world, monVars>>

Wrapup ==
  /\ at = "wrapup"
  /\ IF approval THEN UNCHANGED conv /\ Move("AWAITING_CONFIRMATION", "loop")
     ELSE IF CanAcceptFollowup THEN UNCHANGED conv /\ Move("AWAITING_SPEECH", "loop")
     ELSE ReturnToSleep
  /\ UNCHANGED <<cmd, turn, heardVars, tts, approval, world, monVars>>

CloseSession ==
  /\ at = "close"
  /\ held' = FALSE /\ cmd' = "none"
  /\ ReturnToSleep
  /\ UNCHANGED <<turn, heard, tts, approval, world, monVars>>

-----------------------------------------------------------------------------
(* _recover and the end of the program.                                    *)

Leave(how) ==
  /\ at' = how
  /\ state' = "STOPPED" /\ conv' = Silent /\ cmd' = "none"
  /\ UNCHANGED <<fault, turn, heardVars, tts, approval, world, monVars>>

(* Mutant: the monitor is not stopped.                                     *)
RecoverWithoutStop ==
  /\ at = "recover"
  /\ at' = "loop" /\ fault' = "none" /\ state' = "SLEEPING"
  /\ conv' = Silent /\ cmd' = "none"
  /\ held' = FALSE /\ approval' = FALSE
  /\ UNCHANGED <<turn, heard, tts, world, monVars>>

Recover ==
  /\ at = "recover"
  /\ RequestStop
  /\ Goto("recovering")
  /\ UNCHANGED <<state, turnVars, heardVars, tts, approval, world>>

(* barge_in.stop raises the error the last monitor stored, and nothing     *)
(* catches it: run() ends.                                                 *)
RecoveryFails ==
  /\ at = "recovering" /\ JoinReturns(config.slow) /\ Answer = "error"
  /\ Leave("crash")

(* Mutant: the conversation goes on after the error.                       *)
RecoveredTalking ==
  /\ at = "recovering" /\ JoinReturns(config.slow) /\ Answer # "error"
  /\ at' = "loop" /\ fault' = "none" /\ state' = "SLEEPING"
  /\ cmd' = "none"
  /\ held' = FALSE /\ approval' = FALSE
  /\ UNCHANGED <<conv, turn, heard, tts, world, monVars>>

Recovered ==
  /\ at = "recovering" /\ JoinReturns(config.slow) /\ Answer # "error"
  /\ at' = "loop" /\ fault' = "none" /\ state' = "SLEEPING"
  /\ conv' = Silent /\ cmd' = "none"
  /\ held' = FALSE /\ approval' = FALSE
  /\ UNCHANGED <<turn, heard, tts, world, monVars>>

KeyboardInterrupt == ~Over /\ Leave("exit")

-----------------------------------------------------------------------------
(* The other threads, and time.                                            *)

Outside == <<at, fault, turnVars, held, tts, approval, world>>

(* A stored capture is an interruption somebody must process.              *)
MonitorStep ==
  /\ ~Over
  /\ Trigger \/ CaptureEnds \/ ThreadLeaves \/ MonitorFails
  /\ heard' = (heard \/ (result' /\ ~result))
  /\ UNCHANGED <<Outside, state>>

(* _on_barge_in_trigger: the state is read, then moved.                    *)
CallbackReads ==
  /\ ~Over /\ mon = "callback"
  /\ IF state = "SPEAKING"
     THEN mon' = "acting" /\ UNCHANGED <<stopEv, trigEv, finEv, result, error>>
     ELSE CallbackReturns
  /\ UNCHANGED <<Outside, heard, state>>

CallbackActs ==
  /\ ~Over /\ mon = "acting"
  /\ IF CanMove(state, "CAPTURING")
     THEN state' = "CAPTURING" /\ CallbackReturns
     ELSE CallbackFails /\ UNCHANGED state
  /\ UNCHANGED <<Outside, heard>>

SubmitText ==
  /\ ~Over /\ typed < MaxText
  /\ console' = console + 1 /\ typed' = typed + 1
  /\ UNCHANGED <<at, fault, turnVars, heardVars, tts, approval, due, state, monVars>>

ClaimReminder ==
  /\ ~Over /\ due < MaxDue
  /\ due' = due + 1
  /\ UNCHANGED <<at, fault, turnVars, heardVars, tts, approval, console, typed, state, monVars>>

ApprovalExpires ==
  /\ ~Over /\ approval
  /\ approval' = FALSE
  /\ UNCHANGED <<at, fault, turnVars, heardVars, tts, world, state, monVars>>

-----------------------------------------------------------------------------

Listening ==
  \/ WakeCycle \/ NoWake \/ WakeText \/ WakeWord
  \/ FollowupText \/ CaptureFollowup \/ ListenText \/ ListenTimeout
  \/ SpeechStart \/ Captured \/ MicrophoneFails

Routing ==
  \/ ReadText \/ Transcribe \/ Transcribed
  \/ LocalReply \/ TtsOn \/ TtsOff \/ EndSession \/ FastPath \/ AskAgent
  \/ FastDone \/ FastFails

Speaking ==
  \/ SaySilently \/ Speak \/ SpeakReturns \/ SpeakFails
  \/ SpeakWaited \/ SpeakStopped \/ SpeakHushed

Agent ==
  \/ AgentFails \/ ToolRound \/ CancelStopped \/ CancelReadsState \/ CancelPauses
  \/ ToolStarted \/ ToolFinished \/ AgentReplies
  \/ StreamSpeaks \/ StreamEnds \/ StreamSettled \/ StreamStopped

Ending ==
  \/ AfterTurn \/ LateCapture \/ Interrupted \/ Wrapup \/ CloseSession
  \/ Recover \/ RecoveryFails \/ Recovered

MainStep ==
  /\ UNCHANGED config
  /\ Boot \/ Deliver \/ Listening \/ Routing \/ Speaking \/ Agent \/ Ending

CallbackStep == UNCHANGED config /\ (CallbackReads \/ CallbackActs)

ThreadStep == UNCHANGED config /\ MonitorStep

Environment ==
  /\ UNCHANGED config
  /\ KeyboardInterrupt \/ SubmitText \/ ClaimReminder \/ ApprovalExpires

Next == MainStep \/ CallbackStep \/ ThreadStep \/ Environment

(* The main thread and a monitor that has triggered or was told to stop    *)
(* keep running, the capture is bounded by max_utterance_seconds; nobody   *)
(* is obliged to speak, to type or to set a reminder.                      *)
Fairness ==
  /\ WF_vars(MainStep)
  /\ WF_vars(CallbackStep)
  /\ WF_vars(ThreadStep /\ (CaptureEnds \/ ThreadLeaves))

Spec == Init /\ [][Next]_vars /\ Fairness

-----------------------------------------------------------------------------
(* Whenever the loop starts a cycle, what it is about to do (follow up or  *)
(* wait for the wake word, from conversation.active) fits the state the    *)
(* machine is in, whatever interruption or error ended the last cycle.     *)
LoopMatchesState ==
  (at = "loop" /\ ~config.slow) =>
    IF conv.active THEN state \in {"AWAITING_SPEECH", "AWAITING_CONFIRMATION"}
                   ELSE state = "SLEEPING"

(* A command lives inside one conversation and one cycle: the loop never   *)
(* starts with one unfinished, and complete_turn (which raises without an  *)
(* active session) is only reached with one.                               *)
CommandInConversation ==
  /\ cmd # "none" => conv.active
  /\ at = "loop" => cmd = "none"
  /\ at \in {"after", "late", "wrapup", "interrupted"} => conv.active

(* The microphone has one reader: no monitor of a former speech is left    *)
(* listening when the main thread captures or awaits the wake word.        *)
OneMicReader ==
  (at \in {"wake", "watch", "listen", "hearing"} /\ ~config.slow) => ~Alive

(* When replies are spoken at once, the only transition the code attempts  *)
(* and the table refuses is the one that ends a conversation while the     *)
(* user is interrupting; but for the announcement of a spoken reminder,    *)
(* which is refused whenever it is made (fault "reminder", of which        *)
(* RemindersAnnounced speaks).                                             *)
OnlyEndIsRefused ==
  (fault = "invalid" /\ ~config.streaming /\ ~config.slow) => turn.goal = "end"

(* Then, too, what the user says over the assistant's speech is processed  *)
(* before the next cycle, at the turn limit as well, unless he was ending  *)
(* the session.                                                            *)
InterruptionProcessed ==
  (at = "loop" /\ heard /\ ~config.streaming /\ ~config.slow) => turn.goal = "end"

(* Typed text is read in the end, whatever the user says and whatever      *)
(* fails, as long as neither interruptions nor reminders can go on for     *)
(* ever: both come before the queue is looked at.                          *)
TextIsRead ==
  (console > 0 /\ ~config.bargeIn /\ ~config.announce) ~> (console = 0 \/ Over)

(* A turn comes to an end: with bounded tool rounds the loop is reached.   *)
TurnEnds == (at \in Busy /\ ~config.bargeIn) ~> at \notin Busy

(* The main thread waits for the monitor in eight places and never for     *)
(* ever: not for a capture, not for a stop, not in the recovery.           *)
MonitorWaitEnds == at \in MonitorWaits ~> at \notin MonitorWaits

-----------------------------------------------------------------------------
(* What the repository says and the code does not do.                      *)

(* runtime.py:411: "A captured interruption always wins over normal idle   *)
(* or turn-limit handling. Never discard it".  While the reply streams, a  *)
(* tool call after the interruption is refused by the state machine and    *)
(* the recovery drops what was captured.                                   *)
InterruptionWins == (fault = "invalid" /\ heard) => turn.goal = "end"

(* config/default.toml: announce_with_tts = true.  Announcing a reminder   *)
(* must not itself be an error.                                            *)
RemindersAnnounced == fault # "reminder"

(* tests/test_state_machine.py:37: an error is recovered to sleep.         *)
ErrorRecoveryReturnsToSleep == at # "crash"

=============================================================================
