# Jarvis: a formal model

Jarvis is a voice assistant for the desktop: it waits for a wake word, captures
and transcribes a command, answers it by a local command, a fast path or a
language model that calls tools, speaks the answer, lets the user interrupt it,
and takes typed text at any time.  This directory holds TLA+ models of the parts
whose correctness depends on the order of events, TLC configurations that check
them on small instances, and TLAPS proofs about all of them.

`PROJECT.json` is the index: components, runs, the source lines every
definition stands for, the hazards, the findings, the mutants (a bug put into one
definition that makes one property fail) and the theorems.  Paths below are
relative to `src/src/` unless they say otherwise.

## 1. Inventory

| Component | State | Operations | Talks to | What is hard | Correct means |
|---|---|---|---|---|---|
| Runtime main loop (`app/runtime.py`) | active command, held interruption, `tts_enabled`, pending recovery | wake-word and follow-up cycle, text input, routing, speaking, streaming, recovery | everything | four threads meet in it; every transition of the state machine may raise | the loop, the state machine and the conversation agree; nothing said or typed is lost |
| Agent state machine (`core/state_machine.py`) | current state, history | `transition`, `stop` | main thread and monitor callback | read-then-transition by two threads | only table transitions; refusals are recovered |
| Barge-in monitor (`bargein/monitor.py`) | thread, three events, result, error | `start`, `stop`, `wait_for_result` | microphone, runtime callback | event order, join timeouts, stored errors | one capture per trigger, waits end |
| Conversation (`conversation/session.py`) | session id, turns | `start`, `complete_turn`, `end` | runtime | turn limit against interruptions and confirmations | a command belongs to an active session |
| Confirmation manager (`confirmation/manager.py`) | one pending action | `request`, `approve`, `cancel`, `peek`, `pop_expired` | registry | lazy expiry, code attempts | an action runs once, in time, by its own code |
| Task plan tracker (`planning/tracker.py`, `tools/planning_tools.py`) | plan status, steps, current step, revisions | begin, record, repair, complete, fail, finish, abandon | registry, agent | order of repairs and failures | steps stay in order, evidence is kept, work is bounded |
| Tool registry (`tools/registry.py`) | tools, tracker, confirmation manager | `execute`, `begin_request`, approve, cancel, status | fast path, agent, runtime | two callers, exceptions after effects | an approval runs once; refused actions do not run |
| Fast path (`fastpath/router.py`) | none | `match`, `try_execute` | registry | resets the plan of the request | one tool per command |
| Agent (`llm/agent.py`) | previous response id, rounds, context | `ask`, `ask_stream`, `reset_conversation` | registry, model service | stream cancelled by a tool call, partial failure | bounded rounds; memory only of finished turns |
| Model delegation (`model_routing/router.py`) | budget and records of a turn | `begin_turn`, delegate | agent | budget, fallback | budget respected |
| Scheduler (`scheduler/engine.py`, `scheduler/store.py`) | task table, queue of due reminders, thread | schedule, cancel, snooze, claim, drain | runtime, tools | claim against cancel, restart, bounded drain | a reminder is delivered once, none is lost |
| Speech output (`tts/synthesizer.py`, `streaming/chunker.py`) | worker, queue, interrupt flag | `speak`, `start_stream`, `enqueue`, `cancel`, `finish`, `stop` | runtime, monitor callback, console | a stop that races the next chunk | after a stop nothing is spoken; finish ends |
| Speech capture (`speech/capture.py`) | local | `capture` | microphone, VAD, console | timeouts counted in frames, preemption | ends; text preempts |
| Microphone (`audio/microphone.py`) | bounded frame queue, stream, device | `read`, callback, recovery | PortAudio callback thread | overflow, device loss | newest frames survive, in order |
| Console input (`console_io/input.py`) | queue, activity counter | `try_read`, `has_pending` | console thread | queue against loop | every line is read once |
| Memory (`memory/store.py`, `memory/v2.py`) | SQLite tables: aliases and preferences, structured items, history, conflicts | remember, set status, resolve, forget, search | tools, agent | conflicts that outlive what they are about, shared limits | the history explains what an item is; a conflict can be decided |
| Local knowledge index (`local_rag/store.py`) | SQLite tables of files and chunks | index, prune, search | tools | files change while they are indexed, a run stops half way | what is indexed is what the file held; every line can be cited |
| Edge control (`edge_cdp/*`) | launcher process, targets, element refs, workflow steps | launch, attach, act, recover | tools | stale references, process ownership | an action hits the element it was chosen for |
| UI automation (`windows_uia/controller.py`) | element references | inspect, invoke, set | tools | references outlive windows | stale references are refused |
| Google services (`google_calendar/client.py`, `gmail/client.py`) | credentials, service | list, create, update, delete, free slots | tools | lost answers, other clients, overlapping busy times | slots are free; what is reported was read back |
| Failure assessment, planning policy (`planning/recovery.py`, `planning/policy.py`) | none | `assess_failure`, `verify_action_result`, `should_plan` | tracker, registry | precedence of rules | the category fits the error |
| Recognition, VAD, wake word (`stt`, `vad`, `wakeword`) | numerical models | `transcribe`, `is_speech`, `predict` | runtime | none of order | outcomes |
| Settings, CLI, bootstrap (`settings/loader.py`, `app/cli.py`, `app/bootstrap.py`) | none after start | load, merge, wire | all | precedence of layers | documented precedence |
| Other tools, output, metrics | none | single calls, formatting, logging | registry | none of order | results |

How they interact.  The main thread runs `JarvisRuntime.run`: a cycle per
command.  The barge-in thread calls `_on_barge_in_trigger`, which stops the speech
and moves the state machine; the console thread fills a queue and stops speech;
the scheduler thread claims due tasks from SQLite into a queue that the main
thread drains while it waits for the wake word.  The registry is called by the
main thread only, but on behalf of two callers with different plans: the fast
path, which begins a one-step request, and the agent, which begins its own.

## 2. Plan

1. `Confirmation`, `PlanTracker`, `ToolRegistry` (composes both): the authority
   to act.  *Done.*
2. `AgentState`, `BargeInMonitor`, `Runtime` (composes both with conversation,
   text, reminders): the life of a turn.  *Done.*
3. `ConfirmationProofs`, `PlanTrackerProofs`, later `SchedulerProofs`: type
   correctness, the safety invariants of 1 and 4 and the refinement of 4.  *Done.*
4. `Scheduler` (store, engine, a restart, the runtime's drain), with an abstract
   specification of a reminder's life that it implements.  *Done.*
5. `SpeechStream` (session, worker, synthesizer, interrupt flag) and `Microphone`
   (bounded queue, choice and loss of devices).  *Done*, but for the frame timing
   of `SpeechCapture`.
6. `AgentTurn`: rounds, text that is taken back, forced delegation, response ids.
   *Done.*
7. `Memory`, `LocalRag`: conflicts and history, indexing of changing files.  *Done.*
8. `EdgeBrowser`, `EdgeWorkflow`, `EdgeLauncher`, `WindowsUia`, `GoogleCalendar`.
   *Done*; `Services` puts 5's microphone and 6 to 8 together for the model checker.
   Left: the precedence of failure categories (`planning/recovery.py`) and the settings
   merge as pure operators against reference definitions; Gmail.
9. Proofs of `ToolRegistry`, `EdgeLauncher`, `WindowsUia`, `AgentTurn` and `Microphone`.
   *Done.*
10. Proofs of `Runtime`, `SpeechStream`, `EdgeWorkflow`, `Memory`, `LocalRag` and
    `GoogleCalendar`.  *Done.*  No safety invariant of a passing run is left unproved.

The bounds are those of section 4.

## 3. The modules

### Confirmation (`confirmation/manager.py`)

`now` is the monotonic clock, `pending` is `_pending` (or `None`).  `log` is a
history variable with the outcome of every request the manager accepted; it is
what the properties talk about.  `Request`, `ApproveLive`, `RejectCode`,
`ApproveNothing`, `Cancel`, `Peek` are the methods; each first drops an expired
entry as `_clean_expired_locked` does (`Live`, `CleanLog`).  An action's arguments
are model values; `request` with an equal call returns the waiting entry, with
another call it is refused, and neither changes the manager.  Ids are positions
in the log where the code draws a uuid.

### PlanTracker (`planning/tracker.py`)

`status`, `steps`, `cur` (from 1, 0 is `None`), `revs`, `limits` and `required` are
the fields of `TaskPlanTracker`; texts are dropped, a step keeps the revision that
introduced it (`born`).  `BeginRequest`, `BeginPlan`, `RecordVerified`,
`RecordFailure`, `RecordIgnored`, `RepairResume` (retry and switch_tool),
`RepairReplace` (replace_current and replace_remaining), `CompleteStep`, `FailStep`
and `AbandonPlan` are its methods, `Advance` is `_advance`, `AuditPasses` is `_audit`.
`assess_failure` is a parameter: the set of failures and the recoverable ones.
`work` counts the attempts recorded since `begin_request`.

### ToolRegistry (`tools/registry.py`, with `fastpath/router.py` and `llm/agent.py` as callers)

Extends `PlanTracker` and instantiates `Confirmation`.  `Precondition` is
`_validate_plan_precondition`, `Park` is `_request_confirmation`, `Handler` and
`RunDirectly` are `_execute_handler`: the handler has its effect first and then the
tracker records it, so a `record_action` that raises does so after the effect.
`Approve` runs a parked action without another precondition.  `turn` says whose
call it is.  `runs` counts the executions of each accepted request, `acted` the
direct runs in a required request, `last` describes the last run.

### AgentState, BargeInMonitor, Runtime

`AgentState` is the transition table.  `BargeInMonitor` has the thread's position
(`mon`), the three events, the result and the error as separate variables, set one
after the other as the code does.  `Runtime` has the main thread's position `at`, the
state machine, the conversation (`conv`), the active command (`cmd`), the locals of
a turn (`turn`), the held capture, `tts_enabled`, whether a confirmation is pending,
the queue of typed text and the reminders ready to be drained.  `heard` is a history
variable: a capture that has not been transcribed yet.

`Conversation` and `Turn` are the fields of the conversation and of a turn, `Place` the
main thread's positions.

A step of the main thread goes to the next point where another thread can make a
difference.  In particular the trigger callback reads the state and moves it in
two steps (`CallbackReads`, `CallbackActs`), and so does the cancellation of a stream
(`CancelReadsState`, `CancelPauses`); reading `triggered`, stopping the monitor and
joining it are separate.  Every `_transition` is `Move`, which raises when the table
refuses; a raise leads to `recover`, as `run` does with the errors it catches.

What is abstracted: recognition, the model and the tools are nondeterministic
outcomes, failures included.  Text queued before a microphone read is seen by that
read: looking, reading and what follows are one step, because text typed in
between could as well have been typed afterwards.  A round of tools makes one call.
Conversations are enabled.  The turn counter is capped at `MaxTurns`; the code
lets it go on while a confirmation is pending and tests `>=` only.  The two
transitions of the recovery are one step, as no other thread moves the state then.

### Scheduler and ReminderDelivery (`scheduler/store.py`, `scheduler/engine.py`, `app/runtime.py`)

`tasks` is the SQLite table, which survives a restart; `queue` is the engine's queue,
`batch` what `_run` has claimed and not put yet, `drained` what the loop of
`_deliver_due_reminders` has left to announce; `at` is the main thread.  `Schedule`,
`FindToCancel` with `CancelTask`, and `SnoozeTask` are the tools, `Claim` is `claim_due`
(`First` its query, `AfterNow` is `_next_time`), `Put`, `Drain` and `Tell` move a reminder
on, `Recover` is what is left of a round whose announcement raised, `Ends` loses what
was in memory.  `sent` (what was claimed, in order) and `told` (what was announced) are
history variables; the queues hold positions in `sent`.

A transaction is one step, and reading the clock just before it is part of it.
The clock does not go back.  Messages and `last_run_at` are dropped; daily and
weekly are periods; whether reminders are spoken changes only by a command, which
takes a conversation.  With speech on, the announcement raises (section 6), at the
greeting outside of any handler.

`ReminderDelivery` is what a user may rely on: the fate of each claimed reminder,
announced one at a time in order, dropped only together with all that wait before
it.  `Delivery` maps the scheduler to it by computing `fate` from `told` and the three
queues.

### SpeechStream (`tts/synthesizer.py`, `app/runtime.py`)

`flag` is `_interrupt_event`, `last` is `_last_timing.interrupted`, `music` says whose file
the mixer's one channel plays.  A session has its queue (0 is the sentinel), the
fields of `StreamingSpeechSession` and two histories; `voice[k]` is where its thread
is, `voice[0]` the main thread in `_speak`.  `Call`, `Fetch`, `Load`, `PlayEnds`,
`PlayStopped` and `SpeakFails` are the stages of `speak`; `Get` and `Back` are the loop of
`_run` around it.  The main thread opens a session with the first chunk of a reply
(`OpenSession`), feeds it (`Enqueue`), cancels it for a tool call (`ToolCall`,
`CancelReturns`), finishes it (`AgentDone`, `FinishReturns`, `FinishTimesOut`, `GiveUp`)
or loses it when the agent raises (`AgentFails`).  `Stop` is everybody else's.

The joins may time out whenever the thread is still alive, so a thread can be
`Left`: then two voices share the mixer and the event.  A stop between the look at
the event and the start of the music counts as one that comes while it plays.  The
mixer reports silence when a file has ended, was stopped or was unloaded by another
voice, and the code cannot tell these apart; `unheard` can.  What is kept as history is
kept only of a voice that began alone and was not left (`sole`), which is what the
properties speak of.  A session that is over and let go of gives its number back,
so a behaviour has any number of replies.

### EdgeBrowser and EdgeWorkflow (`edge_cdp/controller.py`, `edge_cdp/workflow.py`)

`pages` is the browser: which page objects are open and what they show, changed by
`PageChanges`, `PageOpens`, `PageCloses` and `ConnectionLost`.  `ctl` is what the controller
remembers: `tabs` (`_tabs`), `refs` (`_page_refs`), `selected` and `elements`.  Its methods
are operators on that record (`Listed`, `ListedElements`, `Resolved`, `Purged`), because
the coordinator makes several calls in a row without a lock; `ListTabs`, `ReadPage`,
`SelectTab`, `CloseTab`, `Reconnect` and `CloseBridge` are those its callers see.  A
reference denotes an element when the fingerprint of what is there now is the one
that was noted (`Resolvable`).  `Agree` says that tabs and pages refer to one another
and every element to a tab; `Over` is how a dictionary takes new entries.

`hints` is `_hints`, by which a stale reference is found again: `Recovered` is the scoring
of `_recover_element` with its thresholds.  `flow` is the workflow.  A click or a fill is
`Preflight`, `CheckElement`, `Clicks` or `Fills` (or `ActionFails`), then `SettleClick`,
`SettleFill` or `SettleFails`, and pages change between these.  `acted` notes what was
meant and what was hit; `SameThing` says what finding an element again may give
instead of it: something of its kind with its target, or with its label if it has no
target, or, where there is a placeholder, with the same or similar texts.  An element's words are a set, its attributes are those the
scores and the fingerprint look at; whether it is allowed is a fact of its own, as it
also depends on others.

### EdgeLauncher (`edge_cdp/launcher.py`)

`ports` says who listens on each candidate port.  `own` is `_process`, `active` is
`_active_endpoint_url`, `at` follows `ensure_running` through reusing its process,
looking for a browser with its profile, choosing a port, starting and waiting.
Programs come and go between any two steps.  `stolen` is true once another browser
has taken the active port after it was chosen.

### WindowsUia (`windows_uia/controller.py`)

`cache` is `_cache`, `desktop` what the controls are now: a set of traits, as the
controller looks at a destructive name and at a password field separately.
`InspectWindow` hands out references that expire `TTL` later; actions go through one
and are judged by what was noted at the inspection.  `changed` is a history variable:
when a control last changed, by which what was noted can be out of date.

### Memory (`memory/store.py`, `memory/v2.py`)

`records`, `legacy`, `log` and `conflicts` are the four tables.  A key stands for kind,
scope and name; a call is one transaction, and one that raises is no step.
Remembering with a policy, setting a status, resolving a conflict in each of the
three ways and forgetting an alias are the actions.  `Tells` is what a history is good
for: each entry of an item begins where the one before it ended, and the last ended
at what the item is now.

### LocalRag (`local_rag/store.py`)

`job` follows `index_paths` file by file: the look at size and time (`SameStamp`), the
digest, the extraction with the transaction that replaces the document, the
pruning.  `files` change between any two of these, and the program may stop between
two files.  `Chunks` is `_chunk_numbered_lines`, with `ChunkEnd` and `NextStart`, as a
recursive function over the line a chunk begins at (`ChunksFrom` is its body), and
`Cited` what is asked of the result.

### GoogleCalendar (`google_calendar/client.py`)

`grants` holds what the token file, the cached credentials and the built service
allow.  A write is the request, whose answer may be lost, and the reading back; a
deletion looks the event up first (`LookUp`), by a request of its own.  Other clients
change the calendar between any two of these.  `Verified` is what is compared with
what is read: the title if it was sent, for changed times whether they are whole days,
for the times of a new event nothing; `report` keeps the call and the result, which the
message of the code does not depend on.  The description and the place of an event are
written and compared as its title is and not modelled beside it.

`Merged` and what follows it is `find_free_slots`: its loops are functions of how far they
have come (`Joined` and `Walked` are one step of them), and the days it does not reach with
`max_slots` found are cut off at the end.  Hours stand for times, by the clock of the
offset that `time_min` is given in: the code converts the busy times to it and counts the
days by it.  Only the end of the loop is by another clock, since `end.date()` is the date in
the offset of `time_max`; `ahead` says by how many hours that one is ahead, and `Visited`
which days are looked at in consequence.

### AgentTurn (`llm/agent.py`, `model_routing/router.py`)

`ask` follows a turn through requests, streams and calls.  `emitted`, `cancelled`
and `seen` are the locals of `_consume_response_stream`, `Forced` is
`forced_tool_choice`, `delegations` the records of the turn, `parent` the response id the
next turn continues.  `heard` is a history variable: the rounds whose text reached the
listener and was not taken back.  What a tool does is `ToolRegistry`.

### Microphone (`audio/microphone.py`)

`rig` says what each device would do, `device` and `configured` which one is used and
which the settings file names; `Resolve` is `_resolve_input_device`, `RecoverStream` the
recovery.  The callback of PortAudio is `Capture`, `MakeRoom` and `PutNewest`, which
take the queue's lock one by one; `TakeFrame` is the reader.  Frames are numbered.

### Services

The last eight have no state in common (none of their modules imports another's;
the tools reach each through an object of its own).  An interleaving of two of them
shows no more than each shows alone, so `Services` chooses one (`service`) and lets the
others rest where they begin, and one run checks all.

## 4. Runs

Each run instantiates its modules in an MC module: `MCAuthority`, `MCToolRegistry`,
`MCRuntime`, `MCScheduler`, `MCSpeechStream` and `MCServices`, and for the findings about
one service `MCCalendar` (which also holds the calendar's queries) and `MCMemory`.

| Run | Instance | Shows |
|---|---|---|
| `authority` | the manager: a standard and a high-risk tool, two argument values, two codes, two wrong codes lock, clock to 3, two accepted requests; the tracker: two tools, a recoverable and an unrecoverable failure, up to three steps, one repair per step, two revisions, and the fast path's limits | an approval is in time and by its own code (`ApprovedLegally`); the open request is exactly what is held (`OpenIsHeld`); outcomes are final (`SettledOnce`); asking again changes neither deadline nor attempts (`DeadlineFixed`); steps in order, repairs always possible when asked for, completed plans pass the audit, bounded work, evidence kept, closed plans stay closed |
| `registry` | an ordinary and a gated high-risk tool, two requests, two-step plans | an accepted request runs once exactly if it was approved; a required request runs a bounded number of actions |
| `runtime` | two turns, one tool round, one text, one reminder; six configurations of streaming, interruptions, spoken reminders and join timeouts that elapse | see below |
| `scheduler` | two reminders, once or every time unit, claimed and announced two at a time, clock to 2, each snoozed once, one restart besides the crashes at the greeting | claims in the order of their times; once per occasion; the scheduler implements `ReminderDelivery`; what is due is settled |
| `speech` | a session of up to two chunks of one or two parts beside one that was left, any number of replies, streamed or not, stops at any time | an uninterrupted reply has been heard in full and in order (`FinishedMeansHeard`); after a cancellation at most the chunk already taken is begun (`CancelSpeaksNoMore`); a stop ends the chunk (`StopEndsChunk`); the threads of finished and cancelled sessions end (`WorkerEnds`) |
| `repair_first` | the registry instance | finding: an action runs while the plan waits for a repair |
| `reminder`, `discard`, `crash` | the runtime in the default configuration | findings, section 6 |
| `calendar_days` | two titles, otherwise the calendar of `services` | finding, section 6 |
| `services` | see below | twelve invariants, one or two for each service |
| `memory_conflict` | one value, two items of different kinds, two conflicts | finding: a pending conflict cannot be decided any more |

The run `runtime` checks five invariants (the loop matches the state machine; a
command lives in one conversation and cycle; the microphone has one reader; with
buffered replies the only refused transition is ending the session while
interrupting, apart from the announcement of a spoken reminder, of which the run `reminder`
speaks; and nothing said is dropped otherwise) and three liveness properties
(typed text is read, turns end, waits for the monitor end).

Two of the properties exclude `slow`, the configurations in which the join and wait
timeouts elapse before the monitor ends: then a monitor may outlive its turn by
design of the timeouts, its start is refused and speaking fails; `MonitorWaitEnds`
and `CommandInConversation` cover them.
`OnlyEndIsRefused` and `InterruptionProcessed` are about buffered replies; for
streamed ones the run `discard` shows that they fail.

The run `authority` exercises the manager or the tracker, which have no state in common;
`registry` has both with their callers.

The run `services` checks, of the browser bridge, that its tables never point to
what another has forgotten (`ReferencesAgree`), that a click or a fill hits what its
reference meant through stale references and recovery (`ActsOnWhatWasMeant`), and
that a completed workflow is the one that was verified (`CompletedIsVerified`); of the
launcher, that it hands out the browser with the assistant's profile
(`HandsOutOurBrowser`); of UI automation, that what is judged is out of date by less than
the lifetime of a reference: a control that has been destructive, or a password field,
for so long is not pressed, or written, through any (`ActsOnWhatWasInspected`); of memory, that the
history leads to what an item is now (`HistoryLeadsToPresent`); of the index, that
it follows the files (`IndexFollowsFiles`) and leaves out no line
(`EveryLineIsCited`); of the calendar, that the slots it finds are free, long enough
and the first there are, none left out but those that lie after the date of an end that
is given in an offset behind the start's (`SlotsAreFree`); of the agent, that only the last response is
heard (`HeardIsTheReply`) and that a request for a model is honoured
(`ExplicitRequestHonoured`); of the microphone, that frames stay in order
(`FramesInOrder`).  Its instance: two pages, five elements in three layouts (two links
with the same words and different targets, two buttons that differ by permission
only), two tab and three element references, two changes outside, workflows of two
steps; two ports and five events; two controls, lifetime two, clock to three; two
items and one name, at most two entries, two history rows and two conflicts; two
files, five texts (two chunks, a chunk of one wide line, a secret, nothing, too
large), three writes; two events of one title in two days of four hours, two edits, three
queries with the end in the offset of the start, in one ahead of it and in one behind, by
which the second day is not looked at; two rounds,
two calls, two turns, one delegation; two devices, a queue of two, four frames, one
change of the devices.  About 1.2 million states.

The definitions `ConfTypeOK`, `PlanTypeOK`, `SchedTypeOK`, `SpeechTypeOK` and `TypeOK` say
what the variables hold; the first three are proved, with `BoundInv`, `QueueTypeOK` and
the like for the modules of section 7, and none is spent a run on.

Why the bounds are enough.  The second request meets everything the first can
leave behind (an expired, locked, approved or waiting entry), and two codes are
needed to answer with the code of another request.  Three steps give a repair a
completed step before and a pending one behind it; two revisions let a plan be
repaired, fail again and exhaust its budget.  Two turns per conversation give a
first turn, a last one and one beyond the limit; a monitor of a former turn can
meet the next.  One text and one reminder suffice, as each is looked for at the
same places whether there are others or not.  What needs two reminders (which of a
batch is lost) is the scheduler's matter: two fill a batch, can be due at the same
time, and be left over from a round that raised.  One thread that is left meets
the next session, the next plain reply, or is met by its own successor; two chunks
let one lie behind the one that is spoken, two parts let a stop fall between them.
Two changes outside let a page change after an element was listed and again after it
was found; two tabs let a tab take the place of one that is gone.  Four frames
overflow a queue of two twice.  Two rounds let text be taken back and a call be
forced in a round that is not the first.  One history row less than there are
changes cuts the history; two entries let an item be refused for a name.

## 5. Fairness

Weak fairness of the main thread, of the trigger callback and of a monitor that
captures, has been told to stop or is on its way out: threads are scheduled, an
utterance is cut at `max_utterance_seconds`, the model, the recognizer and the tools
have timeouts.  Nothing is assumed of the user, the reminders or a listening
monitor.  The scheduler
has weak fairness of the engine's thread, of the delivery, of a cancellation that has
begun and of the end of a conversation; starting, waking and stopping the program
is left to the user.  The speech output has weak fairness of the threads of its
sessions: waiting for audio and playing have timeouts, after which `speak` raises.
Nothing is assumed of the main thread or of the mixer, which may play for ever.
The services are checked for safety only.
`TextIsRead` and `TurnEnds` leave out the configurations with interruptions,
as a user may interrupt every reply for ever (`_after_turn` then processes the
interruption before it looks anywhere else), and `TextIsRead` those with spoken
reminders, each of which raises (section 6) before the queue is looked at.

## 6. Findings

* `reminder`: with `announce_with_tts = true`, the default, a due reminder attempts
  SLEEPING to SPEAKING, which the table lacks.  `InvalidStateTransition` sends the
  loop to recovery; during startup it ends the program.
* `discard`: while a reply streams, an interruption followed by a tool call makes
  `_on_tool_event` attempt CAPTURING to EXECUTING_TOOL; the recovery discards the
  captured utterance, which a comment says never happens.
* `crash`: `_recover` calls `barge_in.stop`, which raises the error a former monitor
  stored; nothing catches it and the program ends.
* `repair_first`: "requires repair before another action tool" is raised after the
  action has run, for an approved action and for a plan the agent made without
  being required to.
* `memory_conflict`: once the item of a pending conflict is changed by another call
  (a status, a replacement, another conflict's resolution), `resolve_conflict` refuses
  every resolution, keeping the present value too.  The conflict stays pending,
  counts against `max_conflicts` and is answered again to whoever remembers the
  candidate.
* `calendar_days`: `find_free_slots` counts days by the clock of `time_min` and ends at the
  date of `time_max` in the offset that one is given in (`google_calendar/client.py:915`).  From
  2026-08-03T09:00+09:00 to 2026-08-03T23:30Z, which is 08-04T08:30+09:00, with hours from
  06:00 to 18:00 and 60 minutes, 08-04 is not looked at and the slot at 06:00 is missing.

Seen while modelling, without a run: `cancel` checks the status in one critical
section and writes it in another (`scheduler/store.py:285-297`), so a reminder that was
cancelled with success may have been claimed in between and is announced; `snooze`
makes completed and cancelled tasks active without looking at `max_tasks`
(`scheduler/store.py:304-327`); a claim is committed before it is announced, so a restart
loses what is in the queue (the table calls it completed); `wait_for_result` may find the finished
thread still alive and return nothing (`bargein/monitor.py:337-340`); an approved
action is executed although its plan was closed meanwhile (`tools/registry.py:869`);
a stop that comes while no part is being fetched or played, so between two chunks of
a streamed reply, is cleared by the next `speak` and the reply goes on
(`tts/synthesizer.py:505`); when the agent raises while its reply is spoken, the session is
neither finished nor cancelled and its thread waits for its queue for ever
(`app/runtime.py:1387`), and a thread that outlives the join of its cancellation speaks
into the next reply (`tts/synthesizer.py:671`);
`blocked_tools` of a recovery report is advice the registry does not enforce; a pending
confirmation keeps a conversation open beyond `max_turns` (`app/runtime.py:459`).

In the browser bridge: an action that was performed is not recorded when its workflow
expired, was completed or is full (`edge_cdp/workflow.py`, `_record_step`), or when the
connection is lost while the tabs are listed again, although the class promises the
evidence of every action; the page may change between the last check and the click;
a text box without label and placeholder can be found again as any other that
matches in shape.  The launcher takes whatever browser answers on its port after it
started its own (`edge_cdp/launcher.py:1297`), and trusts its own process together with an
active endpoint that has changed since (`edge_cdp/launcher.py:962`).  UI automation judges
destructive controls and passwords by what was cached, and takes an error of `exists`
for an existing control.  Memory counts only its own table against the limit when an
alias is added, and both when an item is.  The microphone validates the device before
the part that recovers, so a device that vanished ends the start
(`audio/microphone.py:1080`); a recovery also rewrites a device that was named, where the
docstring speaks of a stale number (`audio/microphone.py:562`), and leaves out a name
without leaving out its index; frames of a closed stream are read from the next one.
The agent forces a delegation whose arguments were refused again until the rounds
are used up; an explicit request with routing disabled still tells the model to call
a tool that is absent.  The index keeps a document whose file has become sensitive or
empty.  A calendar status replaces the credentials and not the service, so
`write_ready` can be reported with a service that may only read; an insertion whose
answer was lost is made twice when it is tried again.  The answer to a write says that
it was made, looked up again and verified whatever the comparison gave
(`google_calendar/client.py:1106`, `1259`, `1327`), and the comparison leaves out the times: an
event that another client moves before it is read again counts as verified.

## 7. Proofs

`ConfirmationProofs`, for every set of tools, arguments, codes, time limits and
attempts, from `ConfirmationAssumption`.  The inductive invariant `ConfInv` adds
`CodeInv` to the checked properties (a high-risk request has a code; an open one
has attempts left) and uses both halves of `OpenIsHeld`: only because the entry that
`approve` takes is the open request with its deadline, code and failed attempts does
comparing them with the entry say something about the request.
Proved: `ConfInvariant`, `ApprovalIsSound`, `NoRequestForgotten`, and the action
properties `OutcomeIsFinal` and `DeadlineIsFixed`.

`PlanTrackerProofs`, for all limits, tools and failures, from `TrackerAssumption`.
`PlanInv` is the type invariant, `StepsInOrder`, `RepairIsPossible`,
`CompletedPassesAudit`, and three strengthenings: the current step has the status
the plan's status implies (`ActiveStep`), the plan is within its limits
(`WithinLimits`), and the work so far is at most the completed steps plus the
revisions (`WorkCounted`), from which the bound on the work of a request follows although
a replacement starts new steps with fresh budgets.  Proved: `PlanInvariant`,
`OrderIsKept`, `NeverStuck`, `CompletedIsProved`, `WorkBounded`, and the action properties
`EvidenceIsKept` (a repair cuts behind the completed steps, which are those before the
current one by `StepsInOrder`) and `ClosedIsFinal` (only a plan that is being worked on
has a current step to fail, complete or repair).

`SchedulerProofs`, for all limits, periods, delays and numbers of tasks and restarts,
from `SchedulerAssumption`.  `FlightInv` says that what is in flight (round, queue and
batch, in this order) are the last claims, consecutively, and that what was
announced lies before them; the fate of every claim then follows from one number,
`Settled`, and a step of the scheduler is a step of `ReminderDelivery` or none
(`SchedulerDelivers`).  `ClaimInv` adds that every active task lies after all claims and
after the clock of its own last claim (`Timely`), which is what makes the claims
ordered (`OrderOfClaims`) although they are limited and times are moved, and counts
the claims of a one-time task against its snoozes (`Counted`, for `NoClaimTwice`).  That
`_next_time` lies after the clock is a lemma (`NextIsLater`).

`ToolRegistryProofs`, from `RegistryAssumption`, which includes the other two.  It
instantiates `ConfirmationProofs` and extends `PlanTrackerProofs`.  `ManagerSteps` says what a
step of the registry is to the manager: nothing, an operation that approves nothing,
a request, or an approval that runs what it approves.  From this the registry
implements the manager (`RegistryImplementsManager`) and the tracker
(`RegistryImplementsTracker`), so all that is proved of them holds inside it.
`RegistryInv` adds that a required request has acted at most as often as the tracker
counted work (`RunsAreRecorded`), because the precondition lets an action run only while
a step is being worked on, where `RecordAction` counts it; and that every accepted
request has its count of runs (`RunsCounted`).  Proved: `ActionsBounded`, `ApprovedRunsOnce`.

`RuntimeProofs`, for every set of configurations, every turn and round limit and every
bound on texts and reminders, from `RuntimeAssumption`.  `RuntimeInv` is built in layers, each
used to prove the next: where a command and a conversation may be open
(`CommandInv`); where a monitor may be alive when no join times out (`MonitorInv`: it is
gone whenever the turn goes on, because every wait ends with a dead thread or in the
recovery, which joins it); the state the loop starts from (`LoopInv`); and, for buffered
replies, the state at every place of a turn, of the callback that reads it and then moves
it, and what the monitor has heard (`BufferedInv`).  The transition table enters through one
lemma that turns it around (`Moves`: from which states each is entered).  `OneMicReader` and
`LoopMatchesState` say nothing of `slow` configurations, `OnlyEndIsRefused` and
`InterruptionProcessed` nothing of streamed replies, for which they are false (section 6).
Proved: `RuntimeInvariant`, `LoopIsReady`, `CommandsAreClosed`, `MicHasOneReader`,
`RefusesOnlyTheEnd`, `NoInterruptionIsLost`.

`SpeechProofs`, for any number of threads left behind, chunks of a reply and parts of a
chunk, from `SpeechAssumption`.  `SpeechInv` says for a voice that began alone and was not
left that no other one lives (`Alone`); that what was heard, what is in its hands and what
is queued are at every moment the chunks asked for, in order, with the sentinel behind
them once the session is finished (`InOrder`); that the parts not yet heard are those
not played but for the one the mixer has just ended; and, of every voice, that a cancelled
session's one late chunk is the one its thread had taken.  Proved: `SpeechInvariant`,
`FinishedIsHeard`, `CancelledFallsSilent`, `StopIsObeyed`.

`DesktopProofs` is about the three parts of the desktop.

* The bridge, for any pages and contents, numbers of references and changes outside,
  from `EdgeAssumption` and `WorkflowAssumption`.  The operators on what the controller
  remembers are shown to keep its tables in agreement for any record (`Bridge`), so an action
  that composes four of them needs one line.  `EdgeInv` adds that a hint is of the element
  the controller knows under that reference (`HintsTell`), that the reference a click
  found denotes the same thing as the one it was asked for (`TaskMeans`), and that what was
  checked stays so until a page changes (`CheckedInView`).  That eighty points of recovery are
  only reached by the same thing is a lemma about the scores, over all elements.
  Proved: `EdgeInvariant`, `TablesAgree`, `MeantIsActedOn`, `CompletionIsVerified`.
* The launcher, for any ports and number of events.  `HandsOutOurBrowser` is not inductive:
  while the process it started runs, and from the choice of a port until the end of the
  wait, no other browser may be on the active port unless it was stolen (`ActiveIsOurs`).
  That the lowest port of a set is in the set is a lemma (`LowestIsIn`), by
  well-foundedness of finite sets.  Proved: `OurBrowserIsHandedOut`.
* UI automation, for any controls and lifetime: every cached entry expires one lifetime
  after its inspection, which is not in the future, and says what its control is unless
  that has changed since (`CacheKept`).  Proved:
  `InspectedIsActedOn`.

`ServiceProofs` is about five services.

* Memory, for any items, contents and limits, from `MemoryAssumption`.  `MemoryInv` adds that a
  pending conflict is about an item there is and offers something of its kind: else
  resolving it could write what no entry explains.  Appending to a history that tells, and
  cutting its oldest entries, keeps it telling.  Proved: `MemoryInvariant`, `HistoryIsTold`.
* The index, for any files, texts, limits and overlap, from `RagAssumption`.  `RagInv` says what
  a time stamp tells of a document (`StampTells`) and of the digest in hand (`DigestTells`),
  what an undisturbed call has seen and done (`SeesAll`, `Processed`), and that every
  document is whole.  That `Chunks` cover a text is proved by induction over where a chunk
  begins, as a greatest counterexample: the recursive function exists because a next chunk
  begins later (`ChunksExist`), and every suffix is covered.  Proved: `RagInvariant`,
  `IndexIsCurrent`, `ChunksCoverDocuments`.
* The agent's turn, for any number of rounds, calls and turns: while a response streams, what
  is heard and not taken back is its text or nothing (`OnlyThisRoundIsHeard`), and the
  delegations of the turn carry the tier that was asked for (`TierHonoured`).  Proved:
  `OnlyTheReplyIsHeard`, `RequestIsHonoured`.
* The microphone, for any capacity and number of frames.  `QueueInv` adds to the order where
  the newest frame is in each stage of the callback (`NewestIsKept`), that a frame removed
  to make room is counted when its place is filled (`LossIsCounted`), and that a callback
  that made room finds it (`CallbackInStream`): the reader only removes.  Proved:
  `FramesKeepOrder`.
* The calendar, for any events, working hours, durations and limits, from
  `CalendarAssumption`.  The state part is small: the slots shown were computed from a finite
  set of well-formed times (`SlotsWereFound`, in `CalendarInv`).  The rest is about the algorithm,
  with a lemma per stage.  Every finite set of times can be sorted (`SortedIsInOrder`: a
  smallest set that cannot can be sorted without its last member, which then goes behind).  A function defined by its
  predecessor is what its steps make it (`StepByStep`), which each later induction uses.  After
  joining i busy times the merged ones are apart and in order and cover the same hours
  (`MergesOneMore`, `MergedCovers`); after walking past i of them none that
  begins within the day reaches beyond the cursor, and the list holds the room before it
  (`WalksOneMore`); so a day lists its free beginnings (`DayIsListed`); the days that are looked at
  follow one another, one that is not adds nothing (`AllDays`), and all days with a free
  beginning are looked at unless the end is in an offset behind the start's
  (`FoundAreFree`); and of a list without repetitions the first `MaxSlots` are those with fewer
  before them (`PlaceInList`, `FirstOfList`).  Proved: `CalendarInvariant`, `OfferedAreFree`.

Three things the models had to be put differently for, without saying less.  The
community modules' `@@` on functions cannot be expanded by the provers, so dictionaries are
updated by `Over`, `With` or a function over the union of the domains; folds and
sorted sequences take an operator, so the loops of `find_free_slots` are recursive
functions and its sorting a choice; and `ActsOnWhatWasMeant` was stated per operation in terms that hold of the elements of the
instance only (there no two links differ in target and agree in placeholder): `SameThing` is
what holds of all elements.

Only model-checked: liveness (`TextIsRead`, `TurnEnds`,
`MonitorWaitEnds`, `DueIsSettled`, `WorkerEnds`), which is out of the prover's reach with everything
that needs ENABLED; and the six findings, which are counterexamples.

## 8. Not modelled

Not yet: the cutting of texts into chunks of speech, the timing of frames in
`SpeechCapture`, Gmail (single requests after the calendar's pattern), the categories of
`planning/recovery.py` and the settings merge.  Not at all: recognition, wake word and
voice detection (numerical), the controllers of the default browser and of windows (single
calls of the operating system), terminal and HTTP calls, formatting, search metadata
and costs, metrics, and the wiring at startup.
