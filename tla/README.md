# Verification of the AstrBot embodiment bridge

TLA+ models of the AstrBot plugin *embodiment bridge*: the server side of an
embodied client (a Quest headset with an avatar). The client is paired with the
server, opens a session, starts voice or text turns, reports touches of the
avatar and what became of the actions it was sent, and reads everything the
server has to say from one SSE stream per session. An operator turns the
service on and off, creates pairing credentials, chooses the identity and the
persona of the avatar and saves settings, in a dashboard and in the panel of a
plugin series. The models cover the parts of the plugin in which concurrency,
cancellation, bounded buffers, failing steps and retries meet; TLC checks them
on small instances, and TLAPS proves the most important results for every
instance.

Paths are relative to the root of the repository; `core/` stands for
`src/core/`, and so on.

## 1. How the program runs

The plugin is one asyncio event loop. Nothing runs in parallel but a few file
writes in threads that a task awaits: a task runs until an `await` really
suspends it, and then another ready task runs. A step of a model is therefore
*what a task does up to its next suspension*.

Which awaits suspend is the first thing the models rest on:

* `async with session.lock` and `async with self._condition` never suspend. No
  body of `session.lock` in `core/session_manager.py` awaits anything, and no
  body of the queue's condition awaits anything but `Condition.wait`, which
  gives the lock back. Both locks are free whenever someone asks for them, and
  asking for a free `asyncio.Lock` returns at once.
* `await sessions.emit(...)` suspends in one case: a *critical* event (one of
  `CRITICAL_EVENT_TYPES`) finds the queue full of critical events and waits in
  `BoundedEventQueue.put`. A droppable event is dropped instead.
* `close_session` suspends only while it waits for tasks that it cancelled.
* A save of the host's configuration suspends: it takes the values into memory
  at once or from a thread, and then writes its file
  (`core/config_persistence.py`). It is done, or fails, which takes the values out
  again, or the host answers that it was superseded, which leaves that to the
  caller. `_config_save_lock` (`_save_lock` in `core/operator_settings.py`) is
  held across it, with one exception: the save of a derived public URL
  (`main.py:780`). So is `_identity_sync_lock` by what changes the identity.
* Start, stop and close of the listener, the guardian and the relation plugin,
  providers (STT, LLM, TTS), the hooks of other plugins, and awaiting another
  task suspend.

So the critical sections of the session manager and every method of the pairing
manager are atomic, and what has to be explored is the order of whole
operations, and the resumption of those that waited.

## 2. Inventory

| Part | Source | State | Operations | Modelled by |
| --- | --- | --- | --- | --- |
| Session: turns and stream | `core/session_manager.py`, `transport/http_sse.py` | `current_turn`, `interaction_turns`, `generation`, `closed`, `stream_attached`, the queue and its waiters | begin a turn or an interaction, complete, cancel, close, emit, attach, read, detach | `EventStream` |
| Session: action lifecycle | `core/session_manager.py` | `action_lifecycles`, `action_receipts`, `action_facts` | plan, discard a plan, record a receipt, snapshot of facts, expiry | `ActionLifecycle` |
| Session: registry and interactions | `core/session_manager.py`, `adapters/identity.py` | `_sessions`, the gate, the granted context, seen event ids, turns of interactions | start, resume, close, close all, terminate, interaction, interrupt | `SessionRegistry` |
| Session: history, spatial context, playback receipts | `core/session_manager.py` | history, spatial context, receipts | record, snapshot, append | not modelled |
| Audio input | `core/session_manager.py`, `core/turn_orchestrator.py`, `adapters/streaming_stt.py`, `adapters/funasr_realtime.py` | the upload, the PCM queue, the STT task, the launch gate, the recogniser's socket | start, chunk, end, attach the recogniser, finish or fall back to the file | `RecogniserSession`, `SpeechInput` |
| Turn orchestrator | `core/turn_orchestrator.py` | flags of `TurnState`, the turn's tasks | run a voice, text or interaction turn, the explicit action beside it, quick replies, terminal errors, interrupt | `TurnDelivery` |
| Speech output | `core/turn_orchestrator.py`, `adapters/tts.py`, `adapters/voice_hub_tts.py` | the producer task, its queue | synthesize a sentence, fall back, put, end | `SpeechOutput` |
| Quest enriched chain | `adapters/quest_enriched_pipeline.py`, `adapters/astrbot_pipeline.py` | `_current_event`, the contribution cache, marks on events | generate (hooks, model call, response hooks), abort the current event | `QuestChain` |
| Service control, listener | `core/service_control.py`, `transport/builtin_listener.py`, `main.py` | `enabled`, the gate, the listener, the persisted switch and port | turn on and off, change the port or the URL, start and end of the plugin | `BridgeService` |
| Pairing | `core/pairing.py`, `transport/pairing.py` | pairing sessions, token and code index, rate limits | create, exchange, revoke, expire, reconfigure | `Pairing` |
| Identity | `core/operator_settings.py`, `core/server_identity.py`, `adapters/identity.py`, `adapters/identity_control_plane.py` | the configuration, the identity file, the guardian's bindings, the adapter | save, select a person, refresh, clear | `IdentitySync` |
| Settings | `core/operator_settings.py`, `series_webui.py` | the configuration in memory and on disk, what the components work with | one save per form, the panel's switches | `OperatorForms` |
| Series policy | `series_control.py`, `main.py` | the overlay, its mode and file | patch, reset, switch, native write | `SettingsPolicy` |
| Personas | `core/persona_service.py`, `core/persona_profiles.py` | conversion jobs, drafts, profiles, the active one | convert, cancel, save, activate, delete | `PersonaService` |
| HTTP routes | `transport/http_sse.py` | none of its own | one per request | the environments of the models |
| Explicit actions, skills, intents | `core/explicit_action_parser.py`, `core/avatar_skills.py`, `core/intent_parser.py`, `core/interaction_policy.py`, `adapters/fast_action.py` | none | parse, choose | their results are inputs |
| Avatar action tool | `core/avatar_action_tool.py` | the reservation of a turn's intent | plan an action from the model's tool call | not modelled |
| Providers and context | the other `adapters/` | caches | calls of the host | their results are inputs |
| Hook profiler | `core/plugin_hook_profiler.py`, `main.py`, `core/operator_settings.py` | its wrappers in the host's registry of handlers, `enabled` | install, uninstall, configure, refresh after a load | `HookProfiler` |
| Migrations, logs, traces, models, pages | `core/*_migration.py`, `core/*log*.py`, `core/models.py`, `pages/` | | | not modelled |

### Interaction of the parts

```
 client ── POST /turn/start, /audio/*, /text, /interaction, /interrupt, /session/*
   │              │
   │        http_sse routes ── session manager (registry, turn slots, queue)
   │              │                      ▲          │
   │        turn orchestrator ── emit ───┘          │ get
   │          │   ├ STT worker ── recogniser        ▼
   │          │   ├ runner (STT → decide → text → audio → reply.end)
   │          │   ├ TTS producer ── voice hub, AstrBot    SSE stream ──► client
   │          │   ├ explicit-action task, quick-reply task
   │          └── quest chain (one slot for all sessions) ── hooks, model
   └── POST /action/result ── action lifecycle (receipts, facts)

 dashboard, panel ── transport/pairing, series_webui
      ├── service control ── listener, session gate, pairing manager
      ├── operator settings ── configuration, components in force
      │       └── identity: configuration → guardian → identity file → adapter
      └── persona service ── jobs, profile files, language model's prompt
 series kernel ── series_control ── overlay, or the configuration itself
```

Calls go downwards; what comes back is a return value, an exception or a
cancellation (`task.cancel()` by the session manager when a turn is revoked).
State is shared by the tasks of several actors in these places: the queue of a
session, the flags of a `TurnState`, the slot `_current_event` of the quest
chain (the turns of *all* sessions), the PCM queue and the audio queue of a
turn, the gate and the registry of the sessions, the exchange URL, and the
configuration in memory, which every save writes to the file as a whole.

### What is hard here, and what makes each part correct

* **Queue and turns.** A producer that waits for room goes on in another world
  than the one it went to sleep in. Correct means: the bound holds in spite of
  several producers; no wake-up is lost; after an interrupt has returned
  nothing of the turn is in the queue, although turn ids may be used again and
  the discard works by turn id; critical events keep their order.
* **One turn.** Two tasks share the single `avatar.intent` through four plain
  flags, each with a suspension between reservation and emission, and either
  may fail or be cancelled. Correct means: one intent, one truthful `reply.end`
  that closes the turn, and a `reply.end` on every failure path.
* **Speech.** The recogniser's final races the grace deadline, a full queue,
  the file fallback and the replacement of the turn; on the way back two
  providers take turns and a bounded queue parts the producer from the runner.
  Correct means: heard and spoken in order, once, and nothing left open behind
  a turn.
* **Action lifecycle.** Receipts are repeated, reordered and altered, and
  plans, receipts and facts expire by different clocks and are evicted by
  different limits. Correct means: one story per action, facts are verified
  outcomes, retries are idempotent.
* **Quest chain.** One slot for all turns, emptied by whoever leaves. Correct
  means: no stale event in the slot, an interrupted turn's event is aborted,
  and a turn is only silenced by its own hooks or its own interrupt.
* **Registry.** Starts are authorized before they are admitted, and closes wait
  for tasks. Correct means: nothing is open behind a closed gate, a granted
  session is of the configured identity, a turn is current until it ends.
* **Switch, listener, pairing.** Every operation has four to seven steps that
  may fail, and so may the rollback. Correct means: gate, sessions, listener
  and file agree with the switch, a credential that waits can be exchanged at
  the URL it was printed with, and its end is final.
* **Identity.** Four places change one after the other. Correct means: sessions
  are authorized exactly when all of them have the identity, and giving up a
  relation revokes what was granted for it.
* **Settings.** The host takes a save into memory before it writes the file,
  and whatever is in memory is written by the next save. Correct means: a save
  that failed leaves nothing behind, and what is in force is what is saved or
  managed.
* **Personas.** The id of the active profile is read from the configuration in
  memory, where a save that may still fail has put it. Correct means: one
  conversion at a time, no stuck job, and the prompt in force is that of the
  profile that is active on disk.

Every hazard is listed in `PROJECT.json` at its line, with the properties that
cover it or the reason why none does.

## 3. Modules

| Module | What it is |
| --- | --- |
| `EventDelivery` | abstract: what the event stream of a session promises its client |
| `EventStream` | turn slots, queue, waiters and SSE stream of one session |
| `EventStreamProofs` | its inductive invariant and safety theorems, and that it implements `EventDelivery` |
| `ActionStory` | abstract: what a session promises of the actions it asked for |
| `ActionLifecycle` | plans, receipts and facts of one session |
| `ActionLifecycleProofs` | its inductive invariant and safety theorems, and that it implements `ActionStory` |
| `SpeechOutput` | the TTS producer of a turn, its two providers and its queue |
| `TurnStory` | abstract: what a client may rely on in the events of one turn |
| `TurnDelivery` | what one turn says, in which order, and who owns its intent; extends `SpeechOutput` |
| `TurnDeliveryProofs` | its inductive invariant and safety theorems, and that it implements `TurnStory` |
| `Dictation` | abstract: what a spoken turn promises |
| `RecogniserSession` | one session with the realtime recogniser |
| `SpeechInput` | upload, PCM queue, STT worker and runner of a voice turn; extends `RecogniserSession` |
| `SpeechInputProofs` | its inductive invariant and safety theorems, and that it implements `Dictation` |
| `QuestChain` | the turns of all sessions and the chain's one event slot |
| `QuestChainProofs` | its inductive invariant and safety theorems |
| `SessionRegistry` | sessions from start to end, their gate, grants and interactions |
| `SessionRegistryProofs` | its inductive invariant and safety theorems |
| `Pairing` | the pairing credentials |
| `BridgeService` | the switch, the port, the URL and the listener; extends `Pairing` |
| `BridgeServiceProofs` | the inductive invariant and safety theorems of both |
| `IdentitySync` | the identity in its four places |
| `OperatorForms` | the forms of the dashboard and the switches of the panel |
| `SettingsPolicy` | the settings with two masters: dashboard and series kernel |
| `PersonaService` | conversion jobs, drafts, profiles and the active persona |
| `HookProfiler` | the wrappers that the plugin's lives leave in the host's registry |
| `OperatorProofs` | the inductive invariants and safety theorems of the last five |
| `MC...` | the instances for TLC |

`OperatorProofs` extends five modules that share no state. Where they would
share a name, a prefix keeps them apart, as in `identityVars`, `FormsInit`,
`PolicyRestart`; `PersonaService` has none.

Definitions whose comment begins with "Seeded fault" are variants of the
definition below them. Nothing uses them: they document which fault of the code
each property would find (section 6).

### EventStream and EventDelivery

| Model | Code |
| --- | --- |
| `turn[g]`, `generation` | the `TurnState` with generation `g`; `phase` tells whether its runner is at work, has completed, or was revoked |
| `current`, `interactions` | `session.current_turn`, `session.interaction_turns` |
| `items`, `arrivals` | `BoundedEventQueue._items`: a set of items with arrival numbers, since an operation only asks for the oldest of a kind |
| `waiting`, `woken` | producers inside `Condition.wait`, and those of them that were notified or cancelled but have not run yet |
| `Emit`, `ResumePut` | `SessionManager.emit` and `BoundedEventQueue.put` up to the first wait, and from a wake-up to the return or the next wait |
| `Coalesced`, `HasRoom`, `MakeRoom` | `put`: replacement of an `asr.partial`, the loop on a full queue, `_discard_oldest_droppable` |
| `BeginTurn`, `BeginInteraction`, `CompleteTurn`, `CancelCurrent`, `CloseSession` | `begin_turn`, `begin_interaction_turn`, `complete_turn`, `cancel_current`, `close_session` (and each session's part of `terminate`) |
| `AttachStream`, `DetachStream`, `Get` | `attach_stream`, `detach_stream` with `wake_putters`, `queue.get` in the stream's loop |

The turn is known by its generation, as `_is_current_unlocked` does, while
items carry their turn id in the code: `Discard` and `Coalesced` compare names,
so a discard that took another turn's items, or missed one, would be seen. A
cancelled waiter is a woken one that finds its turn stale. `Roles` are the
tasks that can emit for a turn and `Says` the class of what they emit; in which
order they say it is the matter of `TurnDelivery`. `Get` is the delivery: an
item that was taken and is lost when the connection breaks at the write is not
modelled.

`EventDelivery` is the promise without a buffer's size, a waiter or a stream:
turns open and fall silent; an event of a live turn is accepted behind all
others, at the cost of events that are not critical only; events are handed
over in the order of acceptance; when a turn is silenced everything pending of
its name goes with it. `EventStream!Promise` maps the slots to `live`, the
items to `pending` and the stream's position to `last`.

### TurnDelivery, SpeechOutput and TurnStory

| Model | Code |
| --- | --- |
| `main` | where the runner stands: `_run_audio_turn`, `_run_reply_with_fast_action`, `_decide_and_deliver`, `_deliver_decision`, `_emit_terminal_error` |
| `fast`, `fastSelected`, `fastIntent`, `intentEmitted` | the explicit-action task and `turn.fast_action_selected`, `turn.fast_action_intent`, `turn.intent_emitted` |
| `delivered` | `_deliver_decision`'s own `intent_emitted` |
| `Decide`, `Arbitrate` | the two places at which the runner asks who owns the intent, before the text and before `reply.end` |
| `chunks`, `replyEnded`, `suggest` | `audio_chunks`, `turn.reply_ended`, the quick-reply task |
| `out` | what the queue accepted |
| `producer`, `pcm` | the task and the queue of `_tts_pipeline`, with its end marker |
| `rendered`, `left` | which provider spoke each segment in how many chunks, and what of the last is not in the queue yet |
| `VoiceHubRendered`, `VoiceHubFails`, `AstrBotRendered`, `AstrBotFails` | `FallbackTTSAdapter.synthesize` and the adapters it calls |
| `Take`, `ProducerCancelled`, `GeneratorClosed` | the consumer's side of the generator, and its `finally` |

Any `Emit...` may be delayed, which stands for the wait on a full queue.
`Revoke` stands for interrupt, replacement and close: nothing is accepted
afterwards. The request is chosen at the start among all kinds, with and
without an explicit action, with and without TTS. A provider gives the audio of
a segment as a file that is read and checked before its first chunk goes out;
so it fails before that or not at all, and the other provider starts the
segment afresh. The tool of `core/avatar_action_tool.py` is left out because
its reservation cannot be reached: the quest chain gives its model no tools and
declares no supported action on the event.

`TurnStory` is what all that comes to for the client: one sequential reply, with
neither tasks nor flags, providers nor queues. The recognised text comes first if
at all; the turn's one `avatar.intent` at any place before the end; the text in
one piece, before the audio; the chunks counted from 0, none twice; after a failed
synthesis no more audio; a failure of the whole turn before any part of the
reply; and an end that reports what was said, with nothing behind it but the
quick replies. `TurnDelivery!Story` maps `out` to `said` and `current` to `live`.

### SpeechInput, RecogniserSession and Dictation

| Model | Code |
| --- | --- |
| `Upload`, `Put`, `PutTimesOut` | `add_audio_chunk` under the lock, and its put into the PCM queue outside of it with 0.25 s |
| `EndAudio`, `PutEnd`, `Launch` | `end_audio`, the end marker of `close_stt_stream_input`, `_launch` and `assign_task` |
| `worker`, `cause`, `feeder`, `hand` | `consume` and `transcribe_stream`, `feed_all`, and the chunk it holds |
| `OpenSession`, `SessionStarted`, `OpenFails` | `FunASRRealtimeSession.start` in two steps: the connection, with which the reader runs, and the run-task that is sent through it |
| `main` | `_run_audio_turn`: the grace deadline, the final or the file |
| `socket`, `started`, `pending`, `wire`, `sentences`, `terminal` | `FunASRRealtimeSession`: its socket, what waits for `task-started`, what was sent, the finished sentences, the one terminal event |

A chunk is its number and a text the sequence of chunks it was heard in, so
"in order" can be said of what is heard. The recogniser may start late or
never, finish sentences as it likes, fail or drop the connection. Uploads that
wait for room enter in any order, as with an `asyncio.Queue`; `overlapped`
records that the client sent a second chunk while one was waiting.

`Dictation` knows what was said, what of it was heard, and the text: the
recogniser hears what was said, and in order if it was sent so; a text comes from
the beginning of what was heard and is never replaced; there is one answer, after
the client has ended, and it is the text if that was taken and the file
recogniser's otherwise; nothing is heard after it. `SpeechInput!Dictated` maps
`wire` to `heard`, `transcript` to `text` and `formal` to `answer`.

### ActionLifecycle and ActionStory

Ids of plans are random in the code and never return; here they count up.
Receipt ids matter by equality only, so a client uses any id it has used or the
next fresh one, with any action it was sent, any subject and any status.
`Answer` is the decision of `record_action_result` with its checks in order.
Expiry is lazy as in the code: every operation prunes first. `log` is a history
variable, all receipts ever recorded. `IntentRefused` is the refused emit after
which `discard_action_plan` takes the plan back, `EmitCancelled` the cancelled
one after which nobody does.

`ActionStory` has no plans, receipt ids, lifetimes and limits: of each action one
story is told, step by step, and a told outcome is known at once, may be
forgotten, and then never comes back. `ActionLifecycle!Story` takes what was told
from `log` and what is known from `facts`.

### QuestChain

Each turn passes through the provider's route, its request hooks and the model
call. `Interrupt` cancels its task wherever it stands; `Unwound` is the
handler in the orchestrator that aborts "the current event" once the turn has
unwound, which may be several steps later as it awaits its action task and its
TTS producer. `Deadline` is `wait_for`, which does both at once. `HookEnds`
has a case for a hook that timed out or raised (`returns` is FALSE), after
which the code does not look at the event until the next hook is over. What
stops an event in a response hook has no effect in the code and is left out.

### SessionRegistry

| Model | Code |
| --- | --- |
| `registry`, `session` | `SessionManager._sessions`, and the `SessionState` objects, which outlive their registration |
| `starts` | requests between `canonicalize_session_request`, the authorization (which suspends) and `start_session` |
| `Interaction`, `TurnId` | `submit_interaction`: the memory of event ids, the limit, the turn named by 62 characters of the event id |
| `task` | the turns' tasks; a cancelled one is still about until it has ended |
| `closer` | `close_all_sessions`, of the service (switch, port) and of the operator (disconnect, identity), which waits for the tasks of each session it closes |
| `lost` | history: open sessions whose id a close of an older session took out of the registry |
| `late` | history: sessions that were granted an identity which had been replaced |

Voice and text turns are left to `EventStream`.

### Pairing and BridgeService

| Model | Code |
| --- | --- |
| `pairing`, `codeIndex`, `aged` | `PairingManager._sessions`, `_code_index`, the sessions past `expires_at` |
| `SweepAnd` | `_expire_locked`, with which every call on behalf of a person begins, and the end it is called for |
| `Configure` | `configure_exchange_url`, which revokes what was printed with another URL |
| `pc`, `wanted`, `undo` | where `initialize`, an operation of the dashboard and `terminate` stand, with their local variables |
| `config`, `file` | switch and port in the configuration in memory, and in its file |
| `Persisted`, `SaveFails`, `SaveSuperseded` | the three answers to `_persist_changes`: done; failed, and put back; superseded, and *not* put back (`core/service_control.py:440`) |
| `RolledBack` | the save that takes an operation back, whose failure is swallowed |
| `OtherFormSaved` | a save of any other form, which writes all that is in memory |
| `adrift` | history: settings whose last save was superseded, or whose rollback was not done, until they are saved again |
| `lock`, `TakeLock` | the listener's `_lifecycle_lock`; a stop takes the listener down at once and then waits |
| `EnableSaved` ... `DisableStopped` | `set_enabled` |
| `PortSaved` ... `PortUndone` | `set_listener_port` and its rollback |
| `AddressSaved` | the save of the listener's URL as the panel's after a port change (`main.py:780`), while the gate is still closed; how it ends makes no difference, since `_sync_pairing_transport` of the service swallows it |
| `UrlSaved` | `set_public_urls` with what its handler tells the pairing manager |
| `Gate`, `Sync` | `set_accepting`, `main._sync_pairing_transport` |

The two are composed by extension: every operation that moves, fails or stops
the listener changes the exchange URL under the credentials that wait. A URL is
known by its port. Two operations of the dashboard exclude each other by
`service._lock`; the start and the end of the plugin take no part in it. A file
that is read by a restart is the one with the last save that was done, so a crash
during a save is one before it or behind it.

### IdentitySync

A save (`SaveQuestIdentity`, or `SelectPerson` and `RefreshIdentity` once the
relation plugin has answered) marks the configuration pending, has the guardian
bind, writes the identity file and marks the configuration ready: `MarkedPending`,
`OwnerBound` or `ReadOnlyBound`, `AccountStored`, `MarkedReady`, each of which
may fail (`StepFails`).
`ClearPerson` reads what is to be preserved, has the guardian revoke and then
writes. `SessionsClosed` is the end of a handler behind `close_all_sessions`.
`MarkedUnresolved` and `SaveTrustedPlatform` do not take `_identity_sync_lock`
in the code, nor here. A client stands for the client id and the digest of its
API key, an account for bot and user.

### OperatorForms and SettingsPolicy

Both take `_persist_many` apart: the wait for the lock, the values in memory,
the file, and what is put into force and answered. `OperatorForms` has a task
per request and a field for each form: what matters is that a save commits all
that is in memory. `shown` is what the last answer about a field told the
operator. `SettingsPolicy` has the two settings that the series kernel may
manage (a switch and a number, since a malformed number makes
`_apply_series_control_runtime` raise half way), the overlay with its file and
its mode, and the kernel's native writes. Its history variables name the cases
in which the code departs from the policy; section 8 lists them.

### PersonaService

`jobs`, `tasks`, `aborting` and `cancelling` are a conversion as
`start_conversion`, `_run_conversion_job` and `cancel_conversion` see it;
`drafts` what `save_profile` may still use up. `CreateConversion`,
`SaveConversion`, `CreateManual` and `SaveManual` are the four saves of the
profile store, `work` the operation that holds `_mutation_lock`, `settings` the
save of the source persona and `initialize`, which do not take it.

The id of the active profile is there twice: `active` in memory, which every method
reads, and `committed`, which was saved last. A save puts it into memory
(`ActivationTaken`, `SaveSettings`), suspends, and is done (`ActivationSaved`,
`SettingsSaved`) or refused (`ActivationRefused`, `SettingsRefused`: failed or
superseded, both put the old id back). Whatever does not need the configuration's
lock may come between: a delete, a save of a profile, an `initialize`. What such a
step makes of an id that is not saved is history: `stale` marks a profile that was
written, or a prompt that was loaded, for another active profile than the saved one,
`orphaned` the active profile deleted in the meantime. One form at a time saves
the source persona.

### HookProfiler

`wrappers` is the host's registry: for each handler the owners of the wrappers
around it, outermost first. `Installed` and `Uninstalled` are `install` and
`uninstall` on all of it, `OwnedBy` what `_unwrap_wrapper` answers. An instance
goes from `Construct` over `Initialize` and `Terminate` to `Ended`; `saving` are
its saves that wait for the configuration's file and, if they outlive it, switch
it on or off all the same. `LoadHandler`, `UnloadHandler` and `PluginLoaded` are
the host's. `late` is history: an instance that was switched on after its
termination began.

## 4. Runs

| Run | Question | Bounds | Result |
| --- | --- | --- | --- |
| `event_stream` | Does the queue keep its bound, lose no wake-up, hold nothing of ended turns, implement `EventDelivery`, and does every producer that waits return? | 2 names, 3 turns, 2 places, 1 interaction, 3 arrivals | 134,596 states, holds |
| `action_receipts` | One story per action, verified facts, bounds, idempotent retries, and does the session implement `ActionStory`? | 2 plans, 1 place for a plan, 3 receipts, 1 fact, 4 instants | 102,829 states, holds |
| `turn_delivery` | One truthful final `reply.end`, the explicit action wins, spoken in order, every turn ends and leaves no producer behind, and does the turn implement `TurnStory` (one intent among it)? | 2 deltas, 2 segments of up to 2 chunks, audio queue of 2, all kinds of turn | 140,471 states, holds |
| `speech_input` | Heard in order, no late hypothesis, no session left open, recognition ends, and does the upload implement `Dictation` (recognised once among it)? | 4 chunks, 2 pending, PCM queue of 2, 2 uploads at a time | 224,554 states, holds |
| `quest_chain` | Is the slot never stale, is an interrupted turn's event aborted? | 3 turns, 3 hooks each | 458,404 states, holds |
| `quest_abort` | Is a silent turn silent by its own hook's wish? | 2 turns | violated, section 5 |
| `sessions` | Nothing open behind a closed gate, grants current, turns current until they end? | 3 ids, 2 objects, 2 starts, 2 accounts, 1 interaction per session, 2 event ids with one name, window of 1 | about 335,500 states, holds |
| `bridge_service` | Switch obeyed, neither a restart nor a save of another form changes anything, URL live, credentials current and their end final? | 2 ports and a proxy, 2 credentials that draw the same code, a user and the panel, 1 client, all configurations, 1 setting adrift at a time | 813,179 states, holds |
| `identity` | Authorized exactly when the saved identity is complete; does an opt-out revoke? | 2 clients, 3 accounts, 2 persons, 1 platform | 844,788 states, holds |
| `forms` | Do the components work with what is saved, do answers hold? | 2 requests at a time, 9 fields | 4,991,232 states, holds |
| `settings` | No save lost, overlay persisted, policy in force? | 2 settings, 2 limits and a malformed one | 708,548 states, holds |
| `persona` | One conversion at a time, runtime follows the active profile, no stuck job? | 2 profiles, 2 prompts, 2 conversions, 1 job remembered, 1 draft, 1 form at a time | 732,904 states, holds |

Every run explores all reachable states of its instance. In `sessions` the
count may differ by a few states from run to run, since the view leaves out
what is in objects that nobody refers to any more.

**Why the bounds are enough to meet the hard cases.**

* `Capacity = 2` (the code asks for at least 4): a queue can be full of critical
  events with a third producer waiting, hold one droppable and one critical
  event, and be emptied one by one. Nothing in `put` depends on the capacity but
  the comparison with the length, and the proofs hold for every capacity. With
  `MaxArrivals = 3` there is never more than *one* producer that waits, so TLC says
  nothing of several that compete for the same place. That `QueueBounded`,
  `NoLostWakeup` and `NothingOfRevokedTurns` hold for them too, and that they
  implement `EventDelivery`, rests on the theorems, whose proofs bound neither
  arrivals nor waiters; that each of several waiters returns
  (`BlockedEmitReturns`) is not checked. Two
  names for three turns: a name is used again while items of its first bearer
  might still be there. `MaxTurns` and `MaxArrivals` bound the length of a
  behaviour only; a producer counts as an arrival while it waits, so that a wait
  is never kept from ending by the bound.
* `LifecycleTTL = FactTTL = 1` with four instants: a plan is renewed, its first
  receipt expires, the plan expires. One place for plans with two plans: an
  eviction. Three receipts per plan: a complete story reaches the limit.
* Audio queues of two: a producer of two segments with two chunks each, or of
  four uploads, meets a full queue, with and without its end marker.
* Three turns in the chain: one that is interrupted, one whose event is in the
  slot, and one that takes the slot between them.
* Two session objects, three ids: one session is being closed while another is
  started under its id. Two event ids with one name: an interaction is
  remembered and refused.
* Two credentials that can only draw one code: it is freed and drawn again. Two
  ports: a change that fails and is rolled back. `Setups` covers a listener with
  and without TLS, a proxy, and none. `MaxAdrift = 1`: the switch or the port is
  left in memory by a save that was superseded, and written by the next one of
  another form; two at once are covered by the theorems, which know no such bound.
* Two clients, three accounts: a save of another identity is half way while a
  person is refreshed or cleared.
* Two requests at a time in `forms`: one waits for the lock, or fails, while the
  other is written; a third changes nothing since the lock admits one.
* Two conversions and one place for jobs: the second comes while the first is
  cancelled, expired or evicted.

**Symmetry** is used in runs that check invariants or action properties only,
for sets of values that occur in no order and no `CHOOSE`: subjects, turns,
session ids, objects, accounts, requests, tasks, event ids, tickets, ports,
owners of credentials (the panel may do what a user may, so the two are
interchangeable), clients, persons, limits. Runs with liveness properties use none. `sessions`
has a `VIEW` that forgets what is in objects nobody refers to; a start gives
such an object a new content before anybody reads it.

**Deadlock** is checked in `bridge_service`, `identity`, `forms`, `settings`,
`sessions` and `persona`, whose environments can always do something: a wait
for a lock that nobody gives back would show where it blocks everything, and
`NoStuckJob` says it of each job. It is not checked in `event_stream`,
`action_receipts`, `turn_delivery`, `speech_input` and `quest_chain`: there a
session may be closed for good, a turn ends, the bounds stop the counters. What
must not get stuck is stated as `NoLostWakeup`, `BlockedEmitReturns`,
`EveryTurnEnds` and `StreamEnds`.

### Fairness

* `EventStream!FairSpec`: `WF(Ready)`, the event loop runs every task that was
  made ready. The notification of a condition wakes a task for good; it stays
  in `woken` until it has run. `SF(Get)`: a client that holds the stream reads
  it; strong, since a stream that is detached and attached again disables `Get`
  in between, and the generator takes an item whenever it runs and finds one.
  `WF(AttachStream)`: the client comes back. That is an assumption about the
  client, and it is needed: see the second item of section 8.
* `TurnDelivery!FairSpec`: `WF` of the runner, of the action task, of the TTS
  producer and of the end of its generator. Providers answer, fail or run into
  their deadlines (`wait_for`), and an emit that waits for room returns by
  `BlockedEmitReturns` or because the turn is revoked.
* `SpeechInput!FairSpec`: `WF` of the handlers, the worker, its feeder and the
  runner. Every wait of theirs has a deadline, but for the end marker's, which
  needs the feeder to read on, and a feed that blocks, which TCP breaks off at
  last. Neither the client nor the recogniser owes anything.
* `PersonaService!Spec`: `WF` of each conversion's task, of its end (the
  converter has deadlines), of its cancellation, of the cancel that waits for it
  and of `close`. Nothing is assumed of the operator.

The other runs check safety only and need none.

## 5. Findings

**One turn's interrupt silences another turn** (`quest_abort`). The chain's
slot belongs to all sessions. The handler of an interrupted or timed-out turn
aborts whatever event is in it (`adapters/quest_enriched_pipeline.py:669`). That
turn then ends as a "legitimate silent turn" (line 644), without reply and
without error. Other disagreements of the code with its documents, which no run
is spent on, are in section 8.

## 6. Seeded faults

For every property of a passing run, `PROJECT.json` names a fault that the
property finds when it is put in place of the definition it varies. Examples:
`GetWithoutNotify` (the stream takes an item and notifies nobody) breaks
`NoLostWakeup` and `BlockedEmitReturns`; `CancelWithoutDiscard` (the interrupted
turn's items stay) breaks `NothingOfRevokedTurns`; `DecisionFailsAlone` (a
failed reply leaves its action task running) breaks `EndClosesTurn`;
`FastOverTooSoon` (an action task that waits for room in the queue counts as
over) breaks `TellsItsStory`; `WithinFactBoundNewest` (a full list drops the
fact just reported) breaks that of the actions;
`PutEndIfRoom` (a full audio queue gets no end marker) breaks `EveryTurnEnds`;
`PutTimesOutAlone` (a chunk without room is skipped) breaks `HeardInOrder`;
`SessionStartedUngated` (the gate is looked at when the request comes) breaks
`NothingSurvivesTheGate`; `PortUndoneSilently` (the rollback of a port does not
tell the pairing manager) breaks `UrlIsLive`; `SaveForgotten` (a failed save of the
switch stays in memory) breaks `RestartChangesNothing`; `ActivationForgotten` (a
refused activation stays in memory) breaks `RuntimeFollowsActive`; `BindingRevokedOrNot` (a guardian
that fails does not stop the opt-out) breaks `OptOutRevokes`; `RefusedOnly` (a
refused save stays in memory) breaks `AnswersHold`.

## 7. Proofs

A theorem holds for all values of the constants under the assumptions that its
modules name, which are no stronger than what the code sets:

| Assumption | Why the code justifies it |
| --- | --- |
| `CapacityAssumption`, `QueueAssumption`, `SpeechAssumption` | queues have at least one place, a reply at least one segment and a segment at least one chunk |
| `SizeAssumption`, `RegistryAssumption`, `PairingAssumption`, `PersonaAssumption` | the limits are positive constants of the code; those of `ActionLifecycle` leave a plan its three receipts. Tickets are finitely many, and the placeholders (`None`, `NoUrl`, `Panel`, `Nobody`) differ from what they stand in for |
| `ServiceAssumption` | a URL is that of a port or of the proxy |
| `TimeAssumption`, `BoundAssumption`, `PendingAssumption`, `HookAssumption` | bounds of the model and times to live are natural numbers; how large does not matter |
| `NoneAssumption` | a placeholder |

The theorems about `IdentitySync`, `HookProfiler`, `OperatorForms` and
`SettingsPolicy` use no assumption. `IdentityAssumption` and `LimitAssumption`
are there for what the constants mean; no proof cites them.

Each proof has the same shape: an invariant that is inductive, one lemma per
action that preserves it (`...Keeps`), one that collects them for `Next`, and a
few lines per theorem. What the invariants add to the properties is why the code
is right, so that is what is told here.

**EventStream.** `IInv` strengthens the safety properties with

* `Stamped`: arrival numbers tell items apart and lie behind the stream's
  position. Without it "the oldest item" is no function of the queue, and
  neither `QueueBounded` (removing the oldest item removes exactly one) nor the
  refinement goes through.
* `Fits`: the bound itself, which with `TypeOK` is `QueueBounded`.
* `Slots`: what is in a slot is a turn of the right sort that was not revoked,
  and a closed session has no turn. `NothingOfRevokedTurns` needs it: an item
  is added for a turn in a slot, and that turn must not be a revoked one.

`NoLostWakeup` is inductive with the rest because every action that frees a
place or ends a turn wakes all waiters, and an enqueue does so too.

`StreamDelivers` is step simulation: each action maps to the abstract action
its lemma is named for, and an emit that waits, a wake-up, attach and detach to
a stutter. `NamesAreSequence` and `NamesGrow` bridge the function of names and
the abstract `Append`; `DiscardIsWithout` is the reason why a discard by turn id
is the abstract `Without`.

**ActionLifecycle.** `OneStory` speaks of all receipts ever recorded, the code
looks at a plan's status only. `StatusIsLast` links the two: the status tells
which of accepted, started and an end were recorded, so that a receipt that
`Follows` the status continues the story. `FactsAreVerified` is `FactsAreEnds`
with it. `RetriesAreIdempotent` needs that a receipt of a plan is at hand as
long as it has not expired (`PlansKeepReceipts`), and that is a matter of
counting: a plan has at most three receipts (`ThreeOfAPlan`), of different ranks,
and there are at most `MaxLifecycles` plans, so the limit
of receipts never evicts one of a plan that is still there.

`TellsItsStoryHolds` is step simulation on `ActionStory`. `StatusIsLast` once more
is the link: the code's check of a receipt against the plan's status is the
abstract `MayFollow` of what was told. `NewestFactStays` says that a new fact is not
the one that the limit takes, since facts are numbered in the order they came.
A repeated receipt is a stutter or forgets what has expired.

**QuestChain.** `Entered` says that an event exists from the first hook on, and
that a turn that delivers has its verdict. With it `NoStaleEvent` is inductive:
whoever leaves the chain empties the slot, whosever event is in it, so the slot
cannot outlive its turn. The same over-eager emptying is why an interrupt must
abort its own event first, which is what `InterruptsAbort` shows to suffice.

**TurnDelivery.** `FlagInv` is the protocol between the runner and the
explicit-action task: who may still send the intent at which step of the
runner. A reserved intent is sent unless the task that reserved it fails or is
cancelled, and while it may still be reserved nobody else did; the runner is
past its arbitration only when the task is over. `IntentInv` says the same of
what was sent, and gives `OneIntent` and `ExplicitActionWins`. `EndInv` and
`SaidInv` tell what was sent before and after `reply.end`, which
`EndClosesTurn` and `EndTellsTheTruth` are about. `SpeechInv` types the producer.

`SpokenInOrder` needs `VoiceInv`. Its first part, `FlowInv`, follows a chunk from
the provider to the client: what was put into the audio queue so far is what was
heard, what the runner holds in its hand, and what waits in the queue, each behind
the one before in the order of segments and chunks. The others say when that is
all of it: an end mark is put behind the last segment, or behind the failure of
both providers (`MarkInv`), and an `error` was sent exactly in the second case
(`ErrorInv`). The order is that of chunks as pairs of numbers (`Precedes`), and
`Audible` is a set, so no sequence is flattened and no induction is needed.

`TellsItsStoryHolds` is step simulation on `TurnStory`, from these invariants and
`StoryInv`, which adds where the story stands: nothing was said before the
recognised text, and quick replies are about to be sent only right behind an end
that sent a text. Each `Emit...` is the abstract action its lemma names, every other
step of a task, a provider or the queue a stutter, and `Revoke` the abstract
`Silence`. That one intent is sent is thereby shown a second time, from the
client's side.

**SpeechInput.** `QueueInv` is the reason why `HeardInOrder` holds: as long as
no two uploads overlap, the chunk in the feeder's hand, the queue and the upload
that waits for room go on, number by number, where what was sent before ends, and
the end mark is behind them all. `SentInv` carries that over the socket.
`WorkerInv` and `RunnerInv` order the worker, its feeder and its connection;
`NoSessionLeft`, `RecognisedOnce` and `NoLateHypothesis` come from them. The
theorems hold for any length of the queue, any number of chunks and any limit of
what waits for the task to start.

`TakesDictationHolds` is step simulation on `Dictation`, with two more invariants:
whatever is on its way (in the hand, the queue, the pending buffer, an upload that
waits) was uploaded (`KnownInv`), so what the recogniser hears was said; and only a
final has a text, the one the worker takes (`TextInv`). `HeardInOrder` and
`NoLateHypothesis` supply the rest: a chunk that is heard is the next one if the
client was orderly, and the connection is silent once the turn has its answer.

**SessionRegistry.** An open session is found under its id, or a close of an
older one dropped it (`FoundInv`, with the history variable `lost`); behind a
closed gate it is also among those that the service still has to close
(`GateInv`), hence `NothingSurvivesTheGate`. `CurrentInv`: a task that was not
cancelled is the turn of its name, which is `TurnStaysCurrent`. `GrantIsCurrent`
is inductive with these, since what replaces an account takes every session it finds
in the registry to be closed.

**BridgeService and Pairing.** The two share the invariant's two halves, as
they share the proof module. `PairingInv` says that a credential that waits has
the URL that is in force and a code that finds it, and that nothing else is
found: `CredentialsAreCurrent` and, of each step, `EndIsFinal`. `ServiceInv`
says for each step of each operation what the switch, the listener, its lock,
the settings and the gate are: `LockIsHeld` (who holds the lock works on the
listener, which a stop took down before), `StartIsFirst`, `SwitchIsThrown`,
`OffIsQuiet` (a service that is off has a listener or sessions only as long as the
operation that turned it off is not through), `UrlIsServed` and
`SettingsAgree`, which says the same (`Agrees`) of the file and of the
configuration in memory, except for what is `adrift`: the reason why the save of
another form cannot change the service. `SwitchIsObeyed`, `UrlIsLive` and `RestartChangesNothing` are
what remains of them when no operation is under way.

**PersonaService.** `JobInv` holds the number of jobs and that no two tasks are
alive; a task that was created has a job that is queued, so nothing else can be
started before it has run (`OneConversionAtATime`). `DraftInv` counts a draft that is being
saved. `LibraryInv` has three parts. `IdsAgree`: the id in memory is the one
saved last, but for the one save that the configuration's lock lets run.
`OperationAgrees`: what an operation read under `_mutation_lock` is still so when it
writes, though the settings are saved beside it; a delete aims at the active profile
only if it was let in while a deactivation was in doubt. `RuntimeAgrees` is
`RuntimeFollowsActive` at every step.

**IdentitySync.** `LockInv` is the mutual exclusion of the saves; `SyncInv` says
that what is authorized against is ready exactly while the configuration says so
and then has the account of the file and the configured person, and that a save is
pending, for its own person, from its first write to its last. `BindingIsPersisted`
follows though two operations do not
take the lock: one leaves the configuration pending, the other changes the
platform only. `OptOutRevokes` needs
`SourceInv`: which account the configuration's source speaks of at each step.
`IdentityIsNotSwapped` is an action property that has no run of its own: another
account or person comes into force only after a state in which no session is
authorized. `SettingsStay` is the reason: what changes the file or sets a person has
marked both pending before, or does so in the same step.

**HookProfiler.** Has no run: its properties are proved for any number of handlers
and of lives of the plugin, from no assumption. `ProfilerTypes` already says that a
handler is raw or has one wrapper, which is `MeasuredOnce`: `install` unwraps to the
bottom. `OffIsBare` (a profiler that is off has no wrapper anywhere) is what lets
`configure` leave the registry alone when nothing changes; `OverIsBare` and
`OnIsEverywhere` are the other two properties in terms of one wrapper; `Alone`
(the host runs one instance at a time) keeps two instances from taking each
other's handlers. `StackFacts` turns every operator on sequences into an
equality, so that `SwitchKeeps`, the lemma for saves and overlays, is about
plain functions.

**OperatorForms.** What a request may put back is what the file has
(`SaverInv`), as it read that behind the lock; where memory and file differ, a
request is writing just that (`MemoryInv`). Hence a save that fails leaves nothing
of itself, and one that succeeds commits only what was asked for:
`RuntimeIsSaved` and `AnswersHold`, for any number of requests. `AnswersHold`
excepts what the code loses: the excluded plugins that the panel's switch
empties, and a name that an older one overwrites (`outdated`).

**SettingsPolicy.** The same for two masters, with a difference: the dashboard reads the
values it may have to put back behind the lock, the kernel before it.
So only the former's are what the file has, and `SavesInv` excepts what `undone`
marks. `SavesAreKept`, `OverlayIsPersisted` and `PolicyIsInForce` are inductive
with it.

**Only model-checked:** the liveness properties `BlockedEmitReturns`,
`EveryTurnEnds`, `StreamEnds` and `NoStuckJob`, since they rest on fairness and
ENABLED, which are out of the prover's reach. Every other property of a passing run
is a theorem. `SilenceIsAHooksWish` does not hold (section 5).

## 8. Not modelled, and why

* The loss of an item between `queue.get` and the client
  (`transport/http_sse.py:262`): the code has no acknowledgement to model.
* Validation of requests, the authorization of one request against the
  identity, the rate limit of exchanges: sequential, they only refuse calls. The
  models take requests that passed them.
* Providers, prompts, parsing, knowledge and relationship context, the
  contribution cache of the quest chain: their results are inputs.
* History, spatial context, playback receipts, the debounce of touches: data of
  one session that no other actor changes.
* The proxying of one request by the listener, TLS and sockets, migrations,
  logs, traces and the client's diagnostics, pages: I/O and presentation.
* The avatar action tool: unreachable, see `TurnDelivery`.
* The save of a derived public URL (`main.py:780-784`), which takes no
  `_config_save_lock`, beside a save of another form: `BridgeService` has it
  between whole saves only, and `SettingsPolicy`, `OperatorForms` and
  `PersonaService` not at all. The host writes all that is in memory, so it could
  commit values of a form whose own save then fails; `SavesAreKept`,
  `RuntimeIsSaved`, `AnswersHold` and `RuntimeFollowsActive` say nothing of that.
* The URLs of the configuration: `RestartChangesNothing` speaks of the switch and
  the port.
* Two forms that save the source persona at once: the second waits for the
  configuration's lock, and then does what the first did.
* A cancellation of a persona's save or activation while a thread writes its
  file: the HTTP server is taken not to cancel the dashboard's requests.
* `complete_turn` leaves a normal turn in `current_turn`, so that
  `cancel_previous=false` is refused although that turn is over: `EventStream`
  has this behaviour, the documents say only that an *active* turn is refused.

### Where the code departs from its documents

The models follow the code; the properties excuse these cases by name, or stop
short of them.

* The docstring of `wake_putters` (`core/session_manager.py:185`) says that
  without the call a critical event on a full queue "would otherwise wait
  indefinitely for a consumer that is gone". With it, it still does: the woken
  producer finds its turn current and the queue full, and waits until a client
  attaches, the turn is ended or the session is closed.
* `docs/API_CN.md:648`: an exact retry of a receipt returns `idempotent=true`.
  A receipt expires by its own age, its plan by the age of its last receipt
  (`core/session_manager.py:1138`): the retry of an old receipt of a live plan
  is refused. `RetriesAreIdempotent` says how far the promise goes.
* `docs/API_CN.md:1109` says `audio_sent=false` after a failed synthesis; the
  code reports the chunks that it sent, as `EndTellsTheTruth` has it.
* `_conf_schema.json:492`: the limit of audio seconds is "单轮" (per turn); the code
  applies it to each segment of the text (`adapters/tts.py`).
* `CHANGELOG.md:639`: no session starts with a half-synchronised identity. A
  second identity that is refused half way leaves the new client beside the old
  account, marked pending; clearing the person then takes that mixture for the
  identity to preserve and marks it ready (`core/operator_settings.py:1095`).
* The comment at `core/operator_settings.py:1048` calls an empty selection an
  opt-out. A session start's refresh that resolved the person before saves the
  relation, and its grant, again afterwards (line 1209).
* The same refresh, and a selection, read the client and the digest of its key
  before they wait for the identity lock (line 1187). A manual save that comes in
  between leaves its client in the configuration while sessions are authorized, and
  the guardian's grant is bound, for the one before; a restart then authorizes the
  other. So `BindingIsPersisted` does not speak of the client.
* `docs/API_CN.md:105`, `README.md:126`: turning the service off closes all
  sessions. A session that was started under the id of one that is being closed
  is dropped from the registry by that close (`core/session_manager.py:942`),
  and is then found by nobody: `lost` in `NothingSurvivesTheGate`.
* A start that was authorized before the operator replaced the identity is
  admitted afterwards with its grant: `late` in `GrantIsCurrent`.
* `README.md:243`: without managed mode the plugin's own settings are in force.
  A rollback of the overlay (`series_control.py:368`) puts the overlay into
  force in native mode too; a save of the dashboard puts its value into force
  over a managed one; and the mode itself is not saved, a restart derives it
  from the overlay: `unheeded` in `PolicyIsInForce`.
* A native write that fails puts back what it read before it waited for the
  lock (`main.py:1408`): `undone` in `SavesAreKept`.
* A save of the switch or the port that the host answers with superseded is
  refused to the operator as `config_save_superseded`, but its value stays in memory
  (`core/service_control.py:440`), unlike that of every other form
  (`core/operator_settings.py:1596`, `main.py:1431`). The next save of any form
  writes it, and a restart then turns the service on or off, or moves it. A rollback
  whose save fails leaves the same. `adrift` in `RestartChangesNothing`, until the
  setting is saved again.
* `core/persona_service.py:867`: "当前启用的人格不能删除，请先停用或切换人格" (the active
  persona cannot be deleted, deactivate it or switch first). While
  `save_character_persona` has put the empty id into memory, and its save may still
  fail, the profile can be deleted; if the save then fails, the id comes back and the
  active profile has no file, while its prompt is still spoken. A save of that profile
  in the same moment does not reach the language model. Neither
  operation looks at the configuration's lock: `orphaned` and `stale` in
  `RuntimeFollowsActive`.
* `FunASRRealtimeSession.start` that fails or is cancelled between the connection
  and its run-task (`adapters/funasr_realtime.py:88-117`) leaves its socket and its
  reader behind: nobody has the session yet who would close it. `NoSessionLeft`
  promises the end of a session that was handed over, to which a feeder belongs.
* The panel's switch of the dialogue fallback (`series_webui.py:629`) saves the
  whole form with the excluded plugins at their default, which empties them; its
  switch of the persona's source (line 644) reads the form, suspends, and saves
  the name it read over one that was saved meanwhile: the two exceptions of
  `AnswersHold`.
* An `initialize` that awaited the load of a profile overwrites the prompt of
  one that was activated meanwhile (`core/persona_service.py:117`): `stale` in
  `RuntimeFollowsActive`.
* `CHANGELOG.md:241` says that the profiler "在停用或卸载时恢复原始回调" (restores the
  original callbacks when it is switched off or unloaded). `terminate` does so,
  but a save of the diagnostics settings that is waiting for the configuration's
  file then goes on to configure and install (`core/operator_settings.py:612`),
  and nothing there looks at `_terminated`. If the next instance runs already,
  it loses its handlers to the dead one until it installs again. A native write
  of the series kernel does the same (`main.py:735`): `late` in
  `TerminationRestores` and `SwitchIsHeeded`.

## 9. Plan

Done: all modules of section 3, the refinements of `EventDelivery`, `TurnStory`,
`ActionStory` and `Dictation`, and the proofs of every component's safety
properties. What is left, in the order of what the system depends on most:

1. Composition of `TurnDelivery` with the queue: `out` as what `EventStream`
   accepts of one turn, so that the story of a turn reaches the client through
   `EventDelivery`.
2. The listener's relay of requests and event streams with its limits, and what
   its stop does to them.
