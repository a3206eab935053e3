# A verification project for receptify-ai

receptify-ai answers telephone calls: FreeSWITCH streams the caller's audio to an
agent, the agent transcribes it, asks a knowledge base and a language model, and
speaks the answer back, and it can book appointments in a multi-tenant Rails API.
This directory holds TLA+ models of the parts of it where order, interruption,
failure and concurrency decide whether it is correct, the TLC runs that check
them on small instances, and TLAPS proofs of the results that hold for every
instance. The repository has no tests; the code, its comments and
`README.md` are what the models are read from.

## 1. The system

| Part | State it keeps | Operations | Interacts with |
|---|---|---|---|
| **agent** (`src/agent/main.py`, one asyncio loop, one `handler` per call) | `CallState`: generation, response and playback task, history, pending turn, appointment flow | frame loop (speech starts, ends), `start_response_task`, `interrupt_response`, `process_audio`, `speak_queue_worker`, `speak_text`, `play_wav`, `handle_appointment_turn` | websocket from FreeSWITCH, STT, RAG/LLM, TTS, fs-bridge, booking API, all over HTTP with timeouts |
| **fs-bridge** (`src/fs-bridge/main.py`, single-threaded `HTTPServer`, one event thread) | an ESL connection, an ESL event connection | exists, broadcast, stop, command, reload; CHANNEL_ANSWER starts the audio stream | FreeSWITCH over ESL |
| **rag-service** (threads) | per tenant and per workspace: text, revision, index; LRU of 64 workspaces | load, set_content, background build, query, generate, stream | Rails API (knowledge), the LLM |
| **stt-service**, **tts-service** | one worker thread each; TTS: LRU cache of audio | transcribe and filter noise; synthesize | agent |
| **receptify-api** (Rails, Puma threads, PostgreSQL) | tenants, workspaces, DIDs, types, rules, exceptions, appointments, call logs | booking and availability, dashboard CRUD, billing with PayPal, FreeSWITCH XML and CDR intake | all of the above |
| **receptify-frontend** | session store | dashboard pages | Rails API |
| FreeSWITCH configuration, k8s, azure, `initial-sources` | - | configuration and a superseded prototype | - |

`PROJECT.json` lists every part with its status, and under `hazards` what is hard
to test in this code, at its line.

What is hard, in one paragraph: four tasks of a call share one `CallState` and are
cancelled in the middle of any await when the caller speaks; their requests outlive
them on a bridge that serves one at a time; a playback task may be created after
the interruption has marked the tasks it could see; a queue of eight chunks stands
between a fast LLM and a slow voice that may die; a knowledge base is re-read, cached
and re-indexed by threads while it is edited; two connections to FreeSWITCH break,
go silent or answer late under commands of two threads; and bookings read, check and
insert in separate statements while other requests and the dashboard do the same,
and are given up by an agent whose requests time out after 6 seconds.

## 2. The modules

| Module | Models | Kind |
|---|---|---|
| `TurnTaking` | what a call promises: one party has the floor, each turn is recorded once, whole or cut off, in order | abstract specification |
| `CallMedia` | the requests a call has sent and nobody has served, the bridge that serves them in order, the FreeSWITCH channel | component |
| `AgentCall` | extends `CallMedia` with the handler, response, speaker and playback tasks of one call | composition; implements `TurnTaking` |
| `Endpointing` | the frame loop: when the caller starts and stops to speak, and which frames reach STT | component, against a reference definition |
| `ReplyStream` | a reply from the model through rag-service's stream, `sentence_chunks`, the queue and the speaker, as text | composition |
| `EslBridge` | the two ESL connections of fs-bridge, its listener and its shared command connection | component |
| `TextStore` | a store holds a text and answers from it | abstract specification |
| `RagStore` | a store of rag-service: `set_content`, background builds, queries | component; implements `TextStore` |
| `WorkspaceCache` | the LRU cache of workspaces' stores, its racing fetches, the dashboard's saves; a store in it is a `TextStore` | composition |
| `Calendar` | a booking is one indivisible reservation of free time | abstract specification |
| `Booking` | `AppointmentBookingService`, `AvailabilityService` and the dashboard's edits, one action per SQL statement | component; implements `Calendar` |
| `MCBooking`, `MCWorkspaceCache` | instances of `Booking` and `WorkspaceCache` | TLC |
| `VoiceBooking` | the dialogue `handle_appointment_turn` between the STT noise filter, an interrupting caller and the booking API, whose bookings are one step as in `Calendar` | composition |
| `AgentCall_proof` (with the theorems on `TurnTaking`), `Endpointing_proof`, `ReplyStream_proof`, `EslBridge_proof`, `RagStore_proof`, `WorkspaceCache_proof`, `Booking_proof`, `VoiceBooking_proof` | theorems and proofs | TLAPS |

### CallMedia and AgentCall

An action of `AgentCall` is what one asyncio task does between two awaits.
`resp`, `speaker`, `voice`, `playback` and `handler` say at which await each
coroutine is: `voice` is the running `speak_text` (called by the response task for
a welcome, a booking answer or a fallback, and by the speaker otherwise).
`task.cancel()` is a flag (`respCancelled`, `speakerCancelled`,
`playbackCancelled`); the `*Unwind` actions are the `except CancelledError` and
`finally` paths, in the order the awaits nest, and cancelling a task that awaits
another cancels that one. `Interrupt` is `interrupt_response` up to its first await;
`ServeStop` or `StopTimeout`, and `InterruptDone`, are the rest.

`line` is the FIFO of requests that left the agent. `Abandon` is the client going
away: the server still reads the request, or never got it. With `Reliable = FALSE`
requests time out, and an ESL command runs 0, 1 or 2 times (`ESLConnection.api`
repeats it on a new connection). A piece of audio is `late` when it waits behind
audio that plays.

Abstractions: texts are the number of their turn, so that the history is a sequence
of (role, turn) and losing, repeating or reordering turns is visible; a chunk is its
number in the reply (its text is `ReplyStream`'s); one call (other calls only delay
the bridge, which the timeouts cover). `SleepOver` assumes that `asyncio.sleep(duration)`, which starts when the
bridge has answered, does not end before audio that started on time. In
`mod_audio_stream` mode the messages of the websocket are delivered in order and
their delay is negligible against the sleep. An aiohttp request that is cancelled
or timed out at the moment its answer arrives counts as cancelled or as answered.

### TurnTaking

`AgentCall!TakesTurns` is the refinement: `floor` is computed from the handler's
and the response task's place, `asked`, `answered` and `record` are
`pending_user_text`, `pending_reply` and `history`. Complete turns are capped,
interrupted ones are appended, as in the code.

### Endpointing

An action is one frame of 20 ms: `NotYet`, `StartRecording` and `Continue` are the
branches of the loop, and each ends with `should_process` (`Capture`), as the loop
does. A frame is its position, so that a buffer shows which audio is lost, repeated or
captured late. A sound is quiet, noise (active unless there is a response) or speech
(active during a response too): that is what `speech_frame_is_active` tells apart. Its two
detectors are equally strict instances of the same one; during a response the frame must
pass `barge_in_vad` and `BARGE_IN_RMS_THRESHOLD`, without the alternative of being just
loud. That nothing counts during a response only is so with the threshold that is
deployed (0.015, above `RMS_THRESHOLD`), and with the default (0.006) as long as both
instances judge a frame alike. A response may be active from the
start (the welcome), after a capture, and may end at any moment. The interruption is
instantaneous here; what it waits for is `AgentCall`'s.

Captures are compared with `Starts`, `Audio` and `Ends`, which describe a recording from
the whole call, without counters. The frame that starts a recording is in the audio
twice, since it is in `pre_speech_buf` already: the reference has it so.

### ReplyStream

A reply is a sequence of kinds of characters (letter, full stop, space, newline) and a
text the sequence of its positions: a chunk shows what it lost, repeats or glues
together. `Emit` is a token with its control characters removed, `Finish` and
`ServiceFails` the three ends of `/generate_stream`, `StreamEnds` those of
`llm_generate_stream`, its timeouts included. `SentenceChunks` is `sentence_chunks` with
its cut at `TTS_CHUNK_CHARS`. Synthesis and playback are one step that may have come to
nothing (`ChunkSpoken`). Nobody interrupts; that is `AgentCall`'s.

### EslBridge

`api` is the call of `ESLConnection.api` that holds the lock: connecting, sending,
receiving, twice at most. `listener` is `_connect_and_listen`. A connection breaks with
or without the loss of what is on its way, and the event connection may also die
silently. FreeSWITCH does what it is asked: the code logs the answer to
`uuid_audio_stream` and looks no further, so that a call whose stream is refused with
`-ERR` stays silent and nobody tries again; no property speaks of it. `ReadPacket(n)` is `_esl_read_packet`: it discards what arrived behind the
packet it read, here the next n packets. FreeSWITCH may run what it received on a
connection that is closed (`RunStray`). `lost` remembers the calls whose event or
command came to nothing in one of these ways.

### TextStore, RagStore and WorkspaceCache

`builder` is the thread that holds `_build_lock`: `_run`'s loop, the three locked
sections of `build` and the reading between them are an action each. `chunks` is the
text the index was made of; a FAQ's embeddings are published with it. `set_content`
and `build_in_background` are two steps of `get_workspace_store`, under the lock of the
cache. `RagStore!Promise` maps the store to `TextStore`: the index does not exist there.

`WorkspaceCache` has the requests: a fetch without a lock, whose answer may be overtaken,
then one step under `_workspace_stores_lock` (`Hit` or `Install`), then the query.
`SaveWorkspace` is any save of the row: of new knowledge, of its publication or withdrawal,
or of other columns, which leave the content as it is and renew `updated_at` all the same.
`updated_at` is a second, of a clock that is read before the row is written: saves that
wait for each other, or for the lock of a booking, may commit in another order.
`published` and `disturbed` remember what the API has answered of each workspace, and
which requests overlapped another one or a save.

### Booking and Calendar

A request loads the type (before the transaction), takes the workspace's row
(`with_lock`), reads exceptions, confirmed appointments and rules, checks, inserts,
commits and answers, a step each. It can die at every point before the commit, which
undoes the insert (`Abort`), and after it, which does not: the row is there, and the
caller gets a 500 or no answer (`AnswerLost`). A request that is not confirmed, or has no
valid time, is refused before the database is asked (`Refuse`). Cancelling, editing and
destroying types, and editing hours and closures take no lock and interleave with
all of it, as READ COMMITTED allows. Time is 0..Horizon on one day, since `available?`
looks at one day. `Check` may refuse a free slot, because its start has passed or the
day has 100 free slots before it. Rules may overlap: the validation that forbids it
is not safe under concurrency and nothing here relies on it.

### VoiceBooking

An utterance is what the caller means (its kind), a number or date, and whether its
words are `bare`: nothing but digits, or two letters, or a filler, which is exactly
what `is_noise` drops. `StageX` actions are the stages of the dialogue up to the
request they await or the prompt they return; `ReceiveAnswer` are the branches after
the await. An interruption leaves the flow as it is and the request on its way
(`orphans`). A slot the call booked is `mine` until the agent says so and `told`
afterwards; the dashboard may cancel it, as any other (`Cancel`, `cancelled`). The flow is
in the stage confirm from when the question is computed (`asked`, set with the prompt by
`Speak`), which is not when it has been spoken (`heard`, set by `Spoken`): an interruption
and a synthesis without audio come between. `consent` remembers which slots were agreed
to, and whether the question had been heard. A server that fails may have committed
before. Whether servers are `reliable` and `bargeIn` is enabled is chosen at
the start, so that one run has all four settings. A workspace that is not linked, and
turns that are not about booking, change no state of the dialogue.

## 3. The runs

| Run | Question | Properties |
|---|---|---|
| `call_bridge` | barge-in over fs-bridge, no timeouts: who has the floor, what may be audible | `TypeOK`, `CallerHasFloor`, `NoStaleAudio`, `SupersededIsMute` |
| `call_timeouts` | the same with lost, late and repeated commands, under fairness | `NothingLeftBehind`, `InterruptEnds`, `HandlerReturns` |
| `call_turns` | playback over a websocket that may die: `AgentCall` implements `TurnTaking`, its fairness included | `HistoryInOrder`, `TakesTurns`, `ResponseEnds` |
| `endpointing` | every call of eight frames: what is captured, what interrupts | `TypeOK`, `MatchesReference`, `InterruptedOnlyBySpeech`, `HearsNoEcho` |
| `reply_stream` | every reply of four characters, cut into tokens anywhere: what is said | `TypeOK`, `SaidAsReceived`, `PausesAreKept`, `AnsweredInTheEnd` |
| `esl` | breaking, silent and late ESL connections under two threads' commands | `TypeOK`, `AnswerIsOwn`, `StreamedUnlessLost`, `ListensAgain` |
| `rag_store` | texts set under running builds; the store is a `TextStore` | `TypeOK`, `IndexIsCurrent`, `ImplementsTextStore`, `IndexedInTheEnd` |
| `workspace_cache` | racing fetches, saves and evictions: whose and which knowledge answers | `TypeOK`, `Isolation`, `FreshWhenAlone` |
| `booking` | two requests against every edit; the statements are one reservation | `TypeOK`, `NoOverlap`, `AnswersAreTrue`, `TypesOfAppointmentsExist`, `ImplementsCalendar`, `EveryRequestAnswered` |
| `voice` | the dialogue under interruptions, failures and late commits, and without them | `TypeOK`, `Consent`, `TruthfulConfirmation`, `DenialIsTrueWhenAnswered`, `VerdictGiven` |

Some of these hold only up to what their definitions name, and the code has no remedy
for: a text set in the window between the build loop's last look and the release of its
lock is indexed only with the next one (`missed`); two contents of a workspace that were
saved within a second have one revision (`Ambiguous`); an answered call can stay without its audio stream
in four ways (`lost`); and a space at the end of a token, a newline, a number like "3."
at the end of a token and a word longer than `TTS_CHUNK_CHARS` are not said as they were
written (`PausesAreKept`).

`AnswersAreTrue` says what a 201, a conflict and a refusal mean; a 500 or a connection
that is lost means nothing, since the commit may have been before. `Consent` is in two
parts: no appointment without a yes to the question about its slot, always; and the
question was heard, in calls without barge-in and failing synthesis, since otherwise the
code takes a yes to a question that was cut off. `TruthfulConfirmation` excuses an
appointment the dashboard cancelled.

Runs that show a disagreement (expected violations):

- `voice_false_denial`: "No appointment has been made" (`main.py:645`) is said after
  a client-side timeout, while the server commits. `DenialIsTrueWhenAnswered` is what
  does hold.
- `voice_unheard`: prompts ask for a number, an ISO date or "no", and the noise
  filter drops exactly these answers without a word. The property speaks of a transcription
  that works.

Each property of a passing run has a mutant: an operator next to the definition it
replaces (marked "Slip"), a plausible mistake in that code under which TLC finds the
property violated.

### Bounds, and why they are enough

- `AgentCall`: `MaxGeneration` 3 to 5 counts interruptions and turns: a welcome, an
  answer that is interrupted and one that follows it need 4; the fifth allows a
  second interruption. `MaxChunks` 3 with `QueueSize` 1 makes one chunk spoken, one
  queued and one waited for, with the `None` behind it; a longer queue only delays
  the same situations. In `call_turns`, which is about liveness, a reply has at most two
  chunks: one in the queue and one waited for. `HistoryCap` 3 is odd, so that the cap also cuts between a
  question and its reply. The timeouts run has one chunk per reply: its subject is
  the interplay of requests, not the queue. `BargeInEnabled` is TRUE in all of them:
  the caller need not interrupt, so the behaviours without barge-in are among them.
- `Endpointing`: eight frames, a `pre_speech_buf` of two, captures of three to six frames
  and two inactive frames to end one: two captures fit into a call, one of them cut at
  its maximum, with noise carried over from one to the next. `barge_frames` is smaller
  than the buffer or as long. All sounds of all frames are enumerated.
- `ReplyStream`: four characters are two sentences, or a remainder above `ChunkLimit` 3
  with the cut at its space, within a word, or behind `MinSplit`. A queue of one and a
  wire of two lines let the model, the agent and the speaker wait for each other.
- `EslBridge`: two calls of ours and one of others are the packets that arrive together,
  one request of the HTTP server meets the listener's command, and two faults are what a
  command with two attempts, or a reconnection that fails, needs.
- `RagStore`: the text changes four times, so that a build is overtaken more than once.
- `WorkspaceCache`: a cache of one for two workspaces evicts all the time. Two threads
  race; four requests let a later one see what they left; three saves in three seconds
  let a revision go back. Requests, workspaces and texts are symmetric; stores are not,
  since `NewStore` chooses one, and the properties are of states and steps.
  There are as many stores as requests, so that one is always left to be made.
- `Booking`: two requests (races are pairwise: the lock and `NoOverlap` speak of two
  requests), durations 1 and 2 and two rules whose grids are not aligned. The
  proofs have no bound.
- `VoiceBooking`: two slots and an offer of two: one for the call, one for others,
  and a second flow in the same call. The proofs have no bound.

### Fairness

- `AgentCall`: weak fairness of each task. asyncio runs what is ready, every HTTP
  request has a timeout, sleeps end, FreeSWITCH plays audio to its end. The bridge is
  fair only when `Reliable`; otherwise the agent's timeouts must do. The caller is
  not assumed to do anything.
- `TurnTaking`: the agent does not keep the floor for ever; that is what the
  refinement has to show.
- `Booking`: weak fairness of each request. A request takes the row once, so even a
  lock without a fair queue cannot starve another for ever.
- `ReplyStream`: the agent's tasks; the stream and each synthesis have timeouts.
  rag-service and the model promise nothing.
- `EslBridge`: both threads and FreeSWITCH; every wait of a thread has a timeout, and a
  thread that asks for the lock gets it, as `api` always returns.
- `RagStore`: a build goes on once it runs, and a request that set a text asks for its
  build. Nobody is assumed to ask for another.
- `WorkspaceCache`: requests go on; only safety is checked there.
- `VoiceBooking`: the agent's turn and its requests go on; the servers answer only
  when `reliable`.

`CHECK_DEADLOCK FALSE` is set where the model may stop: a call of `Endpointing` that has
had all its frames, a `WorkspaceCache` whose requests and saves are used up, and a
booking model whose requests are all answered. All others are checked for deadlock.

## 4. What is proved

Assumptions are the named `ASSUME`s on the constants, which TLC evaluates in the runs.

- `Booking_proof`, for any number of requests, types, rules and closures:
  `TypeCorrect`, `NoDoubleBooking`, `Truthful`, `TypesKept` and `Refinement`
  (`Spec => ImplementsCalendar`). `NoOverlap` is not inductive: at the insert nothing
  in it says that the slot is still free. The invariant `IInv` adds that a request
  between `with_lock` and its end holds the row (`HoldsLock`), that what it read
  contains every appointment confirmed now (`SeesConfirmed`: only a holder confirms,
  and cancellations only shrink the set), that the slot it found free stays free until
  the commit (`StillFree`), and that lengths are positive (`HasLength`). `Rows` says at
  which points of a request there is a row of it and of which length, from which
  `Truthful` follows; `TypesHeld` that the type of a row, committed or not, is there, as
  the foreign key has it. The refinement follows: a commit is `Reserve`, a cancellation
  `Release`, all else a stutter.
- `AgentCall_proof`, for both playback modes, with or without reliable requests and
  for any queue size, cap, number of turns and chunks: `TypeCorrect`, `NothingIsLeft`,
  `OneAtATime` (`OneResponse`), `LateResponseIsMute`, `TasksAreSilent`,
  `ImplementsTurnTaking` and `HistoryStaysInOrder`; with reliable requests also
  `CallerIsHeardAlone` (`CallerHasFloor`) and `StaleAudioIsStopped` (`NoStaleAudio`).
  None of the properties is inductive. `IInv` adds how the tasks are nested (`Nested`:
  a speaker lives only under a response that streams, puts or waits for it, a voice
  under one of the two, a playback under a voice), that the queue is never over its
  size (`QueueFits`), which generation may be alive at each point of the handler
  (`Phases`: a response that is not the current one has been cancelled and the handler
  waits for it), that the question of the turn in progress is pending from its
  transcription on (`Asked`), and that an awaited request in the line is the one its
  task waits for (`AwaitedFor`). `ImplementsTurnTaking` maps every step to a step of
  `TurnTaking` or a stutter.
  What `TurnTaking` promises of the record is proved of its steps alone, on the instance
  that the call implements, so for any cap and any number of turns: `TurnsTypeCorrect`,
  `InOrderAlways` and `RepliesFollow`. The strengthening `TurnIsNew` says that the turn in
  progress is newer than the record while the agent has the floor, that what is pending
  is newer than the record, and that a pending answer belongs to the pending question.
  The lemmas `AppendTurn` and `TrimKeeps` are the facts about sequences: appending a
  newer turn and cutting the front off keep order. `HistoryStaysInOrder` combines
  `InOrderAlways` with the refinement.
  What can be heard needs two invariants more. The tasks that are cancelled are those of
  answers that are over, and a playback of one, past its start, is cancelled (`Marked`,
  theorem `CancelledIsOver`). And at any time either all that is or will be audible has a
  stop behind it, or one thing has none: the chunk the current answer's playback has
  asked for, in the line or on the channel (`AudioIsOwn`, theorem `OwnAudio`): a new
  chunk is asked for only when the one before it has been played or stopped. That is
  false of a line that loses a stop or serves a broadcast its caller has given up, which
  is why these theorems assume `Reliable`, as the run `call_bridge` does; `TasksAreSilent`
  is what remains of `CallerHasFloor` without it.
- `RagStore_proof`, for the store of a workspace, any set of texts and any number of edits: `TypeCorrect`,
  `IndexStaysCurrent` and `AnswersFromItsText` (`Spec => ImplementsTextStore`). The
  strengthening says that what the thread has loaded is the store's text as long as the
  revision it read is the current one (`ThreadIsHonest`), which is what `Publish` tests;
  the refinement maps a query's two steps to a stutter and an `Ask`.
- `VoiceBooking_proof`, for any number of slots and any offer: `TypeCorrect`,
  `CallerConsented`, `ConfirmationIsTrue` and `DenialWhenAnswered`. The invariant says
  what the dialogue relies on across an await: a request belongs to the stage that
  waits for it, and a booking is of the slot the flow still holds
  (`RequestFitsStage`); in the stage confirm the last question named that slot
  (`AsksWhatItBooks`) and, without barge-in and failing synthesis, whoever answers it has
  heard it (`HeardWhatHeAnswers`); whatever may still be booked was agreed to
  (`Accounted`, `Agreed`); and
  without failures and barge-in each booking is known, or its answer has come
  (`NothingForgotten`).
- `EslBridge_proof`, for any calls, requests and faults: `TypeCorrect` and
  `AnswersAreOwn`. An answer carries no name of its command, so what makes it the right
  one is that nothing else can be on the connection: at most the command `api` waits for
  or its answer, and nothing at all when `api` is not receiving (`OneOnTheWay`).
- `Endpointing_proof`, for calls and settings of any size: `TypeCorrect`,
  `OnlySpeechInterrupts`, `NoEchoIsCaptured` and `CapturesWhatIsDue`
  (`MatchesReference`). The invariant says what the two counters
  and the buffers stand for: the counted frames are the last ones, all of them active
  (`Counted`) and, while a response is active, all of that response
  (`CountedInResponse`); nothing is recorded while one is active (`OneSpeaks`); and
  `pre_speech_buf` is the tail of the call (`PreIsRecent`), so that a recording that
  begins with it begins within the counted frames. That the loop captures what the
  reference description says of the whole call is shown by an invariant that compares the
  two: while the loop records, it began where the description has the utterance begin, and
  while it waits, nothing has begun (`Now`); and each utterance that has reached STT begins
  and ends where the description says (`Past`), which no further frame changes.
- `WorkspaceCache_proof`, for any numbers of workspaces, requests and stores and any size
  of the cache: `TypeCorrect`, `WorkspacesAreIsolated` and `FreshWhenNothingOverlaps`
  (`FreshWhenAlone`). The invariant says that a
  workspace and a store have one entry each and that a cached store holds a text of its
  workspace (`CacheIsOwn`), and that what a request has fetched or found is of its
  workspace, although the store may be evicted, or set again by another request, before
  it answers (`RequestIsOwn`). Freshness needs more: each text in the cache has the second
  of a version the API did publish (`LabelsAreTrue`), although an overtaken fetch may set
  the cache back and an overtaken save the API, so that a text with the API's revision is
  its text unless two had that revision (`OneContent`); and a request that nothing has
  overlapped is the only one of its workspace, so that nobody sets the store it found
  (`RequestIsFresh`). The lemmas about sequences (`WithoutOne`, `WithoutFirst`,
  `WithEntry`, `UsedKeeps`) are what moving an entry to the end and cutting the front off
  preserve.
- `ReplyStream_proof`, for replies, tokens, chunks and queues of any size: `TypeCorrect`,
  `SaidIsReceived` (`SaidAsReceived`) and `PausesKept` (`PausesAreKept`). The invariant
  says how far agent and speaker are (`Stages`: the `None` is last in the queue, and
  nothing is left to put once it is there), that the tokens on the wire are what comes
  next in the reply after what was received, with `rag-service`'s sorry only alone
  (`WireIsNext`), and that the pieces in line (said, queued, to be put and pending) cover
  what was received, run together and cut only where the property allows (`LineIsReply`).
  The heart is what `sentence_chunks` does to a buffer (`ChunksCut`, `CutInLine`): its
  chunks cover the buffer's letters once, in order. Where an argument goes over a number
  of pieces it takes a least counterexample (`NatLeast`, from the well-foundedness of
  `<`) in the place of an induction, whose library theorem the provers cannot
  instantiate. The definitions of `ReplyStream` avoid recursion for this: `InOrder` is
  chosen, not computed.

Only model-checked, since fairness and `ENABLED` are out of the prover's reach: the
liveness properties of every run (`EveryRequestAnswered`, `InterruptEnds`,
`HandlerReturns`, `ResponseEnds`, `ListensAgain`, `StreamedUnlessLost`,
`IndexedInTheEnd`, `AnsweredInTheEnd`, `VerdictGiven`) and the fairness part of
`TakesTurns`.

## 5. What is done and what is left

Done: the call, its abstract specification and their proofs; the booking service and its
refinement; the dialogue; the stores and the cache of rag-service; end-pointing; the ESL
connections; the reply's text; and a proof of every safety property the passing runs
check. Left, in this order:

1. The enumeration of slots over several days and changes of DST, against a reference.
2. The registry of tenants' stores and `/generate`.

## 6. Not modelled

- Audio itself, transcription, retrieval quality and the language model; wording,
  logging and metrics.
- `tts-service`: its cache is a memo table on one event loop, in which every entry is the
  audio of its key whatever the order of its awaits.
- Billing and gateways: single rows that one request updates; what makes their order
  interesting, PayPal's webhooks and FreeSWITCH's reloads, is outside the repository.
- CRUD without shared state, the frontend, configuration and deployment files, and the
  superseded prototype.

`PROJECT.json` gives the reason part by part.
