------------------------------ MODULE AgentCall ------------------------------
(***************************************************************************)
(* One telephone call in the agent (src/agent/main.py): the handler that   *)
(* reads the caller's audio, the response task that answers one turn, the  *)
(* speaker task that voices the streamed reply through a bounded queue,    *)
(* the playback task that plays one chunk, and the interruption that       *)
(* cancels them all when the caller speaks or hangs up.                    *)
(*                                                                         *)
(* All four run on one asyncio loop: an action is what a task does between *)
(* two awaits, and cancelling a task only marks it, the task unwinds in    *)
(* steps of its own.                                                       *)
(***************************************************************************)
EXTENDS CallMedia

CONSTANTS
    Mode,             \* AUDIO_PLAYBACK_MODE
    BargeInEnabled,   \* BARGE_IN_ENABLED
    QueueSize,        \* maxsize of the speech queue (8)
    HistoryCap        \* entries kept when a turn completes (12)

ASSUME AgentAssumption ==
    /\ Mode \in {"fs_bridge", "mod_audio_stream"}
    /\ BargeInEnabled \in BOOLEAN
    /\ QueueSize \in Nat \ {0}
    /\ HistoryCap \in Nat \ {0}

VARIABLES
    generation,      \* CallState.generation
    handler,         \* where the handler coroutine is
    leaving,         \* its loop is over: it runs the finally block
    speech,          \* speech_detected: the caller's utterance is being recorded
    socketUp,        \* the websocket from FreeSWITCH is open
    resp,            \* where the live response task is; "idle": none, or done
    respGen,         \* the generation it was started with
    respCancelled,   \* cancel() was called on it
    produced,        \* chunks cut from its reply so far
    outbox,          \* chunks it still has to put, while the queue is full
    queue,           \* speech_queue
    speaker,         \* where the speaker task is
    speakerCancelled,
    voice,           \* where the running speak_text is
    chunk,           \* the chunk it speaks
    playback,        \* where CallState.playback_task is
    playbackCancelled,
    playbackActive,  \* CallState.playback_active
    history,         \* CallState.history
    pendingUser,     \* pending_user_text, as the turn it belongs to; 0 is ""
    pendingReply     \* pending_reply, likewise

handlerVars  == <<generation, handler, leaving, speech, socketUp>>
respVars     == <<resp, respGen, respCancelled>>
speakerVars  == <<produced, outbox, queue, speaker, speakerCancelled>>
voiceVars    == <<voice, chunk>>
playbackVars == <<playback, playbackCancelled, playbackActive>>
historyVars  == <<history, pendingUser, pendingReply>>
vars == <<mediaVars, handlerVars, respVars, speakerVars, voiceVars, playbackVars,
          historyVars>>

\* The None that ends the speaker.
End == 0

TypeOK ==
    /\ MediaTypeOK
    /\ generation \in Generations
    /\ handler \in {"connecting", "loop", "stop", "gather", "closed"}
    /\ leaving \in BOOLEAN /\ speech \in BOOLEAN /\ socketUp \in BOOLEAN
    /\ resp \in {"idle", "welcome", "stt", "appointment", "rag", "stream", "put",
                 "drain", "speak", "unwind"}
    /\ respGen \in Generations /\ respCancelled \in BOOLEAN
    /\ produced \in Chunks
    /\ outbox \in Seq(Chunks) /\ queue \in Seq(Chunks)
    /\ speaker \in {"none", "get", "speak", "finished", "failed"}
    /\ speakerCancelled \in BOOLEAN
    /\ voice \in {"idle", "tts", "play"} /\ chunk \in Chunks
    /\ playback \in {"none", "start", "exists", "broadcast", "sleep", "yield",
                     "finished", "cancelled", "failed"}
    /\ playbackCancelled \in BOOLEAN /\ playbackActive \in BOOLEAN
    /\ history \in Seq([role : {"user", "assistant"}, turn : Generations])
    /\ pendingUser \in Generations /\ pendingReply \in Generations

Init ==
    /\ MediaInit
    /\ generation = 0 /\ handler = "connecting" /\ leaving = FALSE
    /\ speech = FALSE /\ socketUp = TRUE
    /\ resp = "idle" /\ respGen = 0 /\ respCancelled = FALSE
    /\ produced = 0 /\ outbox = <<>> /\ queue = <<>>
    /\ speaker = "none" /\ speakerCancelled = FALSE
    /\ voice = "idle" /\ chunk = 0
    /\ playback = "none" /\ playbackCancelled = FALSE /\ playbackActive = FALSE
    /\ history = <<>> /\ pendingUser = 0 /\ pendingReply = 0

RespLive == resp # "idle"

SpeakerLive == speaker \in {"get", "speak"}

PlaybackLive == playback \in {"start", "exists", "broadcast", "sleep", "yield"}

\* CallState.is_current, asked by the response task, its speaker or its playback.
IsCurrent == respGen = generation

-----------------------------------------------------------------------------
(* Conversation history *)

\* Slip: the role by another API's name, which build_prompt does not know.
EntryMisnamed(role, turn) ==
    [role |-> IF role = "assistant" THEN "model" ELSE role, turn |-> turn]

Entry(role, turn) == [role |-> role, turn |-> turn]

\* The partial turn an interruption keeps.
PendingTurn ==
    (IF pendingUser # 0 THEN <<Entry("user", pendingUser)>> ELSE <<>>) \o
    (IF pendingReply # 0 THEN <<Entry("assistant", pendingReply)>> ELSE <<>>)

\* history[-12:], once a turn is complete.
Trim(h) ==
    IF Len(h) > HistoryCap THEN SubSeq(h, Len(h) - HistoryCap + 1, Len(h)) ELSE h

\* Slip: the turn stays pending.
RecordTurnKeepsPending ==
    /\ history' = Trim(history \o <<Entry("user", respGen), Entry("assistant", respGen)>>)
    /\ UNCHANGED <<pendingUser, pendingReply>>

\* The end of process_audio: the turn is in the history and no longer pending.
RecordTurn ==
    /\ history' = Trim(history \o <<Entry("user", respGen), Entry("assistant", respGen)>>)
    /\ pendingUser' = 0 /\ pendingReply' = 0

-----------------------------------------------------------------------------
(* speak_text, run by the response task itself (welcome, booking answer,    *)
(* fallback) or by the speaker, one chunk at a time.                        *)

Say(c) == voice' = "tts" /\ chunk' = c

VoiceCancelled == IF speaker = "speak" THEN speakerCancelled ELSE respCancelled

\* speak_text returned: the speaker looks for the next chunk, a response task
\* that spoke itself is done.
SpeakReturns ==
    /\ voice' = "idle" /\ UNCHANGED <<chunk, respGen, respCancelled>>
    /\ \/ /\ speaker = "speak"
          /\ speaker' = IF IsCurrent THEN "get" ELSE "finished"
          /\ UNCHANGED <<resp, historyVars>>
       \/ /\ speaker # "speak"
          /\ resp' = "idle"
          /\ IF resp = "speak" THEN RecordTurn ELSE UNCHANGED historyVars
          /\ UNCHANGED speaker

\* Slip: the cancellation is caught and the turn recorded as if it were spoken.
SpeakSwallows(outcome) ==
    /\ voice' = "idle" /\ playback' = "none"
    /\ IF speaker = "speak"
       THEN speaker' = outcome /\ UNCHANGED <<resp, historyVars>>
       ELSE /\ resp' = "idle" /\ UNCHANGED speaker
            /\ IF resp = "speak" THEN RecordTurn ELSE UNCHANGED historyVars
    /\ UNCHANGED <<mediaVars, handlerVars, respGen, respCancelled, produced, outbox,
                   queue, speakerCancelled, chunk, playbackCancelled, playbackActive>>

\* speak_text raised, CancelledError or the websocket's ConnectionClosed: the
\* speaker dies with it, or the response task, whose turn is not recorded.
SpeakRaises(outcome) ==
    /\ voice' = "idle" /\ playback' = "none"
    /\ IF speaker = "speak"
       THEN speaker' = outcome /\ UNCHANGED resp
       ELSE resp' = "idle" /\ UNCHANGED speaker
    /\ UNCHANGED <<mediaVars, handlerVars, respGen, respCancelled, produced, outbox,
                   queue, speakerCancelled, chunk, playbackCancelled,
                   playbackActive, historyVars>>

\* The TTS service answered with audio: the playback task is created.
Synthesized ==
    /\ voice = "tts" /\ ~VoiceCancelled
    /\ voice' = "play" /\ playback' = "start" /\ playbackCancelled' = FALSE
    /\ UNCHANGED <<mediaVars, handlerVars, respVars, speakerVars, chunk,
                   playbackActive, historyVars>>

\* No audio: an error status, a timeout (12 s) or no connection.
SynthesisFailed ==
    /\ voice = "tts" /\ ~VoiceCancelled
    /\ SpeakReturns
    /\ UNCHANGED <<mediaVars, handlerVars, produced, outbox, queue,
                   speakerCancelled, playbackVars>>

PlaybackReturned ==
    /\ voice = "play" /\ playback = "finished" /\ ~VoiceCancelled
    /\ playback' = "none"
    /\ SpeakReturns
    /\ UNCHANGED <<mediaVars, handlerVars, produced, outbox, queue,
                   speakerCancelled, playbackCancelled, playbackActive>>

PlaybackRaised ==
    /\ voice = "play" /\ playback = "failed" /\ ~VoiceCancelled
    /\ SpeakRaises("failed")

\* CancelledError reaches speak_text at its await: the synthesis request is
\* dropped at once, a playback task is waited for.
VoiceUnwind ==
    /\ \/ voice = "tts" /\ VoiceCancelled
       \/ /\ voice = "play" /\ ~PlaybackLive
          /\ VoiceCancelled \/ playback = "cancelled"
    /\ SpeakRaises("finished")

-----------------------------------------------------------------------------
(* play_wav, the playback task *)

\* Slip: play_wav does not ask whether its answer is still wanted.
PlayAnyway == TRUE

PlayCurrent == IsCurrent

\* play_wav begins: nothing is requested for an answer that was interrupted.
PlaybackStart ==
    /\ playback = "start" /\ ~playbackCancelled
    /\ \/ ~PlayCurrent /\ playback' = "finished" /\ UNCHANGED <<line, playbackActive>>
       \/ /\ PlayCurrent /\ Mode = "fs_bridge"
          /\ line' = Append(line, Play("exists", respGen, chunk, TRUE))
          /\ playback' = "exists" /\ UNCHANGED playbackActive
       \/ /\ PlayCurrent /\ Mode = "mod_audio_stream" /\ socketUp
          /\ line' = Append(line, Play("broadcast", respGen, chunk, FALSE))
          /\ playback' = "sleep" /\ playbackActive' = TRUE
       \/ /\ PlayCurrent /\ Mode = "mod_audio_stream" /\ ~socketUp
          /\ playback' = "failed" /\ UNCHANGED <<line, playbackActive>>
    /\ UNCHANGED <<channel, callUp, handlerVars, respVars, speakerVars, voiceVars,
                   playbackCancelled, historyVars>>

\* play_wav sleeps for the duration it was told, if its answer is still wanted.
Sleep(how) ==
    /\ playback' = IF IsCurrent THEN how ELSE "finished"
    /\ playbackActive' = (playbackActive \/ IsCurrent)

\* The audio requested for this chunk that started when it was requested.
OnTime(a) == a.gen = respGen /\ a.chunk = chunk /\ ~a.late

\* The sleep is over.  Its length is the audio's, and it begins when the audio
\* does, so it does not end before audio that started on time.
SleepOver ==
    /\ ~playbackCancelled
    /\ \/ playback = "yield"
       \/ /\ playback = "sleep"
          /\ \A i \in DOMAIN channel : ~OnTime(channel[i])
          /\ Mode = "mod_audio_stream" =>
                \A i \in DOMAIN line : line[i].op # "broadcast"
    /\ playback' = "finished"
    /\ playbackActive' = (playbackActive /\ ~IsCurrent)
    /\ UNCHANGED <<mediaVars, handlerVars, respVars, speakerVars, voiceVars,
                   playbackCancelled, historyVars>>

\* fs_uuid_exists gives up (3 s) and answers False; fs_broadcast gives up
\* (10 s) and answers a duration of 0.0.
PlaybackTimeout ==
    /\ ~Reliable /\ ~playbackCancelled
    /\ \/ playback = "exists" /\ playback' = "finished" /\ UNCHANGED playbackActive
       \/ playback = "broadcast" /\ Sleep("yield")
    /\ \E sent \in BOOLEAN : line' = Abandon(line, FALSE, sent)
    /\ UNCHANGED <<channel, callUp, handlerVars, respVars, speakerVars, voiceVars,
                   playbackCancelled, historyVars>>

\* CancelledError at the await of play_wav.
PlaybackUnwind ==
    /\ PlaybackLive /\ playbackCancelled
    /\ playback' = "cancelled"
    /\ playbackActive' = (playbackActive /\ ~(playback \in {"sleep", "yield"} /\ IsCurrent))
    /\ IF playback \in {"exists", "broadcast"}
       THEN \E sent \in BOOLEAN : line' = Abandon(line, FALSE, sent)
       ELSE UNCHANGED line
    /\ UNCHANGED <<channel, callUp, handlerVars, respVars, speakerVars, voiceVars,
                   playbackCancelled, historyVars>>

-----------------------------------------------------------------------------
(* fs-bridge, or mod_audio_stream, serves the oldest request. *)

\* The answer reaches play_wav, unless its cancellation does first.
Answered == Head(line).awaited /\ ~playbackCancelled

ServeExists ==
    /\ Serving("exists")
    /\ \E exists \in ExistsAnswers :
        \/ /\ Answered /\ exists
           /\ line' = Append(Tail(line), Play("broadcast", respGen, chunk, TRUE))
           /\ playback' = "broadcast"
        \/ /\ Answered /\ ~exists
           /\ line' = Tail(line) /\ playback' = "finished"
        \/ /\ ~Answered
           /\ line' = Tail(line) /\ UNCHANGED playback
    /\ UNCHANGED <<channel, callUp, handlerVars, respVars, speakerVars, voiceVars,
                   playbackCancelled, playbackActive, historyVars>>

ServeBroadcast ==
    /\ Serving("broadcast")
    /\ channel' \in AfterBroadcast(Head(line))
    /\ line' = Tail(line)
    /\ IF Answered THEN Sleep("sleep") ELSE UNCHANGED <<playback, playbackActive>>
    /\ UNCHANGED <<callUp, handlerVars, respVars, speakerVars, voiceVars,
                   playbackCancelled, historyVars>>

ServeStop ==
    /\ Serving("stop")
    /\ channel' \in AfterStop
    /\ line' = Tail(line)
    /\ handler' = IF Head(line).awaited THEN "gather" ELSE handler
    /\ UNCHANGED <<callUp, generation, leaving, speech, socketUp, respVars, speakerVars,
                   voiceVars, playbackVars, historyVars>>

\* A request that never left the agent is nothing to serve.
SkipLost ==
    /\ Serving("lost")
    /\ line' = Tail(line)
    /\ UNCHANGED <<channel, callUp, handlerVars, respVars, speakerVars, voiceVars,
                   playbackVars, historyVars>>

-----------------------------------------------------------------------------
(* The speech queue: process_audio puts, speak_queue_worker gets. *)

\* await queue.put for each item in turn: what fits is put at once, the task
\* waits with the rest.  After the None it waits for the speaker.
Deliver(items) ==
    LET room == QueueSize - Len(queue)
        n    == IF Len(items) < room THEN Len(items) ELSE room
        rest == SubSeq(items, n + 1, Len(items))
    IN  /\ queue' = queue \o SubSeq(items, 1, n)
        /\ outbox' = rest
        /\ resp' = IF rest # <<>> THEN "put"
                   ELSE IF items[Len(items)] = End THEN "drain" ELSE "stream"

\* Slip: the speaker takes the None for an empty chunk and waits for more.
SpeakerGetsOn ==
    /\ speaker = "get" /\ ~speakerCancelled /\ queue # <<>>
    /\ queue' = Tail(queue)
    /\ IF Head(queue) # End /\ IsCurrent
       THEN speaker' = "speak" /\ Say(Head(queue))
       ELSE UNCHANGED <<speaker, voiceVars>>
    /\ UNCHANGED <<mediaVars, handlerVars, respVars, produced, outbox, speakerCancelled,
                   playbackVars, historyVars>>

\* The speaker takes the next chunk; it stops at the None, and when its turn is
\* no longer the current one speak_text returns without speaking.
SpeakerGet ==
    /\ speaker = "get" /\ ~speakerCancelled /\ queue # <<>>
    /\ queue' = Tail(queue)
    /\ IF Head(queue) # End /\ IsCurrent
       THEN speaker' = "speak" /\ Say(Head(queue))
       ELSE speaker' = "finished" /\ UNCHANGED voiceVars
    /\ UNCHANGED <<mediaVars, handlerVars, respVars, produced, outbox, speakerCancelled,
                   playbackVars, historyVars>>

\* CancelledError at queue.get.
SpeakerUnwind ==
    /\ speaker = "get" /\ speakerCancelled
    /\ speaker' = "finished"
    /\ UNCHANGED <<mediaVars, handlerVars, respVars, produced, outbox, queue,
                   speakerCancelled, voiceVars, playbackVars, historyVars>>

\* Slip: the response task waits for the speaker without cancelling it.
CancelNobody == UNCHANGED <<speakerCancelled, playbackCancelled>>

\* speaker.cancel(): a speaker that waits for the playback cancels it too.
CancelSpeaker ==
    /\ speakerCancelled' = SpeakerLive
    /\ playbackCancelled' = (playbackCancelled \/ (voice = "play" /\ PlaybackLive))

-----------------------------------------------------------------------------
(* process_audio, the response task *)

\* The utterance was too quiet, the STT service failed, or it heard nothing.
HeardNothing ==
    /\ resp = "stt" /\ ~respCancelled
    /\ resp' = "idle"
    /\ UNCHANGED <<mediaVars, handlerVars, respGen, respCancelled, speakerVars, voiceVars,
                   playbackVars, historyVars>>

Transcribed ==
    /\ resp = "stt" /\ ~respCancelled
    /\ IF IsCurrent
       THEN resp' = "appointment" /\ pendingUser' = respGen /\ pendingReply' = 0
       ELSE resp' = "idle" /\ UNCHANGED <<pendingUser, pendingReply>>
    /\ UNCHANGED <<mediaVars, handlerVars, respGen, respCancelled, speakerVars, voiceVars,
                   playbackVars, history>>

\* handle_appointment_turn answered the turn: the answer is spoken whole.
AppointmentReply ==
    /\ resp = "appointment" /\ ~respCancelled
    /\ IF IsCurrent
       THEN resp' = "speak" /\ pendingReply' = respGen /\ Say(1)
       ELSE resp' = "idle" /\ UNCHANGED <<pendingReply, voiceVars>>
    /\ UNCHANGED <<mediaVars, handlerVars, respGen, respCancelled, speakerVars,
                   playbackVars, history, pendingUser>>

NotAnAppointment ==
    /\ resp = "appointment" /\ ~respCancelled
    /\ resp' = "rag"
    /\ UNCHANGED <<mediaVars, handlerVars, respGen, respCancelled, speakerVars, voiceVars,
                   playbackVars, historyVars>>

\* rag_query returned, context or "" after an error: the speaker starts and the
\* LLM's reply is streamed.
Retrieved ==
    /\ resp = "rag" /\ ~respCancelled
    /\ IF IsCurrent
       THEN /\ resp' = "stream" /\ speaker' = "get" /\ speakerCancelled' = FALSE
            /\ queue' = <<>> /\ outbox' = <<>> /\ produced' = 0 /\ chunk' = 0
       ELSE resp' = "idle" /\ UNCHANGED <<speakerVars, chunk>>
    /\ UNCHANGED <<mediaVars, handlerVars, respGen, respCancelled, voice, playbackVars,
                   historyVars>>

\* One token of the reply, which may complete a chunk.  A token that completes
\* several is several of these steps.
Token(completes) ==
    /\ resp = "stream" /\ ~respCancelled
    /\ \/ /\ ~IsCurrent
          /\ resp' = "unwind" /\ CancelSpeaker
          /\ UNCHANGED <<produced, outbox, queue, pendingReply>>
       \/ /\ IsCurrent
          /\ pendingReply' = respGen
          /\ IF completes
             THEN produced < MaxChunks /\ produced' = produced + 1 /\ Deliver(<<produced + 1>>)
             ELSE UNCHANGED <<produced, outbox, queue, resp>>
          /\ UNCHANGED <<speakerCancelled, playbackCancelled>>
    /\ UNCHANGED <<mediaVars, handlerVars, respGen, respCancelled, speaker, voiceVars,
                   playback, playbackActive, history, pendingUser>>

\* The stream is over, or broke off: the text left over is the last chunk, then
\* the None.  A reply with text has at least one chunk, one without has none.
StreamEnd(leftover) ==
    /\ resp = "stream" /\ ~respCancelled
    /\ leftover => pendingReply = respGen /\ produced < MaxChunks
    /\ produced = 0 /\ pendingReply = respGen => leftover
    /\ produced' = IF leftover THEN produced + 1 ELSE produced
    /\ Deliver(IF leftover THEN <<produced + 1, End>> ELSE <<End>>)
    /\ UNCHANGED <<mediaVars, handlerVars, respGen, respCancelled, speaker,
                   speakerCancelled, voiceVars, playbackVars, historyVars>>

\* The queue has room for what the task waits to put.
ResumePut ==
    /\ resp = "put" /\ ~respCancelled /\ Len(queue) < QueueSize
    /\ Deliver(outbox)
    /\ UNCHANGED <<mediaVars, handlerVars, respGen, respCancelled, produced, speaker,
                   speakerCancelled, voiceVars, playbackVars, historyVars>>

\* The speaker returned: the turn is recorded, after the fallback sentence when
\* the reply was empty.
Voiced ==
    /\ resp = "drain" /\ ~respCancelled /\ speaker = "finished"
    /\ speaker' = "none"
    /\ IF produced = 0
       THEN /\ UNCHANGED historyVars
            /\ IF IsCurrent THEN resp' = "speak" /\ Say(1)
                            ELSE resp' = "idle" /\ UNCHANGED voiceVars
       ELSE resp' = "idle" /\ RecordTurn /\ UNCHANGED voiceVars
    /\ UNCHANGED <<mediaVars, handlerVars, respGen, respCancelled, produced, outbox,
                   queue, speakerCancelled, playbackVars>>

\* The speaker raised: so does process_audio, and the turn stays pending.
SpeakerLost ==
    /\ resp = "drain" /\ ~respCancelled /\ speaker = "failed"
    /\ resp' = "idle" /\ speaker' = "none"
    /\ UNCHANGED <<mediaVars, handlerVars, respGen, respCancelled, produced, outbox, queue,
                   speakerCancelled, voiceVars, playbackVars, historyVars>>

\* CancelledError at an await of process_audio: before the speaker exists the
\* task ends; while it streams or puts it cancels the speaker ...
RespUnwind ==
    /\ respCancelled
    /\ \/ /\ resp \in {"stt", "appointment", "rag"}
          /\ resp' = "idle" /\ UNCHANGED <<speakerCancelled, playbackCancelled>>
       \/ /\ resp \in {"stream", "put"}
          /\ resp' = "unwind" /\ CancelSpeaker
    /\ UNCHANGED <<mediaVars, handlerVars, respGen, respCancelled, produced, outbox, queue,
                   speaker, voiceVars, playback, playbackActive, historyVars>>

\* ... and ends when the speaker has.
SpeakerGathered ==
    /\ resp = "unwind" \/ (resp = "drain" /\ respCancelled)
    /\ ~SpeakerLive
    /\ resp' = "idle" /\ speaker' = "none"
    /\ UNCHANGED <<mediaVars, handlerVars, respGen, respCancelled, produced, outbox, queue,
                   speakerCancelled, voiceVars, playbackVars, historyVars>>

-----------------------------------------------------------------------------
(* handler: the websocket's message loop *)

\* Before the loop: the DID's configuration is fetched and the welcome (or the
\* probe text) starts, unless there is none to say or no call to say it to.
Connect(welcome) ==
    /\ handler = "connecting"
    /\ handler' = "loop"
    /\ IF welcome
       THEN /\ generation' = generation + 1
            /\ resp' = "welcome" /\ respGen' = generation + 1 /\ respCancelled' = FALSE
            /\ Say(1)
       ELSE UNCHANGED <<generation, respVars, voiceVars>>
    /\ UNCHANGED <<mediaVars, leaving, speech, socketUp, speakerVars, playbackVars,
                   historyVars>>

\* interrupt_response up to its first await: the partial turn is kept, the
\* generation moves on, the live tasks are marked and the stop is sent.
\* Cancelling a task that waits for another cancels that one as well.
Interrupt ==
    /\ history' = history \o PendingTurn
    /\ pendingUser' = 0 /\ pendingReply' = 0
    /\ generation' = generation + 1
    /\ respCancelled' = RespLive
    /\ speakerCancelled' = (speakerCancelled \/ (resp = "drain" /\ SpeakerLive))
    /\ playbackCancelled' = PlaybackLive
    /\ IF Mode = "fs_bridge"
       THEN handler' = "stop" /\ line' = Append(line, Stop(TRUE))
       ELSE handler' = "gather" /\ line' = IF socketUp THEN Append(line, Stop(FALSE)) ELSE line
    /\ UNCHANGED <<channel, callUp, speech, socketUp, resp, respGen, produced, outbox,
                   queue, speaker, voiceVars, playback, playbackActive>>

\* Slip: the stop request has no timeout.
StopWaits == handler = "stop" /\ UNCHANGED vars

\* fs_stop_playback gives up (3 s).
StopTimeout ==
    /\ ~Reliable /\ handler = "stop"
    /\ handler' = "gather"
    /\ \E sent \in BOOLEAN : line' = Abandon(line, TRUE, sent)
    /\ UNCHANGED <<channel, callUp, generation, leaving, speech, socketUp, respVars,
                   speakerVars, voiceVars, playbackVars, historyVars>>

\* Slip: the tasks are cancelled and not waited for.
NotGathered == TRUE

TasksGathered == ~RespLive /\ ~PlaybackLive

\* The rest of interrupt_response, then what its caller does next.
InterruptDone ==
    /\ handler = "gather" /\ TasksGathered
    /\ playbackActive' = FALSE /\ playback' = "none" /\ resp' = "idle"
    /\ handler' = IF leaving THEN "closed" ELSE "loop"
    /\ speech' = ~leaving
    /\ UNCHANGED <<mediaVars, generation, leaving, socketUp, respGen, respCancelled,
                   speakerVars, voiceVars, playbackCancelled, historyVars>>

\* Enough active frames: the caller speaks.  While a response is live frames
\* count as active only with barge-in.
SpeechStart ==
    /\ handler = "loop" /\ ~speech /\ generation < MaxGeneration
    /\ IF RespLive
       THEN BargeInEnabled /\ Interrupt /\ UNCHANGED leaving
       ELSE /\ speech' = TRUE
            /\ UNCHANGED <<mediaVars, generation, handler, leaving, socketUp, respVars,
                           speakerVars, voiceVars, playbackVars, historyVars>>

\* Enough silence, or the longest utterance: a response task takes the audio.
SpeechEnd ==
    /\ handler = "loop" /\ speech /\ generation < MaxGeneration
    /\ speech' = FALSE
    /\ generation' = generation + 1
    /\ resp' = "stt" /\ respGen' = generation + 1 /\ respCancelled' = FALSE
    /\ UNCHANGED <<mediaVars, handler, leaving, socketUp, speakerVars, voiceVars,
                   playbackVars, historyVars>>

\* The message loop ends: the finally block interrupts what is left.
Disconnect ==
    /\ handler = "loop" /\ ~socketUp
    /\ leaving' = TRUE
    /\ Interrupt

-----------------------------------------------------------------------------
(* The caller and the network. *)

HangUp ==
    /\ callUp
    /\ callUp' = FALSE /\ channel' = <<>> /\ socketUp' = FALSE
    /\ UNCHANGED <<line, generation, handler, leaving, speech, respVars, speakerVars,
                   voiceVars, playbackVars, historyVars>>

\* The websocket closes under a call that goes on.
LoseSocket ==
    /\ callUp /\ socketUp
    /\ socketUp' = FALSE
    /\ UNCHANGED <<mediaVars, generation, handler, leaving, speech, respVars, speakerVars,
                   voiceVars, playbackVars, historyVars>>

PlayedOut ==
    /\ ChannelFinish
    /\ UNCHANGED <<line, callUp, handlerVars, respVars, speakerVars, voiceVars,
                   playbackVars, historyVars>>

\* The connection is gone and nothing is left to do.
CallOver ==
    /\ handler = "closed" /\ line = <<>> /\ channel = <<>>
    /\ UNCHANGED vars

-----------------------------------------------------------------------------

RespStep ==
    \/ HeardNothing \/ Transcribed \/ AppointmentReply \/ NotAnAppointment \/ Retrieved
    \/ \E b \in BOOLEAN : Token(b) \/ StreamEnd(b)
    \/ ResumePut \/ Voiced \/ SpeakerLost \/ RespUnwind \/ SpeakerGathered

VoiceStep ==
    \/ Synthesized \/ SynthesisFailed \/ PlaybackReturned \/ PlaybackRaised \/ VoiceUnwind

SpeakerStep == SpeakerGet \/ SpeakerUnwind

PlaybackStep == PlaybackStart \/ SleepOver \/ PlaybackTimeout \/ PlaybackUnwind

ServerStep == ServeExists \/ ServeBroadcast \/ ServeStop \/ SkipLost

HandlerStep ==
    \/ \E welcome \in BOOLEAN : Connect(welcome)
    \/ StopTimeout \/ InterruptDone \/ Disconnect

CallerStep == SpeechStart \/ SpeechEnd \/ HangUp \/ LoseSocket

Next ==
    \/ RespStep \/ VoiceStep \/ SpeakerStep \/ PlaybackStep
    \/ ServerStep \/ HandlerStep \/ CallerStep \/ PlayedOut \/ CallOver

Spec == Init /\ [][Next]_vars

\* Every await of a task ends: the downstream requests and the LLM's stream have
\* timeouts, sleeps end, cancellations are delivered, and the loop runs what is
\* ready.  FreeSWITCH plays what it has.  Only a reliable server answers.
Fairness ==
    /\ WF_vars(RespStep) /\ WF_vars(VoiceStep) /\ WF_vars(SpeakerStep)
    /\ WF_vars(PlaybackStep) /\ WF_vars(HandlerStep) /\ WF_vars(PlayedOut)
    /\ Reliable => WF_vars(ServerStep)

FairSpec == Spec /\ Fairness

-----------------------------------------------------------------------------
(* Safety *)

\* The agent can still reach FreeSWITCH: mod_audio_stream's only way is the
\* websocket, and without it nobody hears the caller either.
Connected == socketUp \/ Mode = "fs_bridge"

\* A stop waits in the line behind position i.
StoppedAfter(i) == \E j \in DOMAIN line : j > i /\ line[j].op = "stop"

\* While the caller's utterance is recorded (handler, main.py) the agent is
\* silent: no task of an earlier answer is alive, and audio that still plays or
\* waits to be played has a stop behind it.  Otherwise the agent would talk into
\* the recording and transcribe its own voice.
CallerHasFloor ==
    handler = "loop" /\ speech =>
        /\ ~RespLive /\ ~SpeakerLive /\ ~PlaybackLive
        /\ Connected /\ channel # <<>> => StoppedAfter(0)
        /\ \A i \in DOMAIN line :
              Connected /\ line[i].op = "broadcast" => StoppedAfter(i)

\* Audio of an answer that was interrupted or superseded is never left to play:
\* wherever it is, requested or on the channel, a stop comes behind it.  A
\* playback task the speaker creates between the interruption and its own
\* cancellation must not request audio behind that stop (play_wav).
NoStaleAudio ==
    Connected =>
        /\ \A i \in DOMAIN line :
              line[i].op = "broadcast" /\ line[i].gen # generation => StoppedAfter(i)
        /\ \A i \in DOMAIN channel : channel[i].gen # generation => StoppedAfter(0)

\* After a call nothing runs on: when the handler returns every task it started
\* has ended, and no reply is pending.
NothingLeftBehind ==
    handler = "closed" =>
        /\ ~RespLive /\ ~SpeakerLive /\ ~PlaybackLive /\ voice = "idle"
        /\ pendingUser = 0 /\ pendingReply = 0 /\ ~playbackActive

-----------------------------------------------------------------------------
(* Action properties *)

\* A response is started only when nothing of the one before is alive; else two
\* would speak, share the state's fields, and only one could be interrupted.
OneResponse ==
    [][respGen' # respGen => ~RespLive /\ ~SpeakerLive /\ ~PlaybackLive]_vars

\* A response that is no longer the current one leaves the conversation alone:
\* between the interruption and its last step it neither records its turn nor
\* sets what is pending.
SupersededIsMute ==
    [][RespLive /\ respGen # generation => UNCHANGED historyVars]_vars

-----------------------------------------------------------------------------
(* Liveness *)

\* Every response ends: it is voiced, fails, or is cancelled and unwinds.  In
\* particular the task that waits for room in the queue of a speaker that died
\* is released, and with barge-in disabled the caller is heard again.
ResponseEnds ==
    \A g \in 1 .. MaxGeneration :
        (RespLive /\ respGen = g) ~> ~(RespLive /\ respGen = g)

\* An interruption ends although the bridge may never answer the stop: the
\* handler reads the caller's audio again, or returns.
InterruptEnds == handler \in {"stop", "gather"} ~> handler \in {"loop", "closed"}

\* Once the websocket is closed the handler returns.
HandlerReturns == ~socketUp ~> handler = "closed"

-----------------------------------------------------------------------------
(* Refinement *)

Floor ==
    CASE leaving                           -> "over"
      [] ~leaving /\ (speech \/ handler \in {"stop", "gather"}) -> "caller"
      [] ~leaving /\ ~speech /\ handler \in {"connecting", "loop"} ->
            IF RespLive THEN "agent" ELSE "open"

Conversation == INSTANCE TurnTaking WITH
    Turns <- Generations, floor <- Floor, turn <- respGen, asked <- pendingUser,
    answered <- pendingReply, record <- history

\* The tasks, the queue and the cancellations of a call implement turn taking:
\* one party has the floor, each turn is recorded once, whole or cut off, by one
\* step, and the agent gives the floor up in the end.
TakesTurns == Conversation!Spec

\* The history the LLM is given is the conversation: no turn is in it twice, as an
\* interruption at the moment of its completion could have it, turns are in the
\* order they were spoken, and a reply comes after its question.
HistoryInOrder == Conversation!RecordInOrder

=============================================================================
