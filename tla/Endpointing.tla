---- MODULE Endpointing ----
(* The frame loop of the agent's websocket handler (src/agent/main.py,        *)
(* handler and speech_frame_is_active): it counts frames of 20 ms to decide   *)
(* when the caller starts and stops to speak, and buffers what STT will get.  *)
(* A frame is its position in the call; buffers are sequences of positions.   *)
(* What the response tasks do is left to AgentCall: here one is active or not.*)
EXTENDS Naturals, Sequences, FiniteSets

CONSTANTS
    BargeSettings,  \* values of barge_frames: active frames that start a recording
    PreFrames,      \* pre_bytes: frames kept from before it, 0.4 s
    MinFrames,      \* min_bytes
    MaxFrames,      \* max_bytes
    SilenceLimit,   \* silence_limit: inactive frames that end a recording
    CallLength      \* bound: frames of a call

ASSUME FramesAssumption ==
    /\ BargeSettings \subseteq Nat \ {0}
    /\ PreFrames \in Nat \ {0}
    /\ SilenceLimit \in Nat \ {0}
    /\ MinFrames \in Nat /\ MaxFrames \in Nat /\ CallLength \in Nat
    /\ PreFrames < MaxFrames /\ MinFrames <= MaxFrames

VARIABLES
    bargeInEnabled,     \* BARGE_IN_ENABLED, a setting
    bargeFrames,        \* barge_frames, from the setting BARGE_IN_MS
    frames,             \* every frame so far (history): its sound, whether it was
                        \* active and whether a response was
    pre,                \* pre_speech_buf
    buffer,             \* audio_buffer
    speechDetected, activeCount, silenceCount,
    responseActive,     \* a response task is alive
    utterances,         \* what was captured, and at which frame (history)
    interruptions       \* positions at which a response was interrupted (history)

settings == <<bargeInEnabled, bargeFrames>>
loopVars == <<pre, buffer, speechDetected, activeCount, silenceCount>>
vars == <<settings, frames, loopVars, responseActive, utterances, interruptions>>

\* quiet; noise that is taken for speech unless a response is active; speech
\* that also passes the detector for barge-in and BARGE_IN_RMS_THRESHOLD.
Sounds == {"quiet", "noise", "speech"}

TypeOK ==
    /\ bargeInEnabled \in BOOLEAN
    /\ bargeFrames \in BargeSettings
    /\ frames \in Seq([sound : Sounds, active : BOOLEAN, response : BOOLEAN])
    /\ pre \in Seq(1 .. Len(frames)) /\ Len(pre) <= PreFrames
    /\ buffer \in Seq(1 .. Len(frames)) /\ Len(buffer) < MaxFrames
    /\ speechDetected \in BOOLEAN /\ responseActive \in BOOLEAN
    /\ activeCount \in 0 .. Len(frames) /\ silenceCount \in 0 .. Len(frames)
    /\ utterances \in Seq([audio : Seq(1 .. Len(frames)), end : 1 .. Len(frames)])
    /\ interruptions \subseteq 1 .. Len(frames)

\* The welcome may be playing when the first frame arrives.
Init ==
    /\ bargeInEnabled \in BOOLEAN
    /\ bargeFrames \in BargeSettings
    /\ frames = <<>>
    /\ pre = <<>> /\ buffer = <<>>
    /\ speechDetected = FALSE
    /\ activeCount = 0 /\ silenceCount = 0
    /\ responseActive \in BOOLEAN
    /\ utterances = <<>>
    /\ interruptions = {}

----------------------------------------------------------------------------

SpeechFrameIsActive(sound) ==
    IF responseActive THEN bargeInEnabled /\ sound = "speech" ELSE sound # "quiet"

Position == Len(frames) + 1

\* Slip: one frame too many.
PreWithOneMore ==
    LET all == Append(pre, Position)
    IN SubSeq(all, IF Len(all) > PreFrames + 1 THEN Len(all) - PreFrames ELSE 1, Len(all))

\* pre_speech_buf with the frame that arrives.
PreWithFrame ==
    LET all == Append(pre, Position)
    IN SubSeq(all, IF Len(all) > PreFrames THEN Len(all) - PreFrames + 1 ELSE 1, Len(all))

\* Slip: no longest utterance.
ShouldProcessInSilence(audio, silence) ==
    /\ Len(audio) >= MinFrames
    /\ silence >= SilenceLimit

ShouldProcess(audio, silence) ==
    /\ Len(audio) >= MinFrames
    /\ silence >= SilenceLimit \/ Len(audio) >= MaxFrames

\* Slip: the count of active frames goes on.
CaptureCounting(audio) ==
    /\ utterances' = Append(utterances, [audio |-> audio, end |-> Position])
    /\ buffer' = <<>> /\ pre' = <<>>
    /\ silenceCount' = 0
    /\ speechDetected' = FALSE
    /\ responseActive' = TRUE
    /\ UNCHANGED activeCount

\* The last frame of a recording: its audio is captured, everything is reset and
\* the response task of the utterance is started.
Capture(audio) ==
    /\ utterances' = Append(utterances, [audio |-> audio, end |-> Position])
    /\ buffer' = <<>> /\ pre' = <<>>
    /\ silenceCount' = 0 /\ activeCount' = 0
    /\ speechDetected' = FALSE
    /\ responseActive' = TRUE

Record(audio, silence, active) ==
    IF ShouldProcess(audio, silence)
    THEN Capture(audio)
    ELSE /\ buffer' = audio /\ pre' = PreWithFrame
         /\ silenceCount' = silence /\ activeCount' = active
         /\ speechDetected' = TRUE
         /\ responseActive' = FALSE
         /\ UNCHANGED utterances

Arrives(sound) ==
    /\ Len(frames) < CallLength
    /\ frames' = Append(frames, [sound |-> sound, active |-> SpeechFrameIsActive(sound),
                                 response |-> responseActive])
    /\ UNCHANGED settings

\* Nothing is recorded yet: a pause, or an active frame that does not start it.
NotYet(sound) ==
    /\ Arrives(sound)
    /\ ~ speechDetected
    /\ SpeechFrameIsActive(sound) => activeCount + 1 < bargeFrames
    /\ activeCount' = IF SpeechFrameIsActive(sound) THEN activeCount + 1 ELSE 0
    /\ pre' = PreWithFrame
    /\ UNCHANGED <<buffer, speechDetected, silenceCount, responseActive, utterances, interruptions>>

\* The active frame that starts a recording: a response is interrupted, and the
\* recording begins with pre_speech_buf, which holds this frame already.
StartRecording(sound) ==
    /\ Arrives(sound)
    /\ ~ speechDetected
    /\ SpeechFrameIsActive(sound)
    /\ activeCount + 1 >= bargeFrames
    /\ interruptions' = IF responseActive THEN interruptions \cup {Position} ELSE interruptions
    /\ Record(Append(PreWithFrame, Position), 0, activeCount + 1)

\* Slip: speech in a pause does not end it.
ContinueSilence(sound) ==
    /\ Arrives(sound)
    /\ speechDetected
    /\ IF SpeechFrameIsActive(sound)
       THEN Record(Append(buffer, Position), silenceCount, activeCount + 1)
       ELSE Record(Append(buffer, Position), silenceCount + 1, activeCount)
    /\ UNCHANGED interruptions

\* A frame of a recording, of speech or of a pause in it.
Continue(sound) ==
    /\ Arrives(sound)
    /\ speechDetected
    /\ IF SpeechFrameIsActive(sound)
       THEN Record(Append(buffer, Position), 0, activeCount + 1)
       ELSE Record(Append(buffer, Position), silenceCount + 1, activeCount)
    /\ UNCHANGED interruptions

\* The response task ends.
ResponseEnds ==
    /\ responseActive
    /\ responseActive' = FALSE
    /\ UNCHANGED <<settings, frames, loopVars, utterances, interruptions>>

Next ==
    \/ \E sound \in Sounds : NotYet(sound) \/ StartRecording(sound) \/ Continue(sound)
    \/ ResponseEnds

Spec == Init /\ [][Next]_vars

----------------------------------------------------------------------------
(* Properties                                                                 *)

Active(i) == frames[i].active

\* The positions after frame p at which a recording is due to start.
Starts(p) == {t \in p + bargeFrames .. Len(frames) : \A i \in t - bargeFrames + 1 .. t : Active(i)}

Least(S) == CHOOSE x \in S : \A y \in S : x <= y

\* The recording after frame p that started with frame t, up to frame e: t twice,
\* before it what fits into PreFrames and was not captured before.
Audio(p, t, e) ==
    LET first == IF t - PreFrames > p THEN t - PreFrames ELSE p
        kept == t - first
    IN [k \in 1 .. kept + e - t + 1 |-> IF k <= kept THEN first + k ELSE t + k - kept - 1]

\* The frames at which it is due to end.
Ends(p, t) ==
    {e \in t .. Len(frames) :
        /\ Len(Audio(p, t, e)) >= MinFrames
        /\ \/ e - t >= SilenceLimit /\ \A i \in e - SilenceLimit + 1 .. e : ~ Active(i)
           \/ Len(Audio(p, t, e)) >= MaxFrames}

EndOf(i) == IF i = 0 THEN 0 ELSE utterances[i].end

\* What is captured, and what is being recorded, is what a description of the
\* whole call without counters and buffers says: a recording starts with the
\* first bargeFrames active frames in a row after the last capture and ends with
\* the first SilenceLimit inactive ones in a row, or at MaxFrames. So no speech
\* of that length is lost and none is captured twice.
MatchesReference ==
    /\ \A u \in 1 .. Len(utterances) :
          LET p == EndOf(u - 1)
              t == Least(Starts(p))
          IN /\ Starts(p) # {} /\ Ends(p, t) # {}
             /\ utterances[u] = [audio |-> Audio(p, t, Least(Ends(p, t))), end |-> Least(Ends(p, t))]
    /\ LET p == EndOf(Len(utterances))
           t == Least(Starts(p))
       IN /\ speechDetected <=> Starts(p) # {}
          /\ speechDetected => Ends(p, t) = {} /\ buffer = Audio(p, t, Len(frames))

\* A response is only interrupted by bargeFrames frames of speech in a row that
\* all came while it was active: noise from before it began, the speech that it
\* answers and softer sounds do not count (BARGE_IN_MS, "Caller speech duration
\* required to interrupt AI playback", README.md:289).
InterruptedOnlyBySpeech ==
    \A k \in interruptions :
        /\ bargeInEnabled /\ k >= bargeFrames
        /\ \A i \in k - bargeFrames + 1 .. k : frames[i].sound = "speech" /\ frames[i].response

\* Without barge-in nothing that was heard while the agent spoke, its own echo for
\* one, reaches STT, although pre_speech_buf goes on collecting it: this needs a
\* pre_speech_buf no longer than BARGE_IN_MS, as the default settings have it.
HearsNoEcho ==
    ~ bargeInEnabled /\ PreFrames <= bargeFrames =>
        \A u \in 1 .. Len(utterances) :
            \A k \in 1 .. Len(utterances[u].audio) : ~ frames[utterances[u].audio[k]].response
====
