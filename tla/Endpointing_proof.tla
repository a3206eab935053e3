---- MODULE Endpointing_proof ----
(* What interrupts the agent and what reaches STT, for calls of any length    *)
(* and any settings of the frame loop: no echo of the agent, and frame for    *)
(* frame what a description without counters and buffers says.                *)
EXTENDS Endpointing, SequenceTheorems, TLAPS

Frame == [sound : Sounds, active : BOOLEAN, response : BOOLEAN]

Captured == [audio : Seq(1 .. Len(frames)), end : 1 .. Len(frames)]

Window == Len(frames) - activeCount + 1 .. Len(frames)

\* The frames that are counted are the last ones, all of them active, ...
Counted ==
    ~ speechDetected =>
        activeCount < bargeFrames /\ \A i \in Window : Active(i)

\* ... and if a response is active they came while it was: the count starts anew
\* when a response is started.
CountedInResponse ==
    ~ speechDetected /\ responseActive => \A i \in Window : frames[i].response

\* A frame is active during a response only if it is speech and may interrupt.
ActiveIsSpeech ==
    \A i \in 1 .. Len(frames) :
        Active(i) /\ frames[i].response => bargeInEnabled /\ frames[i].sound = "speech"

\* Nothing is recorded while a response is active.
OneSpeaks == speechDetected => ~ responseActive

\* pre_speech_buf holds the last frames.
PreIsRecent == \A k \in 1 .. Len(pre) : pre[k] = Len(frames) - Len(pre) + k

\* Neither does what is being recorded hold what was heard while the agent spoke.
BufferIsClean ==
    ~ bargeInEnabled /\ PreFrames <= bargeFrames =>
        \A k \in 1 .. Len(buffer) : ~ frames[buffer[k]].response

\* The inductive invariant.
IInv ==
    /\ TypeOK
    /\ Counted /\ CountedInResponse /\ ActiveIsSpeech /\ OneSpeaks /\ PreIsRecent
    /\ InterruptedOnlyBySpeech /\ BufferIsClean /\ HearsNoEcho

LEMMA FieldsOf ==
    ASSUME NEW s, NEW a, NEW r, NEW f, f = [sound |-> s, active |-> a, response |-> r]
    PROVE  f.sound = s /\ f.active = a /\ f.response = r
  OBVIOUS

LEMMA InitIInv == Init => IInv
<1> SUFFICES ASSUME Init PROVE IInv
  OBVIOUS
<1>1. Len(frames) = 0 /\ frames = <<>> /\ pre = <<>> /\ buffer = <<>> /\ utterances = <<>>
      /\ Len(pre) = 0 /\ Len(buffer) = 0 /\ Len(utterances) = 0
  BY DEF Init
<1>2. TypeOK
  <2>1. bargeInEnabled \in BOOLEAN /\ speechDetected \in BOOLEAN /\ responseActive \in BOOLEAN
    BY Zenon DEF Init
  <2>2. PreFrames \in Nat /\ 0 < MaxFrames /\ bargeFrames \in BargeSettings
    BY FramesAssumption DEF Init
  <2>3. frames \in Seq(Frame) /\ pre \in Seq(1 .. Len(frames)) /\ buffer \in Seq(1 .. Len(frames))
        /\ utterances \in Seq(Captured)
    BY <1>1
  <2>4. activeCount \in 0 .. Len(frames) /\ silenceCount \in 0 .. Len(frames)
        /\ interruptions \subseteq 1 .. Len(frames)
    BY <1>1 DEF Init
  <2> QED
    BY <1>1, <2>1, <2>2, <2>3, <2>4 DEF TypeOK, Frame, Captured
<1>3. Counted /\ CountedInResponse /\ OneSpeaks
  BY <1>1, FramesAssumption DEF Init, Counted, CountedInResponse, OneSpeaks, Window
<1>4. ActiveIsSpeech /\ PreIsRecent /\ BufferIsClean /\ HearsNoEcho /\ InterruptedOnlyBySpeech
  BY <1>1 DEF Init, ActiveIsSpeech, PreIsRecent, BufferIsClean, HearsNoEcho, InterruptedOnlyBySpeech
<1> QED
  BY <1>2, <1>3, <1>4 DEF IInv

----------------------------------------------------------------------------
(* What each frame does                                                       *)

LEMMA LongerSeq ==
    ASSUME NEW S, NEW T, S \subseteq T, NEW q \in Seq(S) PROVE q \in Seq(T)
  OBVIOUS

\* The frame is added to those before it.
LEMMA FrameArrives ==
    ASSUME TypeOK, NEW sound \in Sounds, Arrives(sound)
    PROVE  /\ Len(frames) \in Nat /\ Len(frames') = Len(frames) + 1 /\ Position = Len(frames')
           /\ frames' \in Seq(Frame)
           /\ \A i \in 1 .. Len(frames) : frames'[i] = frames[i]
           /\ frames'[Position] = [sound |-> sound, active |-> SpeechFrameIsActive(sound),
                                   response |-> responseActive]
           /\ bargeInEnabled' = bargeInEnabled /\ bargeFrames' = bargeFrames
           /\ bargeFrames \in Nat \ {0} /\ PreFrames \in Nat \ {0} /\ MaxFrames \in Nat
<1> DEFINE f == [sound |-> sound, active |-> SpeechFrameIsActive(sound), response |-> responseActive]
<1>1. frames \in Seq(Frame) /\ Len(frames) \in Nat
  BY DEF TypeOK, Frame
<1>2. f \in Frame
  <2>1. SpeechFrameIsActive(sound) \in BOOLEAN /\ responseActive \in BOOLEAN
    BY Zenon DEF SpeechFrameIsActive, TypeOK
  <2> QED
    BY <2>1 DEF Frame
<1>3. frames' = Append(frames, f)
  BY DEF Arrives
<1> HIDE DEF f
<1>4. /\ Len(frames') = Len(frames) + 1 /\ frames' \in Seq(Frame)
      /\ \A i \in 1 .. Len(frames) : frames'[i] = frames[i]
      /\ frames'[Len(frames) + 1] = f
  BY <1>1, <1>2, <1>3
<1>5. /\ bargeInEnabled' = bargeInEnabled /\ bargeFrames' = bargeFrames
      /\ bargeFrames \in Nat \ {0} /\ PreFrames \in Nat \ {0} /\ MaxFrames \in Nat
  BY FramesAssumption DEF Arrives, settings, TypeOK
<1> QED
  BY <1>1, <1>4, <1>5 DEF Position, f

\* What is said of the frames before it stays true.
LEMMA OldFrames ==
    ASSUME IInv, NEW sound \in Sounds, Arrives(sound)
    PROVE  /\ \A i \in 1 .. Len(frames) : Active(i)' <=> Active(i)
           /\ ActiveIsSpeech'
           /\ pre \in Seq(1 .. Len(frames')) /\ buffer \in Seq(1 .. Len(frames'))
           /\ utterances \in Seq(Captured')
           /\ interruptions \subseteq 1 .. Len(frames')
           /\ frames'[Position].active <=> SpeechFrameIsActive(sound)
           /\ frames'[Position].response <=> responseActive
           /\ frames'[Position].sound = sound
<1> USE DEF IInv
<1>0. /\ Len(frames) \in Nat /\ Len(frames') = Len(frames) + 1 /\ Position = Len(frames')
      /\ frames'[Position] = [sound |-> sound, active |-> SpeechFrameIsActive(sound),
                              response |-> responseActive]
      /\ bargeInEnabled' = bargeInEnabled
  BY FrameArrives, Zenon
<1>1. \A i \in 1 .. Len(frames) : frames'[i] = frames[i]
  BY FrameArrives, Zenon
<1>2. \A i \in 1 .. Len(frames) : Active(i)' <=> Active(i)
  BY <1>1, Zenon DEF Active
<1>f. /\ frames'[Position].sound = sound
      /\ frames'[Position].active = SpeechFrameIsActive(sound)
      /\ frames'[Position].response = responseActive
  <2> DEFINE a == SpeechFrameIsActive(sound)
  <2> HIDE DEF a
  <2>1. frames'[Position] = [sound |-> sound, active |-> a, response |-> responseActive]
    BY <1>0, Zenon DEF a
  <2>2. frames'[Position].sound = sound /\ frames'[Position].active = a
        /\ frames'[Position].response = responseActive
    BY <2>1, SMT
  <2> QED
    BY <2>2, Zenon DEF a
<1>3. frames'[Position].active <=> SpeechFrameIsActive(sound)
  BY <1>f, Zenon
<1>4. frames'[Position].response <=> responseActive
  BY <1>f, Zenon
<1>5. frames'[Position].sound = sound
  BY <1>f, Zenon
<1>6. 1 .. Len(frames) \subseteq 1 .. Len(frames')
      /\ \A i \in 1 .. Len(frames') : i \in 1 .. Len(frames) \/ i = Position
  <2>1. Len(frames) \in Nat /\ Len(frames') = Len(frames) + 1 /\ Position = Len(frames')
    BY <1>0, Zenon
  <2> QED
    BY <2>1
<1>7. ActiveIsSpeech'
  <2> SUFFICES ASSUME NEW i \in 1 .. Len(frames'), Active(i)', frames'[i].response
               PROVE  bargeInEnabled' /\ frames'[i].sound = "speech"
    BY DEF ActiveIsSpeech
  <2>1. bargeInEnabled' = bargeInEnabled
    BY <1>0, Zenon
  <2>2. CASE i \in 1 .. Len(frames)
    BY <1>1, <1>2, <2>1, <2>2, Zenon DEF ActiveIsSpeech
  <2>3. CASE i = Position
    BY <1>3, <1>4, <1>5, <2>1, <2>3, Zenon DEF SpeechFrameIsActive, Active
  <2> QED
    BY <1>6, <2>2, <2>3
<1>8. pre \in Seq(1 .. Len(frames')) /\ buffer \in Seq(1 .. Len(frames'))
  BY <1>6, LongerSeq DEF TypeOK
<1>9. utterances \in Seq(Captured')
  <2>1. Captured \subseteq Captured'
    BY <1>6, LongerSeq DEF Captured
  <2> QED
    BY <2>1, LongerSeq DEF TypeOK, Captured
<1>10. interruptions \subseteq 1 .. Len(frames')
  BY <1>6 DEF TypeOK
<1> QED
  BY <1>2, <1>3, <1>4, <1>5, <1>7, <1>8, <1>9, <1>10, Zenon

\* What is left of a sequence when its first elements are cut off.
LEMMA Tails ==
    ASSUME NEW S, NEW q \in Seq(S), NEW m \in 1 .. Len(q)
    PROVE  /\ SubSeq(q, m, Len(q)) \in Seq(S)
           /\ Len(SubSeq(q, m, Len(q))) = Len(q) - m + 1
           /\ \A k \in 1 .. Len(q) - m + 1 : SubSeq(q, m, Len(q))[k] = q[m - 1 + k]
  OBVIOUS

\* pre_speech_buf is a window of the last frames again.
LEMMA PreKeeps ==
    ASSUME IInv, NEW sound \in Sounds, Arrives(sound)
    PROVE  /\ PreWithFrame \in Seq(1 .. Len(frames')) /\ Len(PreWithFrame) <= PreFrames
           /\ \A k \in 1 .. Len(PreWithFrame) :
                  PreWithFrame[k] = Len(frames') - Len(PreWithFrame) + k
<1> DEFINE all == Append(pre, Position)
           m == IF Len(all) > PreFrames THEN Len(all) - PreFrames + 1 ELSE 1
<1>0. Len(frames) \in Nat /\ Len(frames') = Len(frames) + 1 /\ Position = Len(frames')
      /\ PreFrames \in Nat \ {0}
  BY FrameArrives, Zenon DEF IInv
<1>1. pre \in Seq(1 .. Len(frames')) /\ Len(pre) <= PreFrames
      /\ \A k \in 1 .. Len(pre) : pre[k] = Len(frames) - Len(pre) + k
  BY OldFrames, Zenon DEF IInv, TypeOK, PreIsRecent
<1>2. all \in Seq(1 .. Len(frames')) /\ Len(all) = Len(pre) + 1 /\ Len(pre) \in Nat
  BY <1>0, <1>1
<1>3. \A k \in 1 .. Len(all) : all[k] = Len(frames') - Len(all) + k
  BY <1>0, <1>1, <1>2
<1>4. PreWithFrame = SubSeq(all, m, Len(all))
  BY DEF PreWithFrame
<1>5. m \in 1 .. Len(all) /\ Len(all) - m + 1 <= PreFrames
  BY <1>0, <1>1, <1>2
<1> HIDE DEF all, m
<1>6. /\ Len(PreWithFrame) = Len(all) - m + 1
      /\ \A k \in 1 .. Len(PreWithFrame) : PreWithFrame[k] = all[m - 1 + k]
      /\ PreWithFrame \in Seq(1 .. Len(frames'))
  <2>1. Len(all) \in Nat /\ m \in 1 .. Len(all)
    BY <1>2, <1>5
  <2>2. all \in Seq(1 .. Len(frames'))
    BY <1>2
  <2>3. SubSeq(all, m, Len(all)) \in Seq(1 .. Len(frames'))
        /\ Len(SubSeq(all, m, Len(all))) = Len(all) - m + 1
        /\ \A k \in 1 .. Len(all) - m + 1 : SubSeq(all, m, Len(all))[k] = all[m - 1 + k]
    BY <2>1, <2>2, Tails
  <2> QED
    BY <1>4, <2>3
<1> QED
  BY <1>0, <1>2, <1>3, <1>5, <1>6

\* No frame changes what interrupted before it.
LEMMA OldInterruptions ==
    ASSUME IInv, NEW sound \in Sounds, Arrives(sound), UNCHANGED interruptions
    PROVE  InterruptedOnlyBySpeech'
<1> USE DEF IInv
<1>1. Len(frames) \in Nat /\ bargeInEnabled' = bargeInEnabled /\ bargeFrames' = bargeFrames
      /\ bargeFrames \in Nat \ {0} /\ (\A i \in 1 .. Len(frames) : frames'[i] = frames[i])
  BY FrameArrives, Zenon
<1> SUFFICES ASSUME NEW k \in interruptions
             PROVE  /\ bargeInEnabled /\ k >= bargeFrames
                    /\ \A i \in k - bargeFrames + 1 .. k :
                          frames'[i].sound = "speech" /\ frames'[i].response
  BY <1>1, Zenon DEF InterruptedOnlyBySpeech
<1>2. bargeInEnabled /\ k >= bargeFrames
      /\ \A i \in k - bargeFrames + 1 .. k : frames[i].sound = "speech" /\ frames[i].response
  BY Zenon DEF InterruptedOnlyBySpeech
<1>3. k \in 1 .. Len(frames) /\ k >= bargeFrames
  BY <1>2, Zenon DEF TypeOK
<1>4. \A i \in k - bargeFrames + 1 .. k : i \in 1 .. Len(frames)
  <2>1. bargeFrames \in Nat /\ Len(frames) \in Nat
    BY <1>1, Zenon
  <2> QED
    BY <1>3, <2>1
<1> QED
  BY <1>1, <1>2, <1>4, Zenon

\* What was captured before is as free of echo as it was.
LEMMA OldUtterances ==
    ASSUME IInv, NEW sound \in Sounds, Arrives(sound), ~ bargeInEnabled, PreFrames <= bargeFrames,
           NEW u \in 1 .. Len(utterances), NEW k \in 1 .. Len(utterances[u].audio)
    PROVE  ~ frames'[utterances[u].audio[k]].response
<1> USE DEF IInv
<1>1. \A i \in 1 .. Len(frames) : frames'[i] = frames[i]
  BY FrameArrives, Zenon
<1>2. utterances[u] \in Captured
  <2>1. utterances \in Seq(Captured)
    BY Zenon DEF TypeOK, Captured
  <2> QED
    BY <2>1
<1>3. utterances[u].audio[k] \in 1 .. Len(frames)
  BY <1>2 DEF Captured
<1>4. ~ frames[utterances[u].audio[k]].response
  BY Zenon DEF HearsNoEcho
<1> QED
  BY <1>1, <1>3, <1>4, Zenon

\* The active frames that are counted, the one that arrives included.
LEMMA LastFrames ==
    ASSUME IInv, NEW sound \in Sounds, Arrives(sound), ~ speechDetected,
           SpeechFrameIsActive(sound), NEW i \in Len(frames) - activeCount + 1 .. Position
    PROVE  /\ i \in 1 .. Len(frames') /\ Active(i)'
           /\ responseActive => frames'[i].response
           /\ frames'[i].response => bargeInEnabled /\ frames'[i].sound = "speech"
<1>0. Len(frames) \in Nat /\ Len(frames') = Len(frames) + 1 /\ Position = Len(frames')
      /\ bargeInEnabled' = bargeInEnabled
      /\ activeCount \in 0 .. Len(frames)
      /\ \A j \in 1 .. Len(frames) : frames'[j] = frames[j]
  BY FrameArrives, Zenon DEF IInv, TypeOK
<1>1. i \in 1 .. Len(frames') /\ ((i \in 1 .. Len(frames) /\ i \in Window) \/ i = Position)
  BY <1>0 DEF Window
<1>2. Active(i)' /\ (responseActive => frames'[i].response)
  <2>1. ASSUME i \in 1 .. Len(frames), i \in Window
        PROVE  Active(i)' /\ (responseActive => frames'[i].response)
    BY <2>1, <1>0, OldFrames, Zenon DEF IInv, Counted, CountedInResponse
  <2>2. ASSUME i = Position PROVE Active(i)' /\ (responseActive => frames'[i].response)
    BY <2>2, OldFrames, Zenon DEF Active
  <2> QED
    BY <1>1, <2>1, <2>2, Zenon
<1>3. ActiveIsSpeech'
  BY OldFrames, Zenon
<1>4. frames'[i].response => bargeInEnabled /\ frames'[i].sound = "speech"
  BY <1>0, <1>1, <1>2, <1>3, Zenon DEF ActiveIsSpeech
<1> QED
  BY <1>1, <1>2, <1>4, Zenon

\* A frame is recorded, and may be the last one.
LEMMA RecordKeeps ==
    ASSUME IInv, NEW sound \in Sounds, Arrives(sound),
           NEW audio \in Seq(1 .. Len(frames')),
           NEW silence \in 0 .. Len(frames'), NEW active \in 0 .. Len(frames'),
           Record(audio, silence, active),
           ~ bargeInEnabled /\ PreFrames <= bargeFrames =>
               \A k \in 1 .. Len(audio) : ~ frames'[audio[k]].response,
           interruptions' \subseteq 1 .. Len(frames'), InterruptedOnlyBySpeech'
    PROVE  IInv'
<1>0. Len(frames) \in Nat /\ Len(frames') = Len(frames) + 1 /\ Position = Len(frames')
      /\ frames' \in Seq(Frame) /\ Position \in 1 .. Len(frames')
      /\ bargeFrames \in Nat \ {0} /\ PreFrames \in Nat \ {0} /\ MaxFrames \in Nat
  <2>1. Len(frames) \in Nat /\ Len(frames') = Len(frames) + 1 /\ Position = Len(frames')
        /\ frames' \in Seq(Frame)
        /\ bargeFrames \in Nat \ {0} /\ PreFrames \in Nat \ {0} /\ MaxFrames \in Nat
    BY FrameArrives, Zenon DEF IInv
  <2>2. Position \in 1 .. Len(frames')
    BY <2>1
  <2> QED
    BY <2>1, <2>2, Zenon
<1>1. bargeInEnabled' = bargeInEnabled /\ bargeFrames' = bargeFrames
      /\ bargeInEnabled' \in BOOLEAN /\ bargeFrames' \in BargeSettings
  BY Zenon DEF Arrives, settings, IInv, TypeOK
<1>2. ActiveIsSpeech' /\ utterances \in Seq(Captured')
  BY OldFrames, Zenon
<1>3. CASE ShouldProcess(audio, silence)
  <2> USE <1>3
  <2>1. Capture(audio)
    BY Zenon DEF Record
  <2> DEFINE r == [audio |-> audio, end |-> Position]
  <2>2. utterances' = Append(utterances, r) /\ buffer' = <<>> /\ pre' = <<>>
        /\ silenceCount' = 0 /\ activeCount' = 0
    BY <2>1, Zenon DEF Capture
  <2>3. speechDetected' = FALSE /\ responseActive' = TRUE
    BY <2>1, Zenon DEF Capture
  <2>4. r \in Captured' /\ r.audio = audio
    BY <1>0 DEF Captured
  <2> HIDE DEF r
  <2>5. /\ utterances' \in Seq(Captured')
        /\ Len(utterances') = Len(utterances) + 1 /\ Len(utterances) \in Nat
        /\ utterances'[Len(utterances')] = r
        /\ \A u \in 1 .. Len(utterances) : utterances'[u] = utterances[u]
    BY <1>2, <2>2, <2>4
  <2>6. TypeOK'
    <3>1. pre' \in Seq(1 .. Len(frames')) /\ buffer' \in Seq(1 .. Len(frames'))
          /\ Len(pre') = 0 /\ Len(buffer') = 0
      BY <2>2
    <3>2. Len(pre') <= PreFrames /\ Len(buffer') < MaxFrames
          /\ activeCount' \in 0 .. Len(frames') /\ silenceCount' \in 0 .. Len(frames')
      BY <1>0, <2>2, <3>1, FramesAssumption
    <3>3. speechDetected' \in BOOLEAN /\ responseActive' \in BOOLEAN
      BY <2>3, Zenon
    <3> QED
      BY <1>0, <1>1, <2>5, <3>1, <3>2, <3>3, Zenon DEF TypeOK, Frame, Captured
  <2>7. Counted' /\ CountedInResponse'
    <3>1. activeCount' < bargeFrames' /\ \A i \in Window' : FALSE
      BY <1>0, <1>1, <2>2 DEF Window
    <3> QED
      BY <3>1, Zenon DEF Counted, CountedInResponse
  <2>8. OneSpeaks'
    BY <2>3, Zenon DEF OneSpeaks
  <2>9. PreIsRecent' /\ BufferIsClean'
    <3>1. Len(pre') = 0 /\ Len(buffer') = 0
      BY <2>2
    <3>2. (\A k \in 1 .. Len(pre') : FALSE) /\ \A k \in 1 .. Len(buffer') : FALSE
      BY <3>1
    <3> QED
      BY <3>2, Zenon DEF PreIsRecent, BufferIsClean
  <2>10. HearsNoEcho'
    <3> SUFFICES ASSUME ~ bargeInEnabled, PreFrames <= bargeFrames,
                        NEW u \in 1 .. Len(utterances'), NEW k \in 1 .. Len(utterances'[u].audio)
                 PROVE  ~ frames'[utterances'[u].audio[k]].response
      BY <1>1, Zenon DEF HearsNoEcho
    <3>1. u \in 1 .. Len(utterances) \/ u = Len(utterances')
      BY <2>5
    <3>2. ASSUME u \in 1 .. Len(utterances)
          PROVE  ~ frames'[utterances'[u].audio[k]].response
      BY <3>2, <2>5, OldUtterances, Zenon
    <3>3. ASSUME u = Len(utterances')
          PROVE  ~ frames'[utterances'[u].audio[k]].response
      BY <3>3, <2>4, <2>5, Zenon
    <3> QED
      BY <3>1, <3>2, <3>3, Zenon
  <2> QED
    BY <1>2, <2>6, <2>7, <2>8, <2>9, <2>10, Zenon DEF IInv
<1>4. CASE ~ ShouldProcess(audio, silence)
  <2> USE <1>4
  <2>1. buffer' = audio /\ pre' = PreWithFrame /\ silenceCount' = silence
        /\ activeCount' = active /\ utterances' = utterances
    BY Zenon DEF Record
  <2>2. speechDetected' = TRUE /\ responseActive' = FALSE
    BY Zenon DEF Record
  <2>3. PreWithFrame \in Seq(1 .. Len(frames')) /\ Len(PreWithFrame) <= PreFrames
        /\ \A k \in 1 .. Len(PreWithFrame) :
               PreWithFrame[k] = Len(frames') - Len(PreWithFrame) + k
    BY PreKeeps, Zenon
  <2>4. Len(audio) < MaxFrames
    BY FramesAssumption DEF ShouldProcess
  <2>5. TypeOK'
    <3>1. speechDetected' \in BOOLEAN /\ responseActive' \in BOOLEAN
      BY <2>2, Zenon
    <3> QED
      BY <1>0, <1>1, <1>2, <2>1, <2>3, <2>4, <3>1, Zenon DEF TypeOK, Frame, Captured
  <2>6. Counted' /\ CountedInResponse' /\ OneSpeaks'
    BY <2>2, Zenon DEF Counted, CountedInResponse, OneSpeaks
  <2>7. PreIsRecent' /\ BufferIsClean'
    BY <1>1, <2>1, <2>3, Zenon DEF PreIsRecent, BufferIsClean
  <2>8. HearsNoEcho'
    BY <1>1, <2>1, OldUtterances, Zenon DEF HearsNoEcho
  <2> QED
    BY <1>2, <2>5, <2>6, <2>7, <2>8, Zenon DEF IInv
<1> QED
  BY <1>3, <1>4, Zenon

LEMMA NotYetKeeps == ASSUME IInv, NEW sound \in Sounds, NotYet(sound) PROVE IInv'
<1> USE DEF IInv
<1>a. Arrives(sound) /\ ~ speechDetected
  BY Zenon DEF NotYet
<1> USE <1>a
<1>0. /\ Len(frames) \in Nat /\ Len(frames') = Len(frames) + 1 /\ Position = Len(frames')
      /\ frames' \in Seq(Frame)
      /\ bargeInEnabled' = bargeInEnabled /\ bargeFrames' = bargeFrames
      /\ bargeFrames \in Nat \ {0} /\ PreFrames \in Nat \ {0} /\ MaxFrames \in Nat
  BY FrameArrives, Zenon
<1>1. /\ buffer' = buffer /\ speechDetected' = speechDetected /\ silenceCount' = silenceCount
      /\ responseActive' = responseActive /\ utterances' = utterances
      /\ interruptions' = interruptions /\ pre' = PreWithFrame
  BY Zenon DEF NotYet
<1>2. activeCount' = (IF SpeechFrameIsActive(sound) THEN activeCount + 1 ELSE 0)
      /\ (SpeechFrameIsActive(sound) => activeCount + 1 < bargeFrames)
  BY Zenon DEF NotYet
<1>3. ActiveIsSpeech' /\ utterances \in Seq(Captured') /\ buffer \in Seq(1 .. Len(frames'))
      /\ interruptions \subseteq 1 .. Len(frames')
  BY OldFrames, Zenon
<1>4. PreWithFrame \in Seq(1 .. Len(frames')) /\ Len(PreWithFrame) <= PreFrames
      /\ \A k \in 1 .. Len(PreWithFrame) :
             PreWithFrame[k] = Len(frames') - Len(PreWithFrame) + k
  BY PreKeeps, Zenon
<1>5. activeCount \in 0 .. Len(frames) /\ silenceCount \in 0 .. Len(frames)
  BY Zenon DEF TypeOK
<1>6. activeCount' \in 0 .. Len(frames') /\ silenceCount' \in 0 .. Len(frames')
      /\ activeCount' < bargeFrames
  BY <1>0, <1>1, <1>2, <1>5
<1>7. TypeOK'
  <2>1. /\ bargeInEnabled' \in BOOLEAN /\ bargeFrames' \in BargeSettings
        /\ speechDetected' \in BOOLEAN /\ responseActive' \in BOOLEAN /\ Len(buffer) < MaxFrames
    BY <1>0, <1>1, Zenon DEF TypeOK
  <2> QED
    BY <1>0, <1>1, <1>3, <1>4, <1>6, <2>1, Zenon DEF TypeOK, Frame, Captured
<1>8. Counted' /\ CountedInResponse'
  <2>1. CASE SpeechFrameIsActive(sound)
    <3>1. Window' = Len(frames) - activeCount + 1 .. Position
      BY <1>0, <1>2, <1>5, <2>1 DEF Window
    <3>2. \A i \in Window' : Active(i)' /\ (responseActive => frames'[i].response)
      BY <2>1, <3>1, LastFrames, Zenon
    <3> QED
      BY <1>0, <1>1, <1>6, <3>2, Zenon DEF Counted, CountedInResponse
  <2>2. CASE ~ SpeechFrameIsActive(sound)
    <3>1. \A i \in Window' : FALSE
      BY <1>0, <1>2, <2>2 DEF Window
    <3> QED
      BY <1>0, <1>6, <3>1, Zenon DEF Counted, CountedInResponse
  <2> QED
    BY <2>1, <2>2, Zenon
<1>9. OneSpeaks' /\ PreIsRecent'
  BY <1>1, <1>4, Zenon DEF OneSpeaks, PreIsRecent
<1>10. InterruptedOnlyBySpeech'
  BY <1>1, OldInterruptions, Zenon
<1>11. BufferIsClean'
  <2>1. \A k \in 1 .. Len(buffer) : buffer[k] \in 1 .. Len(frames)
    <3>1. buffer \in Seq(1 .. Len(frames))
      BY Zenon DEF TypeOK
    <3> QED
      BY <3>1
  <2>2. \A i \in 1 .. Len(frames) : frames'[i] = frames[i]
    BY FrameArrives, Zenon
  <2> QED
    BY <1>0, <1>1, <2>1, <2>2, Zenon DEF BufferIsClean
<1>12. HearsNoEcho'
  BY <1>0, <1>1, OldUtterances, Zenon DEF HearsNoEcho
<1> QED
  BY <1>3, <1>7, <1>8, <1>9, <1>10, <1>11, <1>12, Zenon

\* The recording starts with the last bargeFrames frames: all of them active, and in
\* a response if one is interrupted.
LEMMA StartRecordingKeeps ==
    ASSUME IInv, NEW sound \in Sounds, StartRecording(sound) PROVE IInv'
<1> USE DEF IInv
<1>a. Arrives(sound) /\ ~ speechDetected /\ SpeechFrameIsActive(sound)
  BY Zenon DEF StartRecording
<1> USE <1>a
<1> DEFINE audio == Append(PreWithFrame, Position)
<1>0. /\ Len(frames) \in Nat /\ Len(frames') = Len(frames) + 1 /\ Position = Len(frames')
      /\ bargeInEnabled' = bargeInEnabled /\ bargeFrames' = bargeFrames
      /\ bargeFrames \in Nat \ {0} /\ PreFrames \in Nat \ {0}
  BY FrameArrives, Zenon
<1>1. activeCount + 1 >= bargeFrames /\ Record(audio, 0, activeCount + 1)
      /\ interruptions' = (IF responseActive THEN interruptions \cup {Position} ELSE interruptions)
  BY Zenon DEF StartRecording
<1>2. activeCount \in 0 .. Len(frames) /\ activeCount < bargeFrames
  BY Zenon DEF TypeOK, Counted
<1>3. activeCount + 1 = bargeFrames /\ Position >= bargeFrames
      /\ Len(frames) - activeCount + 1 = Position - bargeFrames + 1
  BY <1>0, <1>1, <1>2
<1>4. PreWithFrame \in Seq(1 .. Len(frames')) /\ Len(PreWithFrame) <= PreFrames
      /\ \A k \in 1 .. Len(PreWithFrame) :
             PreWithFrame[k] = Len(frames') - Len(PreWithFrame) + k
  BY PreKeeps, Zenon
<1>5. /\ audio \in Seq(1 .. Len(frames')) /\ Len(audio) = Len(PreWithFrame) + 1
      /\ Len(PreWithFrame) \in Nat /\ audio[Len(audio)] = Position
      /\ \A k \in 1 .. Len(PreWithFrame) : audio[k] = PreWithFrame[k]
  BY <1>0, <1>4
<1>6. 0 \in 0 .. Len(frames') /\ activeCount + 1 \in 0 .. Len(frames')
  BY <1>0, <1>2
<1>7. ASSUME ~ bargeInEnabled, PreFrames <= bargeFrames, NEW k \in 1 .. Len(audio)
      PROVE  ~ frames'[audio[k]].response
  <2>1. audio[k] \in Len(frames) - activeCount + 1 .. Position
    <3>1. k \in 1 .. Len(PreWithFrame) \/ k = Len(audio)
      BY <1>5
    <3>2. ASSUME k \in 1 .. Len(PreWithFrame)
          PROVE  audio[k] \in Len(frames) - activeCount + 1 .. Position
      <4>1. audio[k] = Len(frames') - Len(PreWithFrame) + k
        BY <3>2, <1>4, <1>5, Zenon
      <4> HIDE DEF audio
      <4> QED
        BY <1>0, <1>2, <1>3, <1>4, <1>5, <1>7, <3>2, <4>1
    <3>3. ASSUME k = Len(audio)
          PROVE  audio[k] \in Len(frames) - activeCount + 1 .. Position
      <4>1. audio[k] = Position
        BY <3>3, <1>5, Zenon
      <4>2. Position \in Len(frames) - activeCount + 1 .. Position
        BY <1>0, <1>2
      <4> QED
        BY <4>1, <4>2, Zenon
    <3> QED
      BY <3>1, <3>2, <3>3, Zenon
  <2> QED
    BY <1>7, <2>1, LastFrames, Zenon
<1>8. interruptions' \subseteq 1 .. Len(frames')
  <2>1. interruptions \subseteq 1 .. Len(frames')
    BY OldFrames, Zenon
  <2>2. Position \in 1 .. Len(frames')
    BY <1>0
  <2> QED
    BY <1>1, <2>1, <2>2
<1>9. InterruptedOnlyBySpeech'
  <2>1. CASE ~ responseActive
    BY <1>1, <2>1, OldInterruptions, Zenon
  <2>2. CASE responseActive
    <3> SUFFICES ASSUME NEW k \in interruptions'
                 PROVE  /\ bargeInEnabled /\ k >= bargeFrames
                        /\ \A i \in k - bargeFrames + 1 .. k :
                              frames'[i].sound = "speech" /\ frames'[i].response
      BY <1>0, Zenon DEF InterruptedOnlyBySpeech
    <3>1. CASE k = Position
      <4>1. \A i \in Position - bargeFrames + 1 .. Position :
                bargeInEnabled /\ frames'[i].sound = "speech" /\ frames'[i].response
        BY <1>3, <2>2, LastFrames, Zenon
      <4>2. Position \in Position - bargeFrames + 1 .. Position
        BY <1>0
      <4> QED
        BY <1>3, <3>1, <4>1, <4>2, Zenon
    <3>2. CASE k \in interruptions
      <4>1. bargeInEnabled /\ k >= bargeFrames
            /\ \A i \in k - bargeFrames + 1 .. k : frames[i].sound = "speech" /\ frames[i].response
        BY <3>2, Zenon DEF InterruptedOnlyBySpeech
      <4>2. k \in 1 .. Len(frames)
        BY <3>2, Zenon DEF TypeOK
      <4>3. \A i \in k - bargeFrames + 1 .. k : i \in 1 .. Len(frames)
        BY <1>0, <4>1, <4>2
      <4>4. \A i \in 1 .. Len(frames) : frames'[i] = frames[i]
        BY FrameArrives, Zenon
      <4> QED
        BY <4>1, <4>3, <4>4, Zenon
    <3> QED
      BY <1>1, <2>2, <3>1, <3>2
  <2> QED
    BY <2>1, <2>2, Zenon
<1> QED
  BY <1>1, <1>5, <1>6, <1>7, <1>8, <1>9, RecordKeeps, Zenon

LEMMA ContinueKeeps == ASSUME IInv, NEW sound \in Sounds, Continue(sound) PROVE IInv'
<1> USE DEF IInv
<1>a. Arrives(sound) /\ speechDetected /\ ~ responseActive /\ interruptions' = interruptions
  BY Zenon DEF Continue, OneSpeaks
<1> USE <1>a
<1> DEFINE audio == Append(buffer, Position)
<1>0. Len(frames) \in Nat /\ Len(frames') = Len(frames) + 1 /\ Position = Len(frames')
      /\ \A i \in 1 .. Len(frames) : frames'[i] = frames[i]
  BY FrameArrives, Zenon
<1>1. Record(audio, 0, activeCount + 1) \/ Record(audio, silenceCount + 1, activeCount)
  BY Zenon DEF Continue
<1>2. activeCount \in 0 .. Len(frames) /\ silenceCount \in 0 .. Len(frames)
  BY Zenon DEF TypeOK
<1>3. 0 \in 0 .. Len(frames') /\ activeCount + 1 \in 0 .. Len(frames')
      /\ silenceCount + 1 \in 0 .. Len(frames') /\ activeCount \in 0 .. Len(frames')
  BY <1>0, <1>2
<1>4. buffer \in Seq(1 .. Len(frames)) /\ buffer \in Seq(1 .. Len(frames'))
  BY OldFrames, Zenon DEF TypeOK
<1>5. /\ audio \in Seq(1 .. Len(frames')) /\ audio[Len(audio)] = Position
      /\ \A k \in 1 .. Len(audio) : k \in 1 .. Len(buffer) \/ k = Len(audio)
      /\ \A k \in 1 .. Len(buffer) : audio[k] = buffer[k] /\ buffer[k] \in 1 .. Len(frames)
  BY <1>0, <1>4
<1>6. ~ frames'[Position].response
  BY OldFrames, Zenon
<1>7. ASSUME ~ bargeInEnabled, PreFrames <= bargeFrames, NEW k \in 1 .. Len(audio)
      PROVE  ~ frames'[audio[k]].response
  <2>1. ASSUME k = Len(audio) PROVE ~ frames'[audio[k]].response
    BY <2>1, <1>5, <1>6, Zenon
  <2>2. ASSUME k \in 1 .. Len(buffer) PROVE ~ frames'[audio[k]].response
    BY <2>2, <1>0, <1>5, <1>7, Zenon DEF BufferIsClean
  <2> QED
    BY <1>5, <2>1, <2>2, Zenon
<1>8. interruptions' \subseteq 1 .. Len(frames') /\ InterruptedOnlyBySpeech'
  BY OldFrames, OldInterruptions, Zenon
<1> HIDE DEF audio
<1> QED
  BY <1>1, <1>3, <1>5, <1>7, <1>8, RecordKeeps, Zenon

LEMMA SameFrames ==
    ASSUME IInv, UNCHANGED <<settings, frames, loopVars, utterances, interruptions>>,
           responseActive' = responseActive \/ responseActive' = FALSE
    PROVE  IInv'
<1>1. /\ bargeInEnabled' = bargeInEnabled /\ bargeFrames' = bargeFrames /\ frames' = frames
      /\ pre' = pre /\ buffer' = buffer /\ speechDetected' = speechDetected
      /\ activeCount' = activeCount /\ silenceCount' = silenceCount
      /\ utterances' = utterances /\ interruptions' = interruptions
  BY DEF settings, loopVars
<1>2. TypeOK'
  BY <1>1, Zenon DEF IInv, TypeOK
<1>3. Counted' /\ CountedInResponse' /\ ActiveIsSpeech' /\ OneSpeaks' /\ PreIsRecent'
  <2>1. (\A i : Active(i)' <=> Active(i)) /\ Window' = Window
    BY <1>1, Zenon DEF Active, Window
  <2>2. Counted' /\ PreIsRecent'
    BY <1>1, <2>1, Zenon DEF IInv, Counted, PreIsRecent
  <2>3. responseActive' => responseActive
    OBVIOUS
  <2>4. OneSpeaks'
    BY <1>1, <2>3, Zenon DEF IInv, OneSpeaks
  <2>5. ActiveIsSpeech'
    BY <1>1, <2>1, Zenon DEF IInv, ActiveIsSpeech
  <2>6. CountedInResponse'
    BY <1>1, <2>1, Zenon DEF IInv, CountedInResponse
  <2> QED
    BY <2>2, <2>4, <2>5, <2>6
<1>4. InterruptedOnlyBySpeech' /\ BufferIsClean' /\ HearsNoEcho'
  BY <1>1, Zenon DEF IInv, InterruptedOnlyBySpeech, BufferIsClean, HearsNoEcho
<1> QED
  BY <1>2, <1>3, <1>4 DEF IInv

LEMMA NextIInv == ASSUME IInv, [Next]_vars PROVE IInv'
<1>1. ASSUME NEW sound \in Sounds, NotYet(sound) PROVE IInv'
  BY <1>1, NotYetKeeps
<1>2. ASSUME NEW sound \in Sounds, StartRecording(sound) PROVE IInv'
  BY <1>2, StartRecordingKeeps
<1>3. ASSUME NEW sound \in Sounds, Continue(sound) PROVE IInv'
  BY <1>3, ContinueKeeps
<1>4. ASSUME ResponseEnds PROVE IInv'
  BY <1>4, SameFrames, Zenon DEF ResponseEnds
<1>5. ASSUME UNCHANGED vars PROVE IInv'
  BY <1>5, SameFrames, Zenon DEF vars
<1> QED
  BY <1>1, <1>2, <1>3, <1>4, <1>5, Zenon DEF Next

LEMMA Inductive == Spec => []IInv
  BY InitIInv, NextIInv, PTL DEF Spec

----------------------------------------------------------------------------
(* The theorems                                                               *)

\* The frame loop's counters and buffers keep their types, and audio_buffer stays
\* below max_bytes, for calls and settings of any size.
THEOREM TypeCorrect == Spec => []TypeOK
<1>1. IInv => TypeOK
  BY DEF IInv
<1> QED
  BY <1>1, Inductive, PTL

\* The handler interrupts a response only after barge_frames frames of speech in a
\* row, all of which came during that response.
THEOREM OnlySpeechInterrupts == Spec => []InterruptedOnlyBySpeech
<1>1. IInv => InterruptedOnlyBySpeech
  BY DEF IInv
<1> QED
  BY <1>1, Inductive, PTL

\* With barge-in off and a pre_speech_buf no longer than barge_frames, no frame that
\* came while the agent spoke is in what the handler gives to STT.
THEOREM NoEchoIsCaptured == Spec => []HearsNoEcho
<1>1. IInv => HearsNoEcho
  BY DEF IInv
<1> QED
  BY <1>1, Inductive, PTL

----------------------------------------------------------------------------
(* The reference description                                                  *)

IsLeast(x, S) == x \in S /\ \A y \in S : x <= y

\* Nothing is recorded since frame p: no recording was due, the count is that of the
\* active frames in a row since then, and pre_speech_buf has forgotten none of them
\* that it has room for.
Waiting(p) ==
    /\ Starts(p) = {}
    /\ activeCount <= Len(frames) - p
    /\ activeCount < Len(frames) - p => ~ Active(Len(frames) - activeCount)
    /\ Len(pre) = IF PreFrames < Len(frames) - p THEN PreFrames ELSE Len(frames) - p

\* The recording since frame t is due, not yet due to end, and silenceCount is the
\* length of the pause it ends with.
Recording(p, t) ==
    /\ IsLeast(t, Starts(p)) /\ Ends(p, t) = {}
    /\ buffer = Audio(p, t, Len(frames))
    /\ silenceCount <= Len(frames) - t
    /\ Active(Len(frames) - silenceCount)
    /\ \A i \in Len(frames) - silenceCount + 1 .. Len(frames) : ~ Active(i)

\* What the loop does now: p is the frame of the last capture.
Now ==
    \E p \in 0 .. Len(frames) :
        /\ p = EndOf(Len(utterances))
        /\ ~ speechDetected => Waiting(p)
        /\ speechDetected => \E t \in 1 .. Len(frames) : Recording(p, t)

\* Utterance u was captured when it was due: from t to e, after p.
CapturedOnTime(u, p, t, e) ==
    /\ p = EndOf(u - 1)
    /\ IsLeast(t, Starts(p)) /\ IsLeast(e, Ends(p, t))
    /\ utterances[u] = [audio |-> Audio(p, t, e), end |-> e]

\* What it has captured.
Past ==
    \A u \in 1 .. Len(utterances) :
        \E p \in 0 .. Len(frames), t, e \in 1 .. Len(frames) : CapturedOnTime(u, p, t, e)

\* The least element of a set is what Least chooses.
LEMMA LeastIs ==
    ASSUME NEW S \in SUBSET Int, NEW x, IsLeast(x, S)
    PROVE  Least(S) = x
<1>1. x \in S /\ \A y \in S : x <= y
  BY DEF IsLeast
<1>2. Least(S) \in S /\ \A y \in S : Least(S) <= y
  BY <1>1 DEF Least
<1>3. x \in Int /\ Least(S) \in Int
  BY <1>1, <1>2
<1> QED
  BY <1>1, <1>2, <1>3

\* A recording grows by the frame that arrives; it starts with what was kept, and the
\* frame that starts it twice.
LEMMA Recordings ==
    ASSUME NEW p \in Nat, NEW t \in Nat, p < t, NEW e \in Nat, t <= e
    PROVE  /\ Audio(p, t, e + 1) = Append(Audio(p, t, e), e + 1)
           /\ \A pre0 \in Seq(Nat) :
                 /\ Len(pre0) = IF PreFrames < t - p THEN PreFrames ELSE t - p
                 /\ \A k \in 1 .. Len(pre0) : pre0[k] = t - Len(pre0) + k
                 => Audio(p, t, t) = Append(pre0, t)
           /\ Len(Audio(p, t, e)) \in Nat
<1> DEFINE first == IF t - PreFrames > p THEN t - PreFrames ELSE p
           kept == t - first
           at(k) == IF k <= kept THEN first + k ELSE t + k - kept - 1
<1>1. /\ PreFrames \in Nat \ {0} /\ first \in Nat /\ first < t /\ kept \in Nat
      /\ kept = IF PreFrames < t - p THEN PreFrames ELSE t - p
  BY FramesAssumption
<1>2. \A f \in Nat : Audio(p, t, f) = [k \in 1 .. kept + f - t + 1 |-> at(k)]
  BY DEF Audio
<1>3. \A k \in Nat \ {0} : at(k) \in Nat
  BY <1>1
<1>4. at(kept + (e + 1) - t + 1) = e + 1 /\ at(kept + 1) = t
      /\ \A k \in 1 .. kept : at(k) = t - kept + k
  BY <1>1
<1> HIDE DEF first, kept, at
<1>5. /\ kept + e - t + 1 \in Nat /\ kept + (e + 1) - t + 1 = (kept + e - t + 1) + 1
      /\ kept + t - t + 1 = kept + 1
  BY <1>1
<1>a. ASSUME NEW f \in Nat, NEW n \in Nat, n = kept + f - t + 1
      PROVE  /\ Audio(p, t, f) \in Seq(Nat) /\ Len(Audio(p, t, f)) = n
             /\ \A k \in 1 .. n : Audio(p, t, f)[k] = at(k)
  <2>1. Audio(p, t, f) = [k \in 1 .. n |-> at(k)]
    BY <1>2, <1>a
  <2>2. \A k \in 1 .. n : at(k) \in Nat
    BY <1>3
  <2>3. Audio(p, t, f) \in [1 .. n -> Nat]
    BY <2>1, <2>2, Zenon
  <2>4. \A k \in 1 .. n : Audio(p, t, f)[k] = at(k)
    BY <2>1, Zenon
  <2> QED
    BY <2>3, <2>4
<1>6. Audio(p, t, e) \in Seq(Nat) /\ Len(Audio(p, t, e)) = kept + e - t + 1
      /\ \A k \in 1 .. kept + e - t + 1 : Audio(p, t, e)[k] = at(k)
  BY <1>5, <1>a
<1>7. Audio(p, t, e + 1) = Append(Audio(p, t, e), e + 1)
  <2>1. /\ Audio(p, t, e + 1) \in Seq(Nat)
        /\ Len(Audio(p, t, e + 1)) = (kept + e - t + 1) + 1
        /\ \A k \in 1 .. (kept + e - t + 1) + 1 : Audio(p, t, e + 1)[k] = at(k)
    <3>1. kept + (e + 1) - t + 1 \in Nat /\ e + 1 \in Nat
      BY <1>5
    <3> QED
      BY <1>5, <1>a, <3>1
  <2>2. /\ Append(Audio(p, t, e), e + 1) \in Seq(Nat)
        /\ Len(Append(Audio(p, t, e), e + 1)) = (kept + e - t + 1) + 1
        /\ \A k \in 1 .. kept + e - t + 1 : Append(Audio(p, t, e), e + 1)[k] = at(k)
        /\ Append(Audio(p, t, e), e + 1)[(kept + e - t + 1) + 1] = at((kept + e - t + 1) + 1)
    BY <1>4, <1>5, <1>6
  <2>3. \A k \in 1 .. (kept + e - t + 1) + 1 :
            Append(Audio(p, t, e), e + 1)[k] = Audio(p, t, e + 1)[k]
    <3>1. \A k \in 1 .. (kept + e - t + 1) + 1 :
              k \in 1 .. kept + e - t + 1 \/ k = (kept + e - t + 1) + 1
      BY <1>5
    <3> QED
      BY <2>1, <2>2, <3>1
  <2> QED
    BY <2>1, <2>2, <2>3, SeqEqual
<1>8. ASSUME NEW pre0 \in Seq(Nat), Len(pre0) = kept,
             \A k \in 1 .. Len(pre0) : pre0[k] = t - Len(pre0) + k
      PROVE  Audio(p, t, t) = Append(pre0, t)
  <2>1. /\ Audio(p, t, t) \in Seq(Nat) /\ Len(Audio(p, t, t)) = kept + 1
        /\ \A k \in 1 .. kept + 1 : Audio(p, t, t)[k] = at(k)
    <3>1. kept + 1 \in Nat /\ kept + 1 = kept + t - t + 1
      BY <1>1
    <3> QED
      BY <1>a, <3>1
  <2>2. /\ Append(pre0, t) \in Seq(Nat) /\ Len(Append(pre0, t)) = kept + 1
        /\ \A k \in 1 .. kept : Append(pre0, t)[k] = at(k)
        /\ Append(pre0, t)[kept + 1] = at(kept + 1)
    BY <1>1, <1>4, <1>8
  <2>3. \A k \in 1 .. kept + 1 : Append(pre0, t)[k] = Audio(p, t, t)[k]
    <3>1. \A k \in 1 .. kept + 1 : k \in 1 .. kept \/ k = kept + 1
      BY <1>1
    <3> QED
      BY <2>1, <2>2, <3>1
  <2> QED
    BY <2>1, <2>2, <2>3, SeqEqual
<1> QED
  BY <1>1, <1>5, <1>6, <1>7, <1>8

\* A frame can make the recording due that it would start, and no other.
LEMMA StartsNext ==
    ASSUME IInv, NEW sound \in Sounds, Arrives(sound), NEW p \in Nat
    PROVE  /\ Starts(p) \subseteq p + 1 .. Len(frames)
           /\ \A t : t \in Starts(p)' <=>
                 \/ t \in Starts(p)
                 \/ /\ t = Position /\ t >= p + bargeFrames
                    /\ \A i \in t - bargeFrames + 1 .. t : Active(i)'
<1>1. /\ Len(frames) \in Nat /\ Len(frames') = Len(frames) + 1 /\ Position = Len(frames')
      /\ bargeFrames' = bargeFrames /\ bargeFrames \in Nat \ {0}
  BY FrameArrives DEF IInv
<1>2. \A i \in 1 .. Len(frames) : Active(i)' <=> Active(i)
  BY OldFrames
<1>3. \A t : t \in Starts(p) <=> /\ t \in p + bargeFrames .. Len(frames)
                                 /\ \A i \in t - bargeFrames + 1 .. t : Active(i)
  BY DEF Starts
<1>4. \A t : t \in Starts(p)' <=> /\ t \in p + bargeFrames .. Len(frames')
                                  /\ \A i \in t - bargeFrames + 1 .. t : Active(i)'
  BY <1>1 DEF Starts
<1>5. ASSUME NEW t \in p + bargeFrames .. Len(frames), NEW i \in t - bargeFrames + 1 .. t
      PROVE  Active(i)' <=> Active(i)
  <2>1. i \in 1 .. Len(frames)
    BY <1>1
  <2> QED
    BY <1>2, <2>1
<1>6. \A t : t \in p + bargeFrames .. Len(frames') <=>
                \/ t \in p + bargeFrames .. Len(frames)
                \/ t = Position /\ t >= p + bargeFrames
  BY <1>1
<1>7. Starts(p) \subseteq p + 1 .. Len(frames)
  BY <1>1, <1>3
<1> QED
  BY <1>3, <1>4, <1>5, <1>6, <1>7

\* A frame can make the end due that it would be, and no other.
LEMMA EndsNext ==
    ASSUME IInv, NEW sound \in Sounds, Arrives(sound), NEW p \in Nat, NEW t \in Nat \ {0}
    PROVE  /\ Ends(p, t) \subseteq t .. Len(frames)
           /\ \A e : e \in Ends(p, t)' <=>
                 \/ e \in Ends(p, t)
                 \/ /\ e = Position /\ e >= t
                    /\ Len(Audio(p, t, e)) >= MinFrames
                    /\ \/ /\ e - t >= SilenceLimit
                          /\ \A i \in e - SilenceLimit + 1 .. e : ~ Active(i)'
                       \/ Len(Audio(p, t, e)) >= MaxFrames
<1>1. /\ Len(frames) \in Nat /\ Len(frames') = Len(frames) + 1 /\ Position = Len(frames')
      /\ SilenceLimit \in Nat \ {0}
  BY FrameArrives, FramesAssumption DEF IInv
<1>2. \A i \in 1 .. Len(frames) : Active(i)' <=> Active(i)
  BY OldFrames
<1>3. \A e : e \in Ends(p, t) <=>
          /\ e \in t .. Len(frames) /\ Len(Audio(p, t, e)) >= MinFrames
          /\ \/ e - t >= SilenceLimit /\ \A i \in e - SilenceLimit + 1 .. e : ~ Active(i)
             \/ Len(Audio(p, t, e)) >= MaxFrames
  BY DEF Ends
<1>4. \A e : e \in Ends(p, t)' <=>
          /\ e \in t .. Len(frames') /\ Len(Audio(p, t, e)) >= MinFrames
          /\ \/ e - t >= SilenceLimit /\ \A i \in e - SilenceLimit + 1 .. e : ~ Active(i)'
             \/ Len(Audio(p, t, e)) >= MaxFrames
  BY DEF Ends, Audio
<1>5. ASSUME NEW e \in t .. Len(frames), e - t >= SilenceLimit,
             NEW i \in e - SilenceLimit + 1 .. e
      PROVE  Active(i)' <=> Active(i)
  <2>1. i \in 1 .. Len(frames)
    BY <1>1, <1>5
  <2> QED
    BY <1>2, <2>1
<1>6. \A e : e \in t .. Len(frames') <=> e \in t .. Len(frames) \/ (e = Position /\ e >= t)
  BY <1>1
<1>7. Ends(p, t) \subseteq t .. Len(frames)
  BY <1>3
<1>8. ASSUME NEW e \in t .. Len(frames)
      PROVE  e \in Ends(p, t)' <=> e \in Ends(p, t)
  <2>1. CASE e - t >= SilenceLimit
    <3>1. (\A i \in e - SilenceLimit + 1 .. e : ~ Active(i)') <=>
             \A i \in e - SilenceLimit + 1 .. e : ~ Active(i)
      BY <1>5, <2>1
    <3> QED
      BY <1>3, <1>4, <1>6, <3>1
  <2>2. CASE ~ (e - t >= SilenceLimit)
    BY <1>3, <1>4, <1>6, <2>2
  <2> QED
    BY <2>1, <2>2
<1>9. ~ (Position \in t .. Len(frames))
  BY <1>1
<1> QED
  BY <1>3, <1>4, <1>6, <1>7, <1>8, <1>9

\* What was captured on time stays so.
LEMMA PastKeeps ==
    ASSUME IInv, Past, NEW sound \in Sounds, Arrives(sound), NEW u \in 1 .. Len(utterances)
    PROVE  \E p \in 0 .. Len(frames), t, e \in 1 .. Len(frames) :
              /\ p = EndOf(u - 1)
              /\ IsLeast(t, Starts(p)') /\ IsLeast(e, Ends(p, t)')
              /\ utterances[u] = [audio |-> Audio(p, t, e), end |-> e]
<1>1. PICK p \in 0 .. Len(frames), t \in 1 .. Len(frames), e \in 1 .. Len(frames) :
         CapturedOnTime(u, p, t, e)
  BY DEF Past
<1>2. Len(frames) \in Nat /\ Position = Len(frames) + 1
  BY FrameArrives DEF IInv
<1>3. p \in Nat /\ t \in Nat \ {0} /\ t < Position /\ e < Position
  BY <1>2
<1>4. IsLeast(t, Starts(p)')
  <2>1. \A x : x \in Starts(p)' => x \in Starts(p) \/ x = Position
    BY <1>3, StartsNext
  <2>2. t \in Starts(p)'
    BY <1>1, <1>3, StartsNext DEF CapturedOnTime, IsLeast
  <2> QED
    BY <1>1, <1>3, <2>1, <2>2 DEF CapturedOnTime, IsLeast
<1>5. IsLeast(e, Ends(p, t)')
  <2>1. \A x : x \in Ends(p, t)' => x \in Ends(p, t) \/ x = Position
    BY <1>3, EndsNext
  <2>2. e \in Ends(p, t)'
    BY <1>1, <1>3, EndsNext DEF CapturedOnTime, IsLeast
  <2> QED
    BY <1>1, <1>3, <2>1, <2>2 DEF CapturedOnTime, IsLeast
<1> QED
  BY <1>1, <1>4, <1>5 DEF CapturedOnTime

\* A frame is recorded: it is captured with the others if and only if it is due to be
\* the last.
LEMMA RecordMatches ==
    ASSUME IInv, Past, NEW sound \in Sounds, Arrives(sound),
           NEW p \in 0 .. Len(frames), p = EndOf(Len(utterances)),
           NEW t \in 1 .. Len(frames'), p < t, IsLeast(t, Starts(p)'), Ends(p, t) = {},
           NEW silence \in Nat, silence <= Position - t,
           frames'[Position - silence].active,
           \A i \in Position - silence + 1 .. Position : ~ frames'[i].active,
           NEW active, Record(Audio(p, t, Position), silence, active)
    PROVE  Now' /\ Past'
<1>1. /\ Len(frames) \in Nat /\ Len(frames') = Len(frames) + 1 /\ Position = Len(frames')
      /\ bargeFrames' = bargeFrames /\ bargeFrames \in Nat \ {0}
      /\ SilenceLimit \in Nat \ {0} /\ PreFrames \in Nat \ {0}
  BY FrameArrives, FramesAssumption DEF IInv
<1>2. p \in Nat /\ t \in Nat \ {0} /\ t <= Position /\ Position \in Nat
  BY <1>1
<1>3. utterances \in Seq(Captured) /\ Len(utterances) \in Nat
  BY DEF IInv, TypeOK, Captured
<1>4. silence >= SilenceLimit <=>
         /\ Position - t >= SilenceLimit
         /\ \A i \in Position - SilenceLimit + 1 .. Position : ~ frames'[i].active
  <2>1. ASSUME silence >= SilenceLimit, NEW i \in Position - SilenceLimit + 1 .. Position
        PROVE  ~ frames'[i].active
    <3>1. i \in Position - silence + 1 .. Position
      BY <1>1, <1>2, <2>1
    <3> QED
      BY <3>1
  <2>2. ASSUME silence < SilenceLimit,
               \A i \in Position - SilenceLimit + 1 .. Position : ~ frames'[i].active
        PROVE  FALSE
    <3>1. Position - silence \in Position - SilenceLimit + 1 .. Position
      BY <1>1, <1>2, <2>2
    <3> QED
      BY <2>2, <3>1
  <2>3. silence >= SilenceLimit => Position - t >= SilenceLimit
    BY <1>1, <1>2
  <2>4. silence >= SilenceLimit \/ silence < SilenceLimit
    BY <1>1
  <2> QED
    BY <2>1, <2>2, <2>3, <2>4
<1>5. \A e : e \in Ends(p, t)' <=>
         e = Position /\ ShouldProcess(Audio(p, t, Position), silence)
  BY <1>2, <1>4, EndsNext DEF ShouldProcess, Active
<1>6. CASE ShouldProcess(Audio(p, t, Position), silence)
  <2> DEFINE r == [audio |-> Audio(p, t, Position), end |-> Position]
  <2>1. /\ utterances' = Append(utterances, r) /\ pre' = <<>> /\ activeCount' = 0
        /\ speechDetected' = FALSE
    BY <1>6 DEF Record, Capture
  <2>2. r.end = Position
    OBVIOUS
  <2> HIDE DEF r
  <2>3. /\ Len(utterances') = Len(utterances) + 1
        /\ \A u \in 1 .. Len(utterances) : utterances'[u] = utterances[u]
        /\ utterances'[Len(utterances) + 1] = r
    BY <1>3, <2>1
  <2>4. \A u \in 0 .. Len(utterances) : EndOf(u)' = EndOf(u)
    BY <1>3, <2>3 DEF EndOf
  <2>5. Now'
    <3> SUFFICES ASSUME NEW q \in Nat, q = Position
                 PROVE  q = EndOf(Len(utterances))' /\ Waiting(q)'
      BY <1>1, <2>1 DEF Now
    <3>1. EndOf(Len(utterances))' = Position
      BY <1>3, <2>2, <2>3 DEF EndOf
    <3>2. \A x : ~ (x \in Starts(q)')
      BY <1>1 DEF Starts
    <3>3. Starts(q)' = {}
      BY <3>2
    <3>4. Len(pre') = 0 /\ Len(frames') - q = 0
      BY <1>1, <2>1
    <3>5. Len(pre') = IF PreFrames < Len(frames') - q THEN PreFrames ELSE Len(frames') - q
      BY <1>1, <3>4
    <3> QED
      BY <1>1, <2>1, <3>1, <3>3, <3>4, <3>5 DEF Waiting
  <2>6. Past'
    <3> SUFFICES ASSUME NEW u \in 1 .. Len(utterances')
                 PROVE  \E p1 \in 0 .. Len(frames'), t1, e1 \in 1 .. Len(frames') :
                           CapturedOnTime(u, p1, t1, e1)'
      BY DEF Past
    <3>1. u \in 1 .. Len(utterances) \/ u = Len(utterances) + 1
      BY <1>3, <2>3
    <3>2. CASE u \in 1 .. Len(utterances)
      <4>1. PICK p1 \in 0 .. Len(frames), t1 \in 1 .. Len(frames), e1 \in 1 .. Len(frames) :
               /\ p1 = EndOf(u - 1)
               /\ IsLeast(t1, Starts(p1)') /\ IsLeast(e1, Ends(p1, t1)')
               /\ utterances[u] = [audio |-> Audio(p1, t1, e1), end |-> e1]
        BY <3>2, PastKeeps
      <4>2. EndOf(u - 1)' = EndOf(u - 1) /\ utterances'[u] = utterances[u]
        <5>1. u - 1 \in 0 .. Len(utterances)
          BY <1>3, <3>2
        <5> QED
          BY <2>3, <2>4, <3>2, <5>1
      <4>3. CapturedOnTime(u, p1, t1, e1)'
        BY <4>1, <4>2 DEF CapturedOnTime, Audio
      <4>4. /\ p1 \in 0 .. Len(frames') /\ t1 \in 1 .. Len(frames')
            /\ e1 \in 1 .. Len(frames')
        BY <1>1, <4>1
      <4> QED
        BY <4>3, <4>4
    <3>3. CASE u = Len(utterances) + 1
      <4> SUFFICES ASSUME NEW e \in 1 .. Len(frames'), e = Position
                   PROVE  CapturedOnTime(u, p, t, e)'
        BY <1>1, <1>2
      <4>1. EndOf(u - 1)' = p
        <5>1. u - 1 = Len(utterances) /\ u - 1 \in 0 .. Len(utterances)
          BY <1>3, <3>3
        <5> QED
          BY <2>4, <5>1
      <4>2. IsLeast(e, Ends(p, t)')
        BY <1>1, <1>5, <1>6 DEF IsLeast
      <4>3. utterances'[u] = [audio |-> Audio(p, t, e), end |-> e]
        BY <2>3, <3>3 DEF r
      <4> QED
        BY <4>1, <4>2, <4>3 DEF CapturedOnTime, Audio
    <3> QED
      BY <3>1, <3>2, <3>3
  <2> QED
    BY <2>5, <2>6
<1>7. CASE ~ ShouldProcess(Audio(p, t, Position), silence)
  <2>1. /\ buffer' = Audio(p, t, Position) /\ silenceCount' = silence
        /\ utterances' = utterances /\ speechDetected' = TRUE
    BY <1>7 DEF Record
  <2>2. \A u : EndOf(u)' = EndOf(u)
    BY <2>1 DEF EndOf
  <2>3. Recording(p, t)'
    <3>1. Ends(p, t)' = {}
      BY <1>5, <1>7
    <3>2. Audio(p, t, Len(frames))' = Audio(p, t, Position)
      BY <1>1 DEF Audio
    <3> QED
      BY <1>1, <2>1, <3>1, <3>2 DEF Recording, Active
  <2>4. Now'
    <3>1. p = EndOf(Len(utterances))' /\ p \in 0 .. Len(frames')
      BY <1>1, <2>1 DEF EndOf
    <3> QED
      BY <2>1, <2>3, <3>1 DEF Now
  <2>5. Past'
    <3> SUFFICES ASSUME NEW u \in 1 .. Len(utterances)
                 PROVE  \E p1 \in 0 .. Len(frames'), t1, e1 \in 1 .. Len(frames') :
                           CapturedOnTime(u, p1, t1, e1)'
      BY <2>1 DEF Past
    <3>1. PICK p1 \in 0 .. Len(frames), t1 \in 1 .. Len(frames), e1 \in 1 .. Len(frames) :
             /\ p1 = EndOf(u - 1)
             /\ IsLeast(t1, Starts(p1)') /\ IsLeast(e1, Ends(p1, t1)')
             /\ utterances[u] = [audio |-> Audio(p1, t1, e1), end |-> e1]
      BY PastKeeps
    <3>2. CapturedOnTime(u, p1, t1, e1)'
      BY <2>1, <2>2, <3>1 DEF CapturedOnTime, Audio
    <3>3. /\ p1 \in 0 .. Len(frames') /\ t1 \in 1 .. Len(frames') /\ e1 \in 1 .. Len(frames')
      BY <1>1, <3>1
    <3> QED
      BY <3>2, <3>3
  <2> QED
    BY <2>4, <2>5
<1> QED
  BY <1>6, <1>7

\* pre_speech_buf is full, or holds every frame since p.
LEMMA PreLength ==
    ASSUME IInv, NEW sound \in Sounds, Arrives(sound), NEW n \in Nat,
           Len(pre) = IF PreFrames < n THEN PreFrames ELSE n
    PROVE  Len(PreWithFrame) = IF PreFrames < n + 1 THEN PreFrames ELSE n + 1
<1> DEFINE all == Append(pre, Position)
           m == IF Len(all) > PreFrames THEN Len(all) - PreFrames + 1 ELSE 1
<1>1. /\ PreFrames \in Nat \ {0} /\ pre \in Seq(1 .. Len(frames')) /\ Position \in 1 .. Len(frames')
      /\ Len(pre) \in Nat
  <2>1. Len(frames) \in Nat /\ Len(frames') = Len(frames) + 1 /\ Position = Len(frames')
        /\ PreFrames \in Nat \ {0}
    BY FrameArrives DEF IInv
  <2>2. pre \in Seq(1 .. Len(frames'))
    BY OldFrames
  <2> QED
    BY <2>1, <2>2
<1>2. all \in Seq(1 .. Len(frames')) /\ Len(all) = Len(pre) + 1
  BY <1>1
<1>3. PreWithFrame = SubSeq(all, m, Len(all))
  BY DEF PreWithFrame
<1>4. m \in 1 .. Len(all)
  BY <1>1, <1>2
<1>5. Len(all) - m + 1 = IF PreFrames < n + 1 THEN PreFrames ELSE n + 1
  BY <1>1, <1>2
<1> HIDE DEF all, m
<1>6. Len(SubSeq(all, m, Len(all))) = Len(all) - m + 1
  BY <1>2, <1>4, Tails
<1> QED
  BY <1>3, <1>5, <1>6

LEMMA NotYetMatches ==
    ASSUME IInv, Now, Past, NEW sound \in Sounds, NotYet(sound)
    PROVE  Now' /\ Past'
<1>1. Arrives(sound) /\ ~ speechDetected
      /\ (SpeechFrameIsActive(sound) => activeCount + 1 < bargeFrames)
      /\ activeCount' = (IF SpeechFrameIsActive(sound) THEN activeCount + 1 ELSE 0)
      /\ pre' = PreWithFrame /\ speechDetected' = speechDetected /\ utterances' = utterances
  BY DEF NotYet
<1>2. /\ Len(frames) \in Nat /\ Len(frames') = Len(frames) + 1 /\ Position = Len(frames')
      /\ bargeFrames' = bargeFrames /\ bargeFrames \in Nat \ {0} /\ PreFrames \in Nat \ {0}
      /\ activeCount \in 0 .. Len(frames)
  BY <1>1, FrameArrives DEF IInv, TypeOK
<1>3. /\ \A i \in 1 .. Len(frames) : Active(i)' <=> Active(i)
      /\ frames'[Position].active <=> SpeechFrameIsActive(sound)
  BY <1>1, OldFrames
<1>4. PICK p \in 0 .. Len(frames) : p = EndOf(Len(utterances)) /\ Waiting(p)
  BY <1>1 DEF Now
<1>5. p \in Nat /\ p <= Len(frames) /\ Starts(p) = {}
  BY <1>2, <1>4 DEF Waiting
<1>6. \E i \in Position - bargeFrames + 1 .. Position :
         Position >= p + bargeFrames => ~ frames'[i].active
  <2>1. CASE ~ SpeechFrameIsActive(sound)
    <3>1. Position \in Position - bargeFrames + 1 .. Position
      BY <1>2
    <3> QED
      BY <1>3, <2>1, <3>1
  <2>2. CASE SpeechFrameIsActive(sound) /\ Position >= p + bargeFrames
    <3>1. activeCount + 1 < bargeFrames /\ activeCount < Len(frames) - p
      BY <1>1, <1>2, <1>5, <2>2
    <3>2. /\ Len(frames) - activeCount \in Position - bargeFrames + 1 .. Position
          /\ Len(frames) - activeCount \in 1 .. Len(frames)
      BY <1>2, <1>5, <3>1
    <3>3. ~ frames[Len(frames) - activeCount].active
      BY <1>4, <3>1 DEF Waiting, Active
    <3>4. frames'[Len(frames) - activeCount] = frames[Len(frames) - activeCount]
      BY <1>1, <3>2, FrameArrives DEF IInv
    <3> QED
      BY <3>2, <3>3, <3>4
  <2>3. CASE ~ (Position >= p + bargeFrames)
    <3>1. Position \in Position - bargeFrames + 1 .. Position
      BY <1>2
    <3> QED
      BY <2>3, <3>1
  <2> QED
    BY <2>1, <2>2, <2>3
<1>7. Starts(p)' = {}
  <2>1. \A t : ~ (t \in Starts(p)')
    BY <1>1, <1>5, <1>6, StartsNext DEF Active
  <2> QED
    BY <2>1
<1>8. Len(pre') = IF PreFrames < Len(frames') - p THEN PreFrames ELSE Len(frames') - p
  <2>1. Len(frames) - p \in Nat /\ Len(frames') - p = (Len(frames) - p) + 1
    BY <1>2, <1>5
  <2> QED
    BY <1>1, <1>4, <2>1, PreLength DEF Waiting
<1>9. /\ activeCount' <= Len(frames') - p
      /\ activeCount' < Len(frames') - p => ~ frames'[Len(frames') - activeCount'].active
  <2>1. CASE SpeechFrameIsActive(sound)
    <3>1. activeCount' = activeCount + 1 /\ activeCount <= Len(frames) - p
      BY <1>1, <1>4, <2>1 DEF Waiting
    <3>2. ASSUME activeCount < Len(frames) - p
          PROVE  ~ frames'[Len(frames) - activeCount].active
      <4>1. Len(frames) - activeCount \in 1 .. Len(frames)
        BY <1>2, <1>5, <3>2
      <4>2. ~ frames[Len(frames) - activeCount].active
        BY <1>4, <3>2 DEF Waiting, Active
      <4>3. frames'[Len(frames) - activeCount] = frames[Len(frames) - activeCount]
        BY <1>1, <4>1, FrameArrives DEF IInv
      <4> QED
        BY <4>2, <4>3
    <3>3. Len(frames') - activeCount' = Len(frames) - activeCount
      BY <1>2, <3>1
    <3> QED
      BY <1>2, <1>5, <3>1, <3>2, <3>3
  <2>2. CASE ~ SpeechFrameIsActive(sound)
    <3>1. activeCount' = 0 /\ Len(frames') - activeCount' = Position
      BY <1>1, <1>2, <2>2
    <3> QED
      BY <1>2, <1>3, <1>5, <2>2, <3>1
  <2> QED
    BY <2>1, <2>2
<1>10. Now'
  <2>1. Waiting(p)'
    BY <1>7, <1>8, <1>9 DEF Waiting, Active
  <2>2. p = EndOf(Len(utterances))' /\ p \in 0 .. Len(frames')
    BY <1>1, <1>2, <1>4 DEF EndOf
  <2> QED
    BY <1>1, <2>1, <2>2 DEF Now
<1>11. Past'
  <2> SUFFICES ASSUME NEW u \in 1 .. Len(utterances)
               PROVE  \E p1 \in 0 .. Len(frames'), t1, e1 \in 1 .. Len(frames') :
                         CapturedOnTime(u, p1, t1, e1)'
    BY <1>1 DEF Past
  <2>1. PICK p1 \in 0 .. Len(frames), t1 \in 1 .. Len(frames), e1 \in 1 .. Len(frames) :
           /\ p1 = EndOf(u - 1)
           /\ IsLeast(t1, Starts(p1)') /\ IsLeast(e1, Ends(p1, t1)')
           /\ utterances[u] = [audio |-> Audio(p1, t1, e1), end |-> e1]
    BY <1>1, PastKeeps
  <2>2. CapturedOnTime(u, p1, t1, e1)'
    BY <1>1, <2>1 DEF CapturedOnTime, Audio, EndOf
  <2>3. /\ p1 \in 0 .. Len(frames') /\ t1 \in 1 .. Len(frames') /\ e1 \in 1 .. Len(frames')
    BY <1>2, <2>1
  <2> QED
    BY <2>2, <2>3
<1> QED
  BY <1>10, <1>11

\* A recording starts with the first bargeFrames active frames in a row, and with what
\* pre_speech_buf holds of the frames since the last capture.
LEMMA StartRecordingMatches ==
    ASSUME IInv, Now, Past, NEW sound \in Sounds, StartRecording(sound)
    PROVE  Now' /\ Past'
<1>1. /\ Arrives(sound) /\ ~ speechDetected /\ SpeechFrameIsActive(sound)
      /\ activeCount + 1 >= bargeFrames
      /\ Record(Append(PreWithFrame, Position), 0, activeCount + 1)
  BY DEF StartRecording
<1>2. /\ Len(frames) \in Nat /\ Len(frames') = Len(frames) + 1 /\ Position = Len(frames')
      /\ bargeFrames \in Nat \ {0} /\ PreFrames \in Nat \ {0}
      /\ activeCount \in 0 .. Len(frames) /\ activeCount < bargeFrames
  BY <1>1, FrameArrives DEF IInv, TypeOK, Counted
<1>3. PICK p \in 0 .. Len(frames) : p = EndOf(Len(utterances)) /\ Waiting(p)
  BY <1>1 DEF Now
<1>4. /\ p \in Nat /\ p < Position /\ Starts(p) = {} /\ activeCount <= Len(frames) - p
      /\ Position \in Nat /\ Position \in 1 .. Len(frames')
  BY <1>2, <1>3 DEF Waiting
<1>5. /\ Position >= p + bargeFrames
      /\ Position - bargeFrames + 1 = Len(frames) - activeCount + 1
  BY <1>1, <1>2, <1>4
<1>6. \A i \in Position - bargeFrames + 1 .. Position : frames'[i].active
  BY <1>1, <1>5, LastFrames DEF Active
<1>7. IsLeast(Position, Starts(p)')
  <2>1. \A t : t \in Starts(p)' <=> t = Position
    BY <1>1, <1>4, <1>5, <1>6, StartsNext DEF Active
  <2> QED
    BY <1>4, <2>1 DEF IsLeast
<1>8. Ends(p, Position) = {}
  <2>1. Ends(p, Position) \subseteq Position .. Len(frames)
    BY DEF Ends
  <2> QED
    BY <1>2, <2>1
<1>9. Append(PreWithFrame, Position) = Audio(p, Position, Position)
  <2>1. /\ PreWithFrame \in Seq(1 .. Len(frames'))
        /\ \A k \in 1 .. Len(PreWithFrame) :
               PreWithFrame[k] = Position - Len(PreWithFrame) + k
    BY <1>1, <1>2, PreKeeps
  <2>2. 1 .. Len(frames') \subseteq Nat
    BY <1>2
  <2>3. PreWithFrame \in Seq(Nat)
    BY <2>1, <2>2, LongerSeq
  <2>4. Len(PreWithFrame) = IF PreFrames < Position - p THEN PreFrames ELSE Position - p
    <3>1. Len(frames) - p \in Nat /\ Position - p = (Len(frames) - p) + 1
      BY <1>2, <1>4
    <3> QED
      BY <1>1, <1>3, <3>1, PreLength DEF Waiting
  <2>5. ASSUME NEW t \in Nat, t = Position
        PROVE  Append(PreWithFrame, t) = Audio(p, t, t)
    <3>1. \A q \in Seq(Nat) :
             /\ Len(q) = IF PreFrames < t - p THEN PreFrames ELSE t - p
             /\ \A k \in 1 .. Len(q) : q[k] = t - Len(q) + k
             => Audio(p, t, t) = Append(q, t)
      <4>1. p < t /\ t <= t
        BY <1>4, <2>5
      <4> QED
        BY <1>4, <4>1, Recordings
    <3>2. /\ Len(PreWithFrame) = IF PreFrames < t - p THEN PreFrames ELSE t - p
          /\ \A k \in 1 .. Len(PreWithFrame) : PreWithFrame[k] = t - Len(PreWithFrame) + k
      BY <2>1, <2>4, <2>5
    <3> QED
      BY <2>3, <3>1, <3>2
  <2> QED
    BY <1>4, <2>5
<1>10. frames'[Position - 0].active /\ \A i \in Position - 0 + 1 .. Position : FALSE
  <2>1. Position \in Position - bargeFrames + 1 .. Position
    BY <1>2
  <2> QED
    BY <1>2, <1>6, <2>1
<1>11. ASSUME NEW t \in 1 .. Len(frames'), t = Position, NEW silence \in Nat, silence = 0
       PROVE  Now' /\ Past'
  <2>1. /\ IsLeast(t, Starts(p)') /\ Ends(p, t) = {} /\ p < t
        /\ Record(Audio(p, t, Position), silence, activeCount + 1)
    BY <1>1, <1>4, <1>7, <1>8, <1>9, <1>11
  <2>2. /\ silence <= Position - t /\ frames'[Position - silence].active
        /\ \A i \in Position - silence + 1 .. Position : ~ frames'[i].active
    BY <1>4, <1>10, <1>11
  <2> QED
    BY <1>1, <1>3, <2>1, <2>2, RecordMatches
<1> QED
  BY <1>4, <1>11

LEMMA ContinueMatches ==
    ASSUME IInv, Now, Past, NEW sound \in Sounds, Continue(sound)
    PROVE  Now' /\ Past'
<1>1. /\ Arrives(sound) /\ speechDetected
      /\ SpeechFrameIsActive(sound) => Record(Append(buffer, Position), 0, activeCount + 1)
      /\ ~ SpeechFrameIsActive(sound) =>
            Record(Append(buffer, Position), silenceCount + 1, activeCount)
  BY DEF Continue
<1>2. /\ Len(frames) \in Nat /\ Len(frames') = Len(frames) + 1 /\ Position = Len(frames')
      /\ silenceCount \in 0 .. Len(frames)
      /\ \A i \in 1 .. Len(frames) : frames'[i] = frames[i]
      /\ frames'[Position].active <=> SpeechFrameIsActive(sound)
  BY <1>1, FrameArrives, OldFrames DEF IInv, TypeOK
<1>3. PICK p \in 0 .. Len(frames), t \in 1 .. Len(frames) :
         p = EndOf(Len(utterances)) /\ Recording(p, t)
  BY <1>1 DEF Now
<1>4. /\ IsLeast(t, Starts(p)) /\ Ends(p, t) = {} /\ buffer = Audio(p, t, Len(frames))
      /\ silenceCount <= Len(frames) - t
      /\ frames[Len(frames) - silenceCount].active
      /\ \A i \in Len(frames) - silenceCount + 1 .. Len(frames) : ~ frames[i].active
  BY <1>3 DEF Recording, Active
<1>5. /\ p \in Nat /\ t \in Nat \ {0} /\ t <= Len(frames) /\ t \in 1 .. Len(frames')
  BY <1>2, <1>3
<1>6. p < t
  <2>1. t \in p + 1 .. Len(frames)
    BY <1>1, <1>4, <1>5, StartsNext DEF IsLeast
  <2> QED
    BY <1>2, <1>5, <2>1
<1>7. IsLeast(t, Starts(p)')
  <2>1. \A x : x \in Starts(p)' => x \in Starts(p) \/ x = Position
    BY <1>1, <1>5, StartsNext
  <2>2. t \in Starts(p)'
    BY <1>1, <1>4, <1>5, StartsNext DEF IsLeast
  <2> QED
    BY <1>2, <1>4, <1>5, <2>1, <2>2 DEF IsLeast
<1>8. Append(buffer, Position) = Audio(p, t, Position)
  <2>1. Position = Len(frames) + 1
    BY <1>2
  <2>2. ASSUME NEW e \in Nat, t <= e
        PROVE  Audio(p, t, e + 1) = Append(Audio(p, t, e), e + 1)
    BY <1>5, <1>6, <2>2, Recordings
  <2> QED
    BY <1>2, <1>4, <1>5, <2>1, <2>2
<1>9. ASSUME NEW silence \in Nat, NEW active, Record(Audio(p, t, Position), silence, active),
             silence <= Position - t, frames'[Position - silence].active,
             \A i \in Position - silence + 1 .. Position : ~ frames'[i].active
      PROVE  Now' /\ Past'
  BY <1>1, <1>3, <1>4, <1>5, <1>6, <1>7, <1>9, RecordMatches
<1>10. CASE SpeechFrameIsActive(sound)
  <2>1. ASSUME NEW silence \in Nat, silence = 0
        PROVE  Now' /\ Past'
    <3>1. /\ silence <= Position - t /\ Position - silence = Position
          /\ \A i \in Position - silence + 1 .. Position : FALSE
      BY <1>2, <1>5, <2>1
    <3>2. frames'[Position - silence].active
      BY <1>2, <1>10, <3>1
    <3> QED
      BY <1>1, <1>8, <1>9, <1>10, <2>1, <3>1, <3>2
  <2> QED
    BY <2>1
<1>11. CASE ~ SpeechFrameIsActive(sound)
  <2>1. ASSUME NEW silence \in Nat, silence = silenceCount + 1
        PROVE  Now' /\ Past'
    <3>1. /\ silence <= Position - t /\ Position - silence = Len(frames) - silenceCount
          /\ Position - silence \in 1 .. Len(frames)
      BY <1>2, <1>4, <1>5, <2>1
    <3>2. frames'[Position - silence].active
      BY <1>2, <1>4, <3>1
    <3>3. ASSUME NEW i \in Position - silence + 1 .. Position
          PROVE  ~ frames'[i].active
      <4>1. \/ i = Position
            \/ i \in Len(frames) - silenceCount + 1 .. Len(frames) /\ i \in 1 .. Len(frames)
        BY <1>2, <3>1, SMTT(30)
      <4> QED
        BY <1>2, <1>4, <1>11, <4>1
    <3> QED
      BY <1>1, <1>8, <1>9, <1>11, <2>1, <3>1, <3>2, <3>3
  <2> QED
    BY <1>2, <2>1
<1> QED
  BY <1>10, <1>11

LEMMA SameFramesMatch ==
    ASSUME Now, Past, UNCHANGED <<settings, frames, loopVars, utterances>>
    PROVE  Now' /\ Past'
<1>1. /\ bargeFrames' = bargeFrames /\ frames' = frames /\ pre' = pre /\ buffer' = buffer
      /\ speechDetected' = speechDetected /\ activeCount' = activeCount
      /\ silenceCount' = silenceCount /\ utterances' = utterances
  BY DEF settings, loopVars
<1>2. /\ \A i : Active(i)' <=> Active(i)
      /\ \A u : EndOf(u)' = EndOf(u)
  BY <1>1 DEF Active, EndOf
<1>3. /\ \A p : Starts(p)' = Starts(p)
      /\ \A p, t : Ends(p, t)' = Ends(p, t)
  BY <1>1 DEF Starts, Ends, Audio, Active
<1>4. Now'
  BY <1>1, <1>3 DEF Now, Waiting, Recording, Active, EndOf, Audio
<1>5. Past'
  <2>1. \A u, p, t, e : CapturedOnTime(u, p, t, e) => CapturedOnTime(u, p, t, e)'
    BY <1>1, <1>2, <1>3 DEF CapturedOnTime, Audio
  <2> QED
    BY <1>1, <2>1 DEF Past
<1> QED
  BY <1>4, <1>5

LEMMA NextMatches == IInv /\ Now /\ Past /\ [Next]_vars => Now' /\ Past'
<1> SUFFICES ASSUME IInv, Now, Past, [Next]_vars PROVE Now' /\ Past'
  OBVIOUS
<1>1. ASSUME NEW sound \in Sounds, NotYet(sound) \/ StartRecording(sound) \/ Continue(sound)
      PROVE  Now' /\ Past'
  BY <1>1, NotYetMatches, StartRecordingMatches, ContinueMatches
<1>2. CASE ResponseEnds \/ UNCHANGED vars
  <2>1. UNCHANGED <<settings, frames, loopVars, utterances>>
    BY <1>2 DEF ResponseEnds, vars
  <2> QED
    BY <2>1, SameFramesMatch
<1> QED
  BY <1>1, <1>2 DEF Next

LEMMA InitMatches == Init => Now /\ Past
<1> SUFFICES ASSUME Init PROVE Now /\ Past
  OBVIOUS
<1>1. /\ Len(frames) = 0 /\ Len(utterances) = 0 /\ Len(pre) = 0 /\ activeCount = 0
      /\ ~ speechDetected /\ bargeFrames \in Nat \ {0} /\ PreFrames \in Nat
  BY FramesAssumption DEF Init
<1>2. Starts(0) = {}
  BY <1>1 DEF Starts
<1>3. Waiting(0)
  BY <1>1, <1>2 DEF Waiting
<1>4. Now
  BY <1>1, <1>3 DEF Now, EndOf
<1>5. Past
  BY <1>1 DEF Past
<1> QED
  BY <1>4, <1>5

\* Whatever the lengths of the frame loop's buffers and whatever the caller's sounds,
\* the counters and buffers of handler capture what a description of the whole call
\* says, frame for frame.
THEOREM CapturesWhatIsDue == Spec => []MatchesReference
<1>1. IInv /\ Now /\ Past => MatchesReference
  <2> SUFFICES ASSUME IInv, Now, Past PROVE MatchesReference
    OBVIOUS
  <2>1. Len(frames) \in Nat /\ bargeFrames \in Nat
    BY FramesAssumption DEF IInv, TypeOK
  <2>2. \A p \in Nat : Starts(p) \in SUBSET Int
    BY <2>1 DEF Starts
  <2>3. \A p \in Nat, t \in Nat : Ends(p, t) \in SUBSET Int
    BY <2>1 DEF Ends
  <2>4. ASSUME NEW u \in 1 .. Len(utterances)
        PROVE  LET p == EndOf(u - 1)
                   t == Least(Starts(p))
               IN  /\ Starts(p) # {} /\ Ends(p, t) # {}
                   /\ utterances[u] = [audio |-> Audio(p, t, Least(Ends(p, t))),
                                       end |-> Least(Ends(p, t))]
    <3>1. PICK p \in 0 .. Len(frames), t \in 1 .. Len(frames), e \in 1 .. Len(frames) :
             CapturedOnTime(u, p, t, e)
      BY DEF Past
    <3>2. p \in Nat /\ t \in Nat
      BY <2>1
    <3>3. Least(Starts(p)) = t /\ Starts(p) # {}
      BY <2>2, <3>1, <3>2, LeastIs DEF CapturedOnTime, IsLeast
    <3>4. Least(Ends(p, t)) = e /\ Ends(p, t) # {}
      BY <2>3, <3>1, <3>2, LeastIs DEF CapturedOnTime, IsLeast
    <3> QED
      BY <3>1, <3>3, <3>4 DEF CapturedOnTime
  <2>5. LET p == EndOf(Len(utterances))
            t == Least(Starts(p))
        IN  /\ speechDetected <=> Starts(p) # {}
            /\ speechDetected => Ends(p, t) = {} /\ buffer = Audio(p, t, Len(frames))
    <3>1. PICK p \in 0 .. Len(frames) :
             /\ p = EndOf(Len(utterances))
             /\ ~ speechDetected => Waiting(p)
             /\ speechDetected => \E t \in 1 .. Len(frames) : Recording(p, t)
      BY DEF Now
    <3>2. CASE ~ speechDetected
      BY <3>1, <3>2 DEF Waiting
    <3>3. CASE speechDetected
      <4>1. PICK t \in 1 .. Len(frames) : Recording(p, t)
        BY <3>1, <3>3
      <4>2. p \in Nat
        BY <2>1
      <4>3. Least(Starts(p)) = t /\ Starts(p) # {}
        BY <2>2, <4>1, <4>2, LeastIs DEF Recording, IsLeast
      <4> QED
        BY <3>1, <3>3, <4>1, <4>3 DEF Recording
    <3> QED
      BY <3>2, <3>3
  <2> QED
    BY <2>4, <2>5 DEF MatchesReference
<1> QED
  BY <1>1, InitMatches, NextMatches, Inductive, PTL DEF Spec
====
