--------------------------- MODULE AgentCall_proof ---------------------------
(***************************************************************************)
(* The tasks of a call are nested, one response at a time, and end with    *)
(* it: for any length of the queue and of the history, any number of turns *)
(* and chunks, both playback modes, reliable requests or not.  And when    *)
(* every request is served once, the caller hears the current answer only, *)
(* and nothing while it speaks itself.                                     *)
(***************************************************************************)
EXTENDS AgentCall, SequenceTheorems, TLAPS

HistoryEntry == [role : {"user", "assistant"}, turn : Generations]

\* A task that another waits for is alive only while the other waits: the
\* speaker and the voice under the response, the playback under the voice.
Nested ==
    /\ SpeakerLive => resp \in {"stream", "put", "drain", "unwind"}
    /\ voice # "idle" => speaker = "speak" \/ resp \in {"welcome", "speak"}
    /\ playback # "none" => voice = "play"

\* asyncio.Queue(maxsize) is never over its size.
QueueFits == Len(queue) <= QueueSize

\* Where the handler is says which generation may be alive.
Phases ==
    /\ handler = "connecting" =>
          resp = "idle" /\ generation = 0 /\ ~leaving /\ ~speech
    /\ handler = "loop" => ~leaving /\ (speech => resp = "idle")
    /\ handler \in {"stop", "gather"} =>
          pendingUser = 0 /\ pendingReply = 0 /\ respGen < generation
    /\ handler = "closed" =>
          leaving /\ resp = "idle" /\ pendingUser = 0 /\ pendingReply = 0 /\ ~playbackActive
    /\ ~leaving => generation <= MaxGeneration
    /\ respGen <= generation
    /\ RespLive /\ respGen # generation => handler \in {"stop", "gather"} /\ respCancelled

\* The question of the turn in progress is pending from its transcription on.
Asked ==
    resp \in {"appointment", "rag", "stream", "put", "drain", "speak"} /\ IsCurrent =>
        pendingUser = respGen

\* A request awaited in the line is the one its task waits for, and it is alone.
AwaitedFor(l, p, h) ==
    /\ \A i \in 1 .. Len(l) : l[i].awaited =>
          \/ l[i].op \in {"exists", "broadcast"} /\ p = l[i].op
          \/ l[i].op = "stop" /\ h = "stop"
    /\ \A i, j \in 1 .. Len(l) :
          l[i].awaited /\ l[j].awaited /\ i # j => (l[i].op = "stop") # (l[j].op = "stop")

\* The inductive invariant.
IInv == TypeOK /\ Nested /\ QueueFits /\ Phases /\ Asked /\ AwaitedFor(line, playback, handler)

-----------------------------------------------------------------------------
(* The line. *)

LEMMA Requests ==
    ASSUME NEW g \in Generations, NEW c \in Chunks, NEW b \in BOOLEAN
    PROVE  /\ Play("exists", g, c, b) \in Request
           /\ Play("broadcast", g, c, b) \in Request
           /\ Stop(b) \in Request
<1> QED
  BY MediaAssumption DEF Play, Stop, Request, Generations, Chunks

\* A request sent by a task that awaits none yet, or by one that does not wait.
LEMMA Send ==
    ASSUME NEW l \in Seq(Request), NEW r \in Request, NEW p, NEW h, NEW p2, NEW h2,
           AwaitedFor(l, p, h),
           p2 = p \/ p \notin {"exists", "broadcast"},
           h2 = h \/ h # "stop",
           \/ ~r.awaited
           \/ r.op \in {"exists", "broadcast"} /\ p2 = r.op /\ p \notin {"exists", "broadcast"}
           \/ r.op = "stop" /\ h2 = "stop" /\ h # "stop"
    PROVE  Append(l, r) \in Seq(Request) /\ AwaitedFor(Append(l, r), p2, h2)
<1>1. /\ Append(l, r) \in Seq(Request) /\ Len(Append(l, r)) = Len(l) + 1
      /\ \A i \in 1 .. Len(l) : Append(l, r)[i] = l[i]
      /\ Append(l, r)[Len(l) + 1] = r
      /\ Len(l) \in Nat
  BY AppendProperties, LenProperties
<1>2. \A i \in 1 .. Len(Append(l, r)) : i \in 1 .. Len(l) \/ i = Len(l) + 1
  BY <1>1
<1>3. \A i \in 1 .. Len(l) : l[i] \in Request
  BY ElementOfSeq
<1> QED
  BY <1>1, <1>2, <1>3 DEF AwaitedFor

\* A task that awaits nothing may go on.
LEMMA GoOn ==
    ASSUME NEW l \in Seq(Request), NEW p, NEW h, NEW p2, NEW h2, AwaitedFor(l, p, h),
           p2 = p \/ p \notin {"exists", "broadcast"},
           h2 = h \/ h # "stop"
    PROVE  AwaitedFor(l, p2, h2)
<1> QED
  BY DEF AwaitedFor

\* Serving the head leaves only the tasks that await another request waiting.
LEMMA Serve ==
    ASSUME NEW l \in Seq(Request), l # <<>>, NEW p, NEW h, AwaitedFor(l, p, h)
    PROVE  /\ Head(l) \in Request /\ Head(l) = l[1] /\ Tail(l) \in Seq(Request)
           /\ AwaitedFor(Tail(l), p, h)
           /\ Head(l).awaited /\ Head(l).op # "stop" =>
                 p = Head(l).op /\ \A q : AwaitedFor(Tail(l), q, h)
           /\ Head(l).awaited /\ Head(l).op = "stop" =>
                 h = "stop" /\ \A g : AwaitedFor(Tail(l), p, g)
<1>1. /\ Head(l) \in Request /\ Head(l) = l[1]
      /\ Tail(l) \in Seq(Request) /\ Len(Tail(l)) = Len(l) - 1
      /\ \A i \in 1 .. Len(Tail(l)) : Tail(l)[i] = l[i + 1]
      /\ Len(l) \in Nat /\ Len(l) > 0
  BY HeadTailProperties, LenProperties, EmptySeq
<1>2. \A i \in 1 .. Len(Tail(l)) : i + 1 \in 1 .. Len(l) /\ i + 1 # 1
  BY <1>1
<1>3. \A i \in 1 .. Len(l) : l[i] \in Request
  BY ElementOfSeq
<1>4. AwaitedFor(Tail(l), p, h)
  <2>1. \A i, j \in 1 .. Len(Tail(l)) : i # j => i + 1 # j + 1
    BY <1>1
  <2> QED
    BY <1>1, <1>2, <2>1 DEF AwaitedFor
<1>5. ASSUME Head(l).awaited, NEW i \in 1 .. Len(Tail(l)), Tail(l)[i].awaited
      PROVE  (l[1].op = "stop") # (Tail(l)[i].op = "stop")
  BY <1>1, <1>2, <1>5 DEF AwaitedFor
<1>6. ASSUME Head(l).awaited, Head(l).op # "stop"
      PROVE  p = Head(l).op /\ \A q : AwaitedFor(Tail(l), q, h)
  <2>1. 1 \in 1 .. Len(l)
    BY <1>1
  <2> QED
    BY <1>1, <1>4, <1>5, <1>6, <2>1 DEF AwaitedFor
<1>7. ASSUME Head(l).awaited, Head(l).op = "stop"
      PROVE  h = "stop" /\ \A g : AwaitedFor(Tail(l), p, g)
  <2>1. 1 \in 1 .. Len(l)
    BY <1>1
  <2> QED
    BY <1>1, <1>4, <1>5, <1>7, <2>1 DEF AwaitedFor
<1> QED
  BY <1>1, <1>4, <1>6, <1>7

\* A client that goes away awaits nothing any more.
LEMMA GoAway ==
    ASSUME NEW l \in Seq(Request), NEW p, NEW h, AwaitedFor(l, p, h),
           NEW stop \in BOOLEAN, NEW sent \in BOOLEAN
    PROVE  /\ Abandon(l, stop, sent) \in Seq(Request)
           /\ stop => \A g : AwaitedFor(Abandon(l, stop, sent), p, g)
           /\ ~stop => \A q : AwaitedFor(Abandon(l, stop, sent), q, h)
<1> DEFINE m == Abandon(l, stop, sent)
<1>1. Len(l) \in Nat /\ DOMAIN l = 1 .. Len(l)
  BY LenProperties
<1>2. \A i \in 1 .. Len(l) : l[i] \in Request
  BY ElementOfSeq
<1>3. DOMAIN m = 1 .. Len(l) /\ m = [i \in 1 .. Len(l) |-> m[i]]
  BY <1>1 DEF Abandon
<1>4. ASSUME NEW i \in 1 .. Len(l)
      PROVE  /\ m[i] \in Request
             /\ m[i].awaited => m[i] = l[i] /\ ((l[i].op = "stop") # stop)
  <2>1. m[i] = IF l[i].awaited /\ (l[i].op = "stop") = stop
               THEN [l[i] EXCEPT !.awaited = FALSE, !.op = IF sent THEN @ ELSE "lost"]
               ELSE l[i]
    BY <1>1 DEF Abandon
  <2>2. l[i] \in Request
    BY <1>2
  <2>3. CASE l[i].awaited /\ (l[i].op = "stop") = stop
    <3>1. m[i] = [l[i] EXCEPT !.awaited = FALSE, !.op = IF sent THEN @ ELSE "lost"]
      BY <2>1, <2>3
    <3> QED
      BY <2>2, <3>1 DEF Request
  <2>4. CASE ~(l[i].awaited /\ (l[i].op = "stop") = stop)
    BY <2>1, <2>2, <2>4
  <2> QED
    BY <2>3, <2>4
<1>5. m \in Seq(Request) /\ Len(m) = Len(l)
  <2> HIDE DEF m
  <2>1. m \in [1 .. Len(l) -> Request]
    BY <1>3, <1>4
  <2> QED
    BY <1>1, <2>1
<1> HIDE DEF m
<1>6. /\ stop => \A g : AwaitedFor(m, p, g)
      /\ ~stop => \A q : AwaitedFor(m, q, h)
  BY <1>4, <1>5 DEF AwaitedFor
<1> QED
  BY <1>5, <1>6 DEF m

-----------------------------------------------------------------------------
(* The channel. *)

\* What the channel may be after uuid_broadcast.
LEMMA Heard ==
    ASSUME TypeOK, NEW r \in Request, NEW ch \in AfterBroadcast(r)
    PROVE  ch \in Seq(Audio)
<1>1. \A c \in Seq(Audio) : Broadcast(c, r) \in Seq(Audio)
  <2> TAKE c \in Seq(Audio)
  <2>1. [gen |-> r.gen, chunk |-> r.chunk, late |-> c # <<>>] \in Audio
    BY DEF Audio, Request
  <2> QED
    BY <2>1, AppendProperties DEF Broadcast
<1>2. channel \in Seq(Audio)
  BY DEF TypeOK, MediaTypeOK
<1>3. ch \in {channel, Broadcast(channel, r), Broadcast(Broadcast(channel, r), r)}
  <2>1. PICK n \in Executions \cup {0} :
           ch = CASE n = 0 -> channel
                  [] n = 1 -> Broadcast(channel, r)
                  [] n = 2 -> Broadcast(Broadcast(channel, r), r)
    BY DEF AfterBroadcast
  <2>2. n \in {0, 1, 2}
    BY DEF Executions
  <2> QED
    BY <2>1, <2>2
<1> QED
  BY <1>1, <1>2, <1>3

\* ... and after uuid_break.
LEMMA Silenced ==
    ASSUME TypeOK, NEW ch \in AfterStop
    PROVE  ch \in Seq(Audio)
<1>1. channel \in Seq(Audio) /\ <<>> \in Seq(Audio)
  BY EmptySeq DEF TypeOK, MediaTypeOK
<1>2. ch \in {channel, <<>>}
  BY DEF AfterStop
<1> QED
  BY <1>1, <1>2

-----------------------------------------------------------------------------
(* The speech queue and the history. *)

\* Putting items, all at once or some of them, keeps the queue's type.
LEMMA Put ==
    ASSUME TypeOK, QueueFits,
           NEW items \in Seq(Chunks), Deliver(items)
    PROVE  /\ queue' \in Seq(Chunks) /\ outbox' \in Seq(Chunks)
           /\ Len(queue') <= QueueSize
           /\ resp' \in {"stream", "put", "drain"}
<1> DEFINE room == QueueSize - Len(queue)
           n    == IF Len(items) < room THEN Len(items) ELSE room
<1>1. /\ Len(items) \in Nat /\ Len(queue) \in Nat
      /\ n \in Nat /\ n <= Len(items) /\ Len(queue) + n <= QueueSize
  BY AgentAssumption, LenProperties DEF TypeOK, QueueFits
<1>2. \A i \in 1 .. Len(items) : items[i] \in Chunks
  BY ElementOfSeq
<1>3. /\ SubSeq(items, 1, n) \in Seq(Chunks) /\ Len(SubSeq(items, 1, n)) = n
      /\ SubSeq(items, n + 1, Len(items)) \in Seq(Chunks)
  <2> HIDE DEF n
  <2>1. /\ \A i \in 1 .. n : items[i] \in Chunks
        /\ \A i \in n + 1 .. Len(items) : items[i] \in Chunks
    BY <1>1, <1>2
  <2>2. /\ SubSeq(items, 1, n) \in Seq(Chunks)
        /\ Len(SubSeq(items, 1, n)) = IF 1 <= n THEN n - 1 + 1 ELSE 0
    BY <1>1, <2>1, SubSeqProperties
  <2>3. SubSeq(items, n + 1, Len(items)) \in Seq(Chunks)
    BY <1>1, <2>1, SubSeqProperties
  <2> QED
    BY <1>1, <2>2, <2>3
<1>4. /\ queue' = queue \o SubSeq(items, 1, n) /\ outbox' = SubSeq(items, n + 1, Len(items))
      /\ resp' \in {"stream", "put", "drain"}
  BY DEF Deliver
<1> HIDE DEF n
<1> QED
  BY <1>1, <1>3, <1>4, ConcatProperties DEF TypeOK

\* A record of the history stays one through every way it changes.
LEMMA Recorded ==
    ASSUME TypeOK
    PROVE  /\ RecordTurn =>
                 /\ history' \in Seq(HistoryEntry) /\ pendingUser' = 0 /\ pendingReply' = 0
           /\ history \o PendingTurn \in Seq(HistoryEntry)
<1>1. /\ history \in Seq(HistoryEntry)
      /\ \A t \in Generations : Entry("user", t) \in HistoryEntry
      /\ \A t \in Generations : Entry("assistant", t) \in HistoryEntry
  BY DEF TypeOK, HistoryEntry, Entry
<1>2. <<Entry("user", respGen), Entry("assistant", respGen)>> \in Seq(HistoryEntry)
  BY <1>1 DEF TypeOK
<1>3. PendingTurn \in Seq(HistoryEntry)
  <2>1. /\ (IF pendingUser # 0 THEN <<Entry("user", pendingUser)>> ELSE <<>>)
             \in Seq(HistoryEntry)
        /\ (IF pendingReply # 0 THEN <<Entry("assistant", pendingReply)>> ELSE <<>>)
             \in Seq(HistoryEntry)
    BY <1>1 DEF TypeOK
  <2> QED
    BY <2>1, ConcatProperties DEF PendingTurn
<1>4. \A h \in Seq(HistoryEntry) : Trim(h) \in Seq(HistoryEntry)
  <2> TAKE h \in Seq(HistoryEntry)
  <2>1. Len(h) \in Nat /\ \A i \in 1 .. Len(h) : h[i] \in HistoryEntry
    BY LenProperties, ElementOfSeq
  <2>2. CASE Len(h) > HistoryCap
    <3>1. /\ Len(h) - HistoryCap + 1 \in Int
          /\ \A i \in Len(h) - HistoryCap + 1 .. Len(h) : h[i] \in HistoryEntry
      BY <2>1, <2>2, AgentAssumption
    <3> QED
      BY <2>1, <2>2, <3>1, SubSeqProperties DEF Trim
  <2> QED
    BY <2>2 DEF Trim
<1>5. history \o <<Entry("user", respGen), Entry("assistant", respGen)>> \in Seq(HistoryEntry)
      /\ history \o PendingTurn \in Seq(HistoryEntry)
  BY <1>1, <1>2, <1>3, ConcatProperties
<1> QED
  BY <1>4, <1>5 DEF RecordTurn

-----------------------------------------------------------------------------
(* The inductive invariant. *)

LEMMA InitIInv == Init => IInv
<1> SUFFICES ASSUME Init PROVE IInv
  OBVIOUS
<1>1. TypeOK
  <2>1. /\ line \in Seq(Request) /\ channel \in Seq(Audio)
        /\ outbox \in Seq(Chunks) /\ queue \in Seq(Chunks)
        /\ history \in Seq([role : {"user", "assistant"}, turn : Generations])
    BY EmptySeq DEF Init, MediaInit
  <2>2. 0 \in Generations /\ 0 \in Chunks
    BY MediaAssumption DEF Generations, Chunks
  <2> QED
    BY <2>1, <2>2 DEF Init, MediaInit, TypeOK, MediaTypeOK
<1>2. Nested /\ QueueFits /\ Phases /\ Asked
  BY AgentAssumption, MediaAssumption
  DEF Init, Nested, QueueFits, Phases, Asked, SpeakerLive, RespLive
<1>3. AwaitedFor(line, playback, handler)
  BY DEF Init, MediaInit, AwaitedFor
<1> QED
  BY <1>1, <1>2, <1>3 DEF IInv

\* process_audio, up to the speech queue.
LEMMA RespKeeps == IInv /\ RespStep => IInv'
<1> SUFFICES ASSUME IInv, RespStep PROVE IInv'
  OBVIOUS
<1> USE DEF IInv, Nested, QueueFits, Phases, Asked, SpeakerLive, PlaybackLive, RespLive, IsCurrent,
            vars, mediaVars, handlerVars, respVars, speakerVars, voiceVars, playbackVars,
            historyVars
<1>1. CASE HeardNothing
  BY <1>1 DEF HeardNothing, TypeOK, MediaTypeOK
<1>2. CASE Transcribed
  <2>1. TypeOK'
    <3>1. CASE IsCurrent
      BY <1>2, <3>1, MediaAssumption DEF Transcribed, TypeOK, MediaTypeOK, Generations
    <3>2. CASE ~IsCurrent
      BY <1>2, <3>2 DEF Transcribed, TypeOK, MediaTypeOK
    <3> QED
      BY <3>1, <3>2
  <2>2. Nested' /\ QueueFits'
    BY <1>2 DEF Transcribed
  <2>3. Phases'
    BY <1>2 DEF Transcribed, TypeOK, Generations
  <2> QED
    BY <1>2, <2>1, <2>2, <2>3 DEF Transcribed
<1>3. CASE AppointmentReply
  BY <1>3, MediaAssumption DEF AppointmentReply, Say, TypeOK, MediaTypeOK, Generations, Chunks
<1>4. CASE NotAnAppointment
  BY <1>4 DEF NotAnAppointment, TypeOK, MediaTypeOK
<1>5. CASE Retrieved
  <2>1. TypeOK'
    <3>1. <<>> \in Seq(Chunks) /\ 0 \in Chunks
      BY EmptySeq, MediaAssumption DEF Chunks
    <3>2. CASE IsCurrent
      BY <1>5, <3>1, <3>2 DEF Retrieved, TypeOK, MediaTypeOK
    <3>3. CASE ~IsCurrent
      BY <1>5, <3>3 DEF Retrieved, TypeOK, MediaTypeOK
    <3> QED
      BY <3>2, <3>3
  <2>2. Nested' /\ QueueFits'
    BY <1>5, AgentAssumption DEF Retrieved, TypeOK
  <2>3. Phases'
    BY <1>5 DEF Retrieved
  <2> QED
    BY <1>5, <2>1, <2>2, <2>3 DEF Retrieved
<1>6. ASSUME NEW b \in BOOLEAN, Token(b)
      PROVE  IInv'
  <2>1. /\ queue' \in Seq(Chunks) /\ outbox' \in Seq(Chunks) /\ QueueFits'
        /\ produced' \in Chunks
        /\ resp' \in {"stream", "put", "drain", "unwind"}
        /\ pendingReply' \in Generations
    <3>1. CASE Deliver(<<produced + 1>>) /\ produced < MaxChunks /\ produced' = produced + 1
      <4>1. produced + 1 \in Chunks
        BY <3>1, MediaAssumption DEF TypeOK, Chunks
      <4>2. <<produced + 1>> \in Seq(Chunks)
        BY <4>1
      <4> QED
        BY <1>6, <3>1, <4>1, <4>2, Put DEF Token, TypeOK
    <3>2. CASE ~IsCurrent \/ ~b
      BY <1>6, <3>2 DEF Token, TypeOK
    <3> QED
      BY <1>6, <3>1, <3>2 DEF Token
  <2>2. TypeOK'
    BY <1>6, <2>1 DEF Token, CancelSpeaker, TypeOK, MediaTypeOK
  <2>3. Nested'
    BY <1>6, <2>1 DEF Token
  <2>4. Phases'
    BY <1>6, <2>1 DEF Token, TypeOK, Generations
  <2> QED
    BY <1>6, <2>1, <2>2, <2>3, <2>4 DEF Token
<1>7. ASSUME NEW b \in BOOLEAN, StreamEnd(b)
      PROVE  IInv'
  <2>1. /\ produced' \in Chunks /\ End \in Chunks
        /\ b => produced + 1 \in Chunks
    BY <1>7, MediaAssumption DEF StreamEnd, TypeOK, Chunks, End
  <2>2. (IF b THEN <<produced + 1, End>> ELSE <<End>>) \in Seq(Chunks)
    BY <2>1
  <2>3. /\ queue' \in Seq(Chunks) /\ outbox' \in Seq(Chunks) /\ QueueFits'
        /\ resp' \in {"stream", "put", "drain"}
    BY <1>7, <2>2, Put DEF StreamEnd
  <2>4. TypeOK'
    BY <1>7, <2>1, <2>3 DEF StreamEnd, TypeOK, MediaTypeOK
  <2>5. Nested' /\ Phases'
    BY <1>7, <2>3 DEF StreamEnd
  <2> QED
    BY <1>7, <2>3, <2>4, <2>5 DEF StreamEnd
<1>8. CASE ResumePut
  BY <1>8, Put DEF ResumePut, TypeOK, MediaTypeOK, Chunks
<1>9. CASE Voiced
  BY <1>9, Recorded, MediaAssumption
  DEF Voiced, Say, TypeOK, MediaTypeOK, Generations, Chunks, HistoryEntry
<1>10. CASE SpeakerLost
  BY <1>10 DEF SpeakerLost, TypeOK, MediaTypeOK
<1>11. CASE RespUnwind
  <2>1. TypeOK'
    <3>1. CASE resp \in {"stt", "appointment", "rag"}
      BY <1>11, <3>1 DEF RespUnwind, TypeOK, MediaTypeOK
    <3>2. CASE resp \in {"stream", "put"}
      <4>1. speakerCancelled' \in BOOLEAN /\ playbackCancelled' \in BOOLEAN
        <5>1. /\ speakerCancelled' = SpeakerLive
              /\ playbackCancelled' = (playbackCancelled \/ (voice = "play" /\ PlaybackLive))
          BY <1>11, <3>2 DEF RespUnwind, CancelSpeaker
        <5>2. speakerCancelled' \in BOOLEAN
          BY <5>1
        <5>3. playbackCancelled' \in BOOLEAN
          BY <5>1
        <5> QED
          BY <5>2, <5>3
      <4> QED
        BY <1>11, <3>2, <4>1 DEF RespUnwind, TypeOK, MediaTypeOK
    <3> QED
      BY <1>11, <3>1, <3>2 DEF RespUnwind
  <2>2. Nested' /\ QueueFits'
    BY <1>11 DEF RespUnwind
  <2>3. Phases'
    BY <1>11 DEF RespUnwind
  <2> QED
    BY <1>11, <2>1, <2>2, <2>3 DEF RespUnwind
<1>12. CASE SpeakerGathered
  BY <1>12 DEF SpeakerGathered, TypeOK, MediaTypeOK
<1> QED
  BY <1>1, <1>2, <1>3, <1>4, <1>5, <1>6, <1>7, <1>8, <1>9, <1>10, <1>11, <1>12 DEF RespStep

\* speak_text, whether the response task or the speaker runs it.
LEMMA VoiceKeeps == IInv /\ VoiceStep => IInv'
<1> SUFFICES ASSUME IInv, VoiceStep PROVE IInv'
  OBVIOUS
<1> USE DEF IInv, Nested, QueueFits, Phases, Asked, SpeakerLive, PlaybackLive, RespLive, IsCurrent,
            vars, mediaVars, handlerVars, respVars, speakerVars, voiceVars, playbackVars,
            historyVars
<1>1. CASE Synthesized
  <2>1. TypeOK'
    <3>1. /\ voice' = "play" /\ playback' = "start" /\ playbackCancelled' = FALSE
          /\ UNCHANGED <<mediaVars, handlerVars, respVars, speakerVars, chunk,
                         playbackActive, historyVars>>
      BY <1>1 DEF Synthesized
    <3>2. playbackCancelled' \in BOOLEAN
      BY <3>1
    <3> QED
      BY <3>1, <3>2 DEF TypeOK, MediaTypeOK
  <2>2. Nested' /\ QueueFits' /\ Phases'
    BY <1>1 DEF Synthesized
  <2>3. AwaitedFor(line, playback', handler)
    BY <1>1, GoOn DEF Synthesized, TypeOK, MediaTypeOK
  <2> QED
    BY <1>1, <2>1, <2>2, <2>3 DEF Synthesized
<1>2. ASSUME SpeakReturns, voice # "idle", ~VoiceCancelled, playback' = "none",
             playback \notin {"exists", "broadcast"},
             UNCHANGED <<mediaVars, handlerVars, produced, outbox, queue,
                         speakerCancelled, playbackCancelled, playbackActive>>
      PROVE  IInv'
  <2>1. /\ history' \in Seq(HistoryEntry)
        /\ pendingUser' \in Generations /\ pendingReply' \in Generations
        /\ <<pendingUser', pendingReply'>> # <<pendingUser, pendingReply>> =>
              pendingUser' = 0 /\ pendingReply' = 0
    <3>1. 0 \in Generations
      BY MediaAssumption DEF Generations
    <3> QED
      BY <1>2, <3>1, Recorded DEF SpeakReturns, TypeOK, HistoryEntry
  <2>2. TypeOK'
    BY <1>2, <2>1 DEF SpeakReturns, TypeOK, MediaTypeOK, HistoryEntry
  <2>3. Nested' /\ QueueFits'
    BY <1>2 DEF SpeakReturns
  <2>4. Phases'
    BY <1>2, <2>1 DEF SpeakReturns, TypeOK, Generations
  <2>5. AwaitedFor(line, playback', handler)
    BY <1>2, GoOn DEF TypeOK, MediaTypeOK
  <2>6. Asked'
    <3>1. CASE speaker = "speak"
      BY <1>2, <3>1 DEF SpeakReturns
    <3>2. CASE speaker # "speak"
      BY <1>2, <3>2 DEF SpeakReturns
    <3> QED
      BY <3>1, <3>2
  <2> QED
    BY <1>2, <2>2, <2>3, <2>4, <2>5, <2>6
<1>3. CASE SynthesisFailed
  <2>1. playback = "none"
    BY <1>3 DEF SynthesisFailed
  <2> QED
    BY <1>2, <1>3, <2>1 DEF SynthesisFailed
<1>4. CASE PlaybackReturned
  BY <1>2, <1>4 DEF PlaybackReturned
<1>5. ASSUME NEW outcome \in {"finished", "failed"}, SpeakRaises(outcome), voice # "idle",
             ~PlaybackLive
      PROVE  IInv'
  <2>1. TypeOK'
    BY <1>5 DEF SpeakRaises, TypeOK, MediaTypeOK
  <2>2. Nested' /\ QueueFits' /\ Phases'
    BY <1>5 DEF SpeakRaises
  <2>3. AwaitedFor(line, playback', handler)
    BY <1>5, GoOn DEF SpeakRaises, TypeOK, MediaTypeOK
  <2> QED
    BY <1>5, <2>1, <2>2, <2>3 DEF SpeakRaises
<1>6. CASE PlaybackRaised
  BY <1>5, <1>6 DEF PlaybackRaised
<1>7. CASE VoiceUnwind
  BY <1>5, <1>7 DEF VoiceUnwind
<1> QED
  BY <1>1, <1>3, <1>4, <1>6, <1>7 DEF VoiceStep

\* speak_queue_worker.
LEMMA SpeakerKeeps == IInv /\ SpeakerStep => IInv'
<1> SUFFICES ASSUME IInv, SpeakerStep PROVE IInv'
  OBVIOUS
<1> USE DEF IInv, Nested, QueueFits, Phases, Asked, SpeakerLive, PlaybackLive, RespLive, IsCurrent,
            vars, mediaVars, handlerVars, respVars, speakerVars, voiceVars, playbackVars,
            historyVars
<1>1. CASE SpeakerGet
  <2>1. /\ Head(queue) \in Chunks /\ Tail(queue) \in Seq(Chunks)
        /\ Len(Tail(queue)) = Len(queue) - 1 /\ Len(queue) \in Nat
    BY <1>1, HeadTailProperties, LenProperties DEF SpeakerGet, TypeOK
  <2>2. TypeOK'
    BY <1>1, <2>1 DEF SpeakerGet, Say, TypeOK, MediaTypeOK
  <2>3. Nested' /\ QueueFits' /\ Phases'
    BY <1>1, <2>1, AgentAssumption DEF SpeakerGet, Say
  <2> QED
    BY <1>1, <2>2, <2>3 DEF SpeakerGet
<1>2. CASE SpeakerUnwind
  BY <1>2 DEF SpeakerUnwind, TypeOK, MediaTypeOK
<1> QED
  BY <1>1, <1>2 DEF SpeakerStep

\* play_wav.
LEMMA PlaybackKeeps == IInv /\ PlaybackStep => IInv'
<1> SUFFICES ASSUME IInv, PlaybackStep PROVE IInv'
  OBVIOUS
<1> USE DEF IInv, Nested, QueueFits, Phases, Asked, SpeakerLive, PlaybackLive, RespLive, IsCurrent,
            vars, mediaVars, handlerVars, respVars, speakerVars, voiceVars, playbackVars,
            historyVars
<1> DEFINE Elsewhere == UNCHANGED <<channel, callUp, handlerVars, respVars, speakerVars, voiceVars,
                                   playbackCancelled, historyVars>>
<1>1. ASSUME Elsewhere, voice = "play", handler # "closed",
             line' \in Seq(Request), playbackActive' \in BOOLEAN,
             playback' \in {"start", "exists", "broadcast", "sleep", "yield",
                            "finished", "cancelled", "failed"},
             AwaitedFor(line', playback', handler)
      PROVE  IInv'
  <2>1. TypeOK'
    BY <1>1 DEF TypeOK, MediaTypeOK
  <2>2. Nested' /\ QueueFits' /\ Phases'
    BY <1>1
  <2> QED
    BY <1>1, <2>1, <2>2
<1>2. PlaybackLive => voice = "play" /\ handler # "closed"
  OBVIOUS
<1>3. line \in Seq(Request) /\ respGen \in Generations /\ chunk \in Chunks
      /\ playbackActive \in BOOLEAN /\ AwaitedFor(line, playback, handler)
  BY DEF TypeOK, MediaTypeOK
<1>4. CASE PlaybackStart
  <2>1. playback = "start" /\ Elsewhere
    BY <1>4 DEF PlaybackStart
  <2>2. CASE line' = Append(line, Play("exists", respGen, chunk, TRUE))
              /\ playback' = "exists" /\ UNCHANGED playbackActive
    <3>1. line' \in Seq(Request) /\ AwaitedFor(line', playback', handler)
      BY <1>3, <2>1, <2>2, Requests, Send DEF Play
    <3> QED
      BY <1>1, <1>2, <1>3, <2>1, <2>2, <3>1
  <2>3. CASE line' = Append(line, Play("broadcast", respGen, chunk, FALSE))
              /\ playback' = "sleep" /\ playbackActive' = TRUE
    <3>1. line' \in Seq(Request) /\ AwaitedFor(line', playback', handler)
      BY <1>3, <2>1, <2>3, Requests, Send DEF Play
    <3> QED
      BY <1>1, <1>2, <1>3, <2>1, <2>3, <3>1
  <2>4. CASE playback' \in {"finished", "failed"} /\ UNCHANGED <<line, playbackActive>>
    <3>1. line' \in Seq(Request) /\ AwaitedFor(line', playback', handler)
      BY <1>3, <2>1, <2>4, GoOn
    <3> QED
      BY <1>1, <1>2, <1>3, <2>1, <2>4, <3>1
  <2> QED
    BY <1>4, <2>2, <2>3, <2>4 DEF PlaybackStart
<1>5. CASE SleepOver
  <2>1. Elsewhere /\ PlaybackLive /\ playback' = "finished" /\ line' = line
        /\ playback \notin {"exists", "broadcast"}
        /\ playbackActive' = (playbackActive /\ ~IsCurrent)
    BY <1>5 DEF SleepOver
  <2>2. playbackActive' \in BOOLEAN
    BY <2>1
  <2>3. AwaitedFor(line', playback', handler)
    BY <1>3, <2>1, GoOn
  <2> QED
    BY <1>1, <1>2, <1>3, <2>1, <2>2, <2>3
<1>6. CASE PlaybackTimeout
  <2>1. Elsewhere /\ PlaybackLive /\ playback' \in {"finished", "yield"}
        /\ playbackActive' \in {playbackActive, playbackActive \/ IsCurrent}
    BY <1>6 DEF PlaybackTimeout, Sleep
  <2>2. playbackActive' \in BOOLEAN
    BY <1>3, <2>1
  <2>3. line' \in Seq(Request) /\ AwaitedFor(line', playback', handler)
    BY <1>3, <1>6, GoAway DEF PlaybackTimeout
  <2> QED
    BY <1>1, <1>2, <2>1, <2>2, <2>3
<1>7. CASE PlaybackUnwind
  <2>1. Elsewhere /\ PlaybackLive /\ playback' = "cancelled"
        /\ playbackActive' = (playbackActive /\ ~(playback \in {"sleep", "yield"} /\ IsCurrent))
    BY <1>7 DEF PlaybackUnwind
  <2>2. playbackActive' \in BOOLEAN
    BY <2>1
  <2>3. line' \in Seq(Request) /\ AwaitedFor(line', playback', handler)
    <3>1. CASE playback \in {"exists", "broadcast"}
      BY <1>3, <1>7, <3>1, GoAway DEF PlaybackUnwind
    <3>2. CASE playback \notin {"exists", "broadcast"}
      BY <1>3, <1>7, <2>1, <3>2, GoOn DEF PlaybackUnwind
    <3> QED
      BY <3>1, <3>2
  <2> QED
    BY <1>1, <1>2, <2>1, <2>2, <2>3
<1> QED
  BY <1>4, <1>5, <1>6, <1>7 DEF PlaybackStep

\* fs-bridge or mod_audio_stream.
LEMMA ServerKeeps == IInv /\ ServerStep => IInv'
<1> SUFFICES ASSUME IInv, ServerStep PROVE IInv'
  OBVIOUS
<1> USE DEF IInv, Nested, QueueFits, Phases, Asked, SpeakerLive, PlaybackLive, RespLive, IsCurrent,
            vars, mediaVars, handlerVars, respVars, speakerVars, voiceVars, playbackVars,
            historyVars
<1>1. line \in Seq(Request) /\ respGen \in Generations /\ chunk \in Chunks
      /\ playbackActive \in BOOLEAN /\ AwaitedFor(line, playback, handler)
  BY DEF TypeOK, MediaTypeOK
<1>2. line # <<>> /\ UNCHANGED <<callUp, generation, leaving, speech, socketUp, respVars,
                                speakerVars, voiceVars, playbackCancelled, historyVars>>
  BY DEF ServerStep, ServeExists, ServeBroadcast, ServeStop, SkipLost, Serving
<1>3. /\ Head(line) \in Request /\ Tail(line) \in Seq(Request)
      /\ AwaitedFor(Tail(line), playback, handler)
      /\ Head(line).awaited /\ Head(line).op # "stop" =>
            playback = Head(line).op /\ \A q : AwaitedFor(Tail(line), q, handler)
      /\ Head(line).awaited /\ Head(line).op = "stop" =>
            handler = "stop" /\ \A g : AwaitedFor(Tail(line), playback, g)
  BY <1>1, <1>2, Serve
<1>4. ASSUME line' \in Seq(Request), channel' \in Seq(Audio), playbackActive' \in BOOLEAN,
             \/ UNCHANGED <<playback, playbackActive>>
             \/ /\ PlaybackLive
                /\ playback' \in {"broadcast", "sleep", "finished"},
             handler' = handler \/ (handler = "stop" /\ handler' = "gather"),
             AwaitedFor(line', playback', handler')
      PROVE  IInv'
  <2>1. TypeOK'
    BY <1>2, <1>4 DEF TypeOK, MediaTypeOK
  <2>2. Nested' /\ QueueFits' /\ Phases' /\ Asked'
    BY <1>2, <1>4
  <2> QED
    BY <1>4, <2>1, <2>2
<1>5. CASE ServeExists
  <2>1. /\ Serving("exists")
        /\ UNCHANGED <<channel, handler, playbackActive>>
    BY <1>5 DEF ServeExists
  <2>2. Head(line).op = "exists"
    BY <2>1 DEF Serving
  <2>3. channel' \in Seq(Audio)
    BY <2>1 DEF TypeOK, MediaTypeOK
  <2>4. CASE Answered /\ line' = Append(Tail(line), Play("broadcast", respGen, chunk, TRUE))
              /\ playback' = "broadcast"
    <3>1. playback = "exists" /\ AwaitedFor(Tail(line), "none", handler)
      BY <1>3, <2>2, <2>4 DEF Answered
    <3>2. line' \in Seq(Request) /\ AwaitedFor(line', playback', handler)
      <4>1. /\ Play("broadcast", respGen, chunk, TRUE) \in Request
            /\ Play("broadcast", respGen, chunk, TRUE).op = "broadcast"
        BY <1>1, Requests DEF Play
      <4> QED
        BY <1>3, <2>4, <3>1, <4>1, Send
    <3> QED
      BY <1>1, <1>4, <2>1, <2>3, <2>4, <3>1, <3>2
  <2>5. CASE Answered /\ line' = Tail(line) /\ playback' = "finished"
    <3>1. playback = "exists" /\ AwaitedFor(Tail(line), playback', handler)
      BY <1>3, <2>2, <2>5 DEF Answered
    <3> QED
      BY <1>1, <1>3, <1>4, <2>1, <2>3, <2>5, <3>1
  <2>6. CASE line' = Tail(line) /\ UNCHANGED playback
    BY <1>1, <1>3, <1>4, <2>1, <2>3, <2>6
  <2> QED
    BY <1>5, <2>4, <2>5, <2>6 DEF ServeExists
<1>6. CASE ServeBroadcast
  <2>1. /\ Head(line).op = "broadcast" /\ line' = Tail(line) /\ UNCHANGED handler
        /\ channel' \in AfterBroadcast(Head(line))
    BY <1>6 DEF ServeBroadcast, Serving
  <2>2. channel' \in Seq(Audio)
    BY <1>3, <2>1, Heard
  <2>3. CASE Answered
    <3>1. playback = "broadcast" /\ AwaitedFor(Tail(line), playback', handler)
      BY <1>3, <2>1, <2>3 DEF Answered
    <3>2. /\ playback' \in {"sleep", "finished"}
          /\ playbackActive' = (playbackActive \/ IsCurrent)
      BY <1>6, <2>3 DEF ServeBroadcast, Sleep
    <3>3. playbackActive' \in BOOLEAN
      BY <3>2
    <3> QED
      BY <1>3, <1>4, <2>1, <2>2, <3>1, <3>2, <3>3
  <2>4. CASE ~Answered
    BY <1>1, <1>3, <1>4, <1>6, <2>1, <2>2, <2>4 DEF ServeBroadcast
  <2> QED
    BY <2>3, <2>4
<1>7. CASE ServeStop
  <2>1. /\ Head(line).op = "stop" /\ line' = Tail(line)
        /\ UNCHANGED <<playback, playbackActive>>
        /\ handler' = IF Head(line).awaited THEN "gather" ELSE handler
        /\ channel' \in AfterStop
    BY <1>7 DEF ServeStop, Serving
  <2>2. channel' \in Seq(Audio)
    BY <2>1, Silenced
  <2>3. /\ handler' = handler \/ (handler = "stop" /\ handler' = "gather")
        /\ AwaitedFor(Tail(line), playback, handler')
    BY <1>3, <2>1
  <2> QED
    BY <1>1, <1>3, <1>4, <2>1, <2>2, <2>3
<1>8. CASE SkipLost
  <2>1. line' = Tail(line) /\ UNCHANGED <<channel, handler, playback, playbackActive>>
    BY <1>8 DEF SkipLost
  <2>2. channel' \in Seq(Audio)
    BY <2>1 DEF TypeOK, MediaTypeOK
  <2> QED
    BY <1>1, <1>3, <1>4, <2>1, <2>2
<1> QED
  BY <1>5, <1>6, <1>7, <1>8 DEF ServerStep

\* interrupt_response, from the loop.
LEMMA InterruptKeeps ==
    ASSUME IInv, handler = "loop", Interrupt, generation <= MaxGeneration,
           leaving' \in BOOLEAN, ~leaving' => generation < MaxGeneration
    PROVE  IInv'
<1> USE DEF IInv, Nested, QueueFits, Phases, Asked, SpeakerLive, PlaybackLive, RespLive, IsCurrent,
            vars, mediaVars, handlerVars, respVars, speakerVars, voiceVars, playbackVars,
            historyVars
<1>1. /\ UNCHANGED <<channel, callUp, speech, socketUp, resp, respGen, produced, outbox,
                     queue, speaker, voiceVars, playback, playbackActive>>
      /\ pendingUser' = 0 /\ pendingReply' = 0 /\ generation' = generation + 1
      /\ history' = history \o PendingTurn
  BY DEF Interrupt
<1>2. respCancelled' = RespLive /\ playbackCancelled' = PlaybackLive
      /\ speakerCancelled' = (speakerCancelled \/ (resp = "drain" /\ SpeakerLive))
  BY DEF Interrupt
<1>3. respCancelled' \in BOOLEAN /\ playbackCancelled' \in BOOLEAN
  BY <1>2
<1>4. speakerCancelled' \in BOOLEAN
  BY <1>2
<1>5. 0 \in Generations /\ generation + 1 \in Generations
  BY MediaAssumption DEF TypeOK, Generations
<1>6. /\ handler' \in {"stop", "gather"}
      /\ line' \in Seq(Request) /\ AwaitedFor(line', playback, handler')
  <2>1. line \in Seq(Request) /\ AwaitedFor(line, playback, handler)
    BY DEF TypeOK, MediaTypeOK
  <2>2. Stop(TRUE) \in Request /\ Stop(FALSE) \in Request
    BY Requests DEF TypeOK
  <2>3. CASE handler' = "stop" /\ line' = Append(line, Stop(TRUE))
    BY <2>1, <2>2, <2>3, Send DEF Stop
  <2>4. CASE handler' = "gather" /\ line' = Append(line, Stop(FALSE))
    BY <2>1, <2>2, <2>4, Send DEF Stop
  <2>5. CASE handler' = "gather" /\ line' = line
    BY <2>1, <2>5, GoOn
  <2> QED
    BY <2>3, <2>4, <2>5 DEF Interrupt
<1>7. TypeOK'
  BY <1>1, <1>3, <1>4, <1>5, <1>6, Recorded DEF TypeOK, MediaTypeOK, HistoryEntry
<1>8. Nested' /\ QueueFits'
  BY <1>1
<1>9. Phases'
  <2>1. /\ generation \in Nat /\ respGen \in Nat /\ MaxGeneration \in Nat
        /\ respGen <= generation
    BY MediaAssumption DEF TypeOK, Generations
  <2>2. respGen' < generation' /\ (~leaving' => generation' <= MaxGeneration)
    BY <1>1, <2>1
  <2>3. RespLive' => respCancelled'
    BY <1>1, <1>2
  <2>4. respGen' <= generation'
    BY <1>1, <2>1
  <2> QED
    BY <1>1, <1>6, <2>2, <2>3, <2>4
<1> QED
  BY <1>1, <1>6, <1>7, <1>8, <1>9

\* The handler.
LEMMA HandlerKeeps == IInv /\ HandlerStep => IInv'
<1> SUFFICES ASSUME IInv, HandlerStep PROVE IInv'
  OBVIOUS
<1> USE DEF IInv, Nested, QueueFits, Phases, Asked, SpeakerLive, PlaybackLive, RespLive, IsCurrent,
            vars, mediaVars, handlerVars, respVars, speakerVars, voiceVars, playbackVars,
            historyVars
<1>1. line \in Seq(Request) /\ AwaitedFor(line, playback, handler)
  BY DEF TypeOK, MediaTypeOK
<1>2. ASSUME NEW welcome \in BOOLEAN, Connect(welcome)
      PROVE  IInv'
  <2>1. 1 \in Generations /\ 1 \in Chunks
    BY MediaAssumption DEF Generations, Chunks
  <2>2. AwaitedFor(line, playback, handler')
    BY <1>1, <1>2, GoOn DEF Connect
  <2>3. CASE welcome
    <3>1. /\ handler = "connecting" /\ handler' = "loop" /\ generation = 0
          /\ generation' = 1 /\ respGen' = 1
      BY <1>2, <2>3 DEF Connect
    <3>2. respCancelled' = FALSE
      BY <1>2, <2>3 DEF Connect
    <3>3. respCancelled' \in BOOLEAN
      BY <3>2
    <3>4. /\ resp' = "welcome" /\ voice' = "tts" /\ chunk' = 1
          /\ UNCHANGED <<mediaVars, leaving, speech, socketUp, speakerVars, playbackVars,
                         historyVars>>
      BY <1>2, <2>3 DEF Connect, Say
    <3>5. TypeOK'
      BY <2>1, <3>1, <3>3, <3>4 DEF TypeOK, MediaTypeOK
    <3>6. Nested' /\ QueueFits' /\ Phases'
      BY <3>1, <3>4, MediaAssumption
    <3> QED
      BY <2>2, <3>4, <3>5, <3>6
  <2>4. CASE ~welcome
    <3>1. TypeOK'
      BY <1>2, <2>4 DEF Connect, TypeOK, MediaTypeOK
    <3>2. Nested' /\ QueueFits' /\ Phases'
      BY <1>2, <2>4 DEF Connect
    <3> QED
      BY <1>2, <2>2, <2>4, <3>1, <3>2 DEF Connect
  <2> QED
    BY <2>3, <2>4
<1>3. CASE StopTimeout
  <2>1. line' \in Seq(Request) /\ AwaitedFor(line', playback, handler')
    BY <1>1, <1>3, GoAway DEF StopTimeout
  <2>2. TypeOK'
    <3>1. /\ handler' = "gather"
          /\ UNCHANGED <<channel, callUp, generation, leaving, speech, socketUp, respVars,
                         speakerVars, voiceVars, playbackVars, historyVars>>
      BY <1>3 DEF StopTimeout
    <3> QED
      BY <2>1, <3>1 DEF TypeOK, MediaTypeOK
  <2>3. Nested' /\ QueueFits' /\ Phases'
    BY <1>3 DEF StopTimeout
  <2> QED
    BY <1>3, <2>1, <2>2, <2>3 DEF StopTimeout
<1>4. CASE InterruptDone
  <2>1. /\ handler = "gather" /\ ~RespLive /\ ~PlaybackLive
        /\ playback' = "none" /\ resp' = "idle"
        /\ handler' = IF leaving THEN "closed" ELSE "loop"
        /\ UNCHANGED <<mediaVars, generation, leaving, socketUp, respGen, respCancelled,
                       speakerVars, voiceVars, playbackCancelled, historyVars>>
    BY <1>4 DEF InterruptDone, TasksGathered
  <2>2. playbackActive' = FALSE /\ speech' = ~leaving
    BY <1>4 DEF InterruptDone
  <2>3. playbackActive' \in BOOLEAN /\ speech' \in BOOLEAN
    BY <2>2
  <2>4. TypeOK'
    BY <2>1, <2>3 DEF TypeOK, MediaTypeOK
  <2>5. Nested' /\ QueueFits' /\ Phases'
    BY <2>1, <2>2
  <2>6. AwaitedFor(line, playback', handler')
    BY <1>1, <2>1, GoOn
  <2> QED
    BY <2>1, <2>4, <2>5, <2>6
<1>5. CASE Disconnect
  <2>1. leaving' = TRUE
    BY <1>5 DEF Disconnect
  <2>2. leaving' \in BOOLEAN /\ (~leaving' => generation < MaxGeneration)
    BY <2>1
  <2>3. handler = "loop" /\ Interrupt /\ generation <= MaxGeneration
    BY <1>5 DEF Disconnect
  <2> QED
    BY <2>2, <2>3, InterruptKeeps
<1> QED
  BY <1>2, <1>3, <1>4, <1>5 DEF HandlerStep

\* The caller, the websocket, and the end.
LEMMA CallerKeeps == IInv /\ (CallerStep \/ PlayedOut \/ CallOver) => IInv'
<1> SUFFICES ASSUME IInv, CallerStep \/ PlayedOut \/ CallOver PROVE IInv'
  OBVIOUS
<1> USE DEF IInv, Nested, QueueFits, Phases, Asked, SpeakerLive, PlaybackLive, RespLive, IsCurrent,
            vars, mediaVars, handlerVars, respVars, speakerVars, voiceVars, playbackVars,
            historyVars
<1>1. CASE SpeechStart
  <2>1. handler = "loop" /\ ~speech /\ generation < MaxGeneration
    BY <1>1 DEF SpeechStart
  <2>2. CASE RespLive
    <3>1. Interrupt /\ UNCHANGED leaving
      BY <1>1, <2>2 DEF SpeechStart
    <3>2. leaving' \in BOOLEAN /\ generation <= MaxGeneration
      BY <2>1, <3>1 DEF TypeOK
    <3> QED
      BY <2>1, <3>1, <3>2, InterruptKeeps
  <2>3. CASE ~RespLive
    <3>1. speech' = TRUE
      BY <1>1, <2>3 DEF SpeechStart
    <3>2. speech' \in BOOLEAN
      BY <3>1
    <3>3. UNCHANGED <<mediaVars, generation, handler, leaving, socketUp, respVars,
                      speakerVars, voiceVars, playbackVars, historyVars>>
      BY <1>1, <2>3 DEF SpeechStart
    <3>4. TypeOK'
      BY <3>2, <3>3 DEF TypeOK, MediaTypeOK
    <3>5. Nested' /\ QueueFits' /\ Phases'
      BY <2>1, <2>3, <3>3
    <3> QED
      BY <3>3, <3>4, <3>5
  <2> QED
    BY <2>2, <2>3
<1>2. CASE SpeechEnd
  <2>1. /\ handler = "loop" /\ speech /\ generation < MaxGeneration
        /\ generation' = generation + 1 /\ respGen' = generation + 1
        /\ resp' = "stt"
        /\ UNCHANGED <<mediaVars, handler, leaving, socketUp, speakerVars, voiceVars,
                       playbackVars, historyVars>>
    BY <1>2 DEF SpeechEnd
  <2>2. speech' = FALSE /\ respCancelled' = FALSE
    BY <1>2 DEF SpeechEnd
  <2>3. speech' \in BOOLEAN /\ respCancelled' \in BOOLEAN
    BY <2>2
  <2>4. generation + 1 \in Generations
    BY <2>1, MediaAssumption DEF TypeOK, Generations
  <2>5. TypeOK'
    BY <2>1, <2>3, <2>4 DEF TypeOK, MediaTypeOK
  <2>6. Nested' /\ QueueFits'
    BY <2>1
  <2>7. Phases'
    BY <2>1, <2>2, MediaAssumption DEF TypeOK, Generations
  <2> QED
    BY <2>1, <2>5, <2>6, <2>7
<1>3. CASE HangUp
  <2>1. callUp' = FALSE /\ socketUp' = FALSE
    BY <1>3 DEF HangUp
  <2>2. callUp' \in BOOLEAN /\ socketUp' \in BOOLEAN
    BY <2>1
  <2>3. channel' \in Seq(Audio)
    BY <1>3, EmptySeq DEF HangUp
  <2>4. UNCHANGED <<line, generation, handler, leaving, speech, respVars, speakerVars,
                    voiceVars, playbackVars, historyVars>>
    BY <1>3 DEF HangUp
  <2>5. TypeOK'
    BY <2>2, <2>3, <2>4 DEF TypeOK, MediaTypeOK
  <2> QED
    BY <2>4, <2>5
<1>4. CASE LoseSocket
  <2>1. socketUp' = FALSE
    BY <1>4 DEF LoseSocket
  <2>2. socketUp' \in BOOLEAN
    BY <2>1
  <2>3. UNCHANGED <<mediaVars, generation, handler, leaving, speech, respVars, speakerVars,
                    voiceVars, playbackVars, historyVars>>
    BY <1>4 DEF LoseSocket
  <2>4. TypeOK'
    BY <2>2, <2>3 DEF TypeOK, MediaTypeOK
  <2> QED
    BY <2>3, <2>4
<1>5. CASE PlayedOut
  <2>1. channel' \in Seq(Audio)
    BY <1>5, HeadTailProperties DEF PlayedOut, ChannelFinish, TypeOK, MediaTypeOK
  <2>2. UNCHANGED <<line, callUp, handlerVars, respVars, speakerVars, voiceVars,
                    playbackVars, historyVars>>
    BY <1>5 DEF PlayedOut
  <2>3. TypeOK'
    BY <2>1, <2>2 DEF TypeOK, MediaTypeOK
  <2> QED
    BY <2>2, <2>3
<1>6. CASE CallOver
  BY <1>6 DEF CallOver, TypeOK, MediaTypeOK
<1> QED
  BY <1>1, <1>2, <1>3, <1>4, <1>5, <1>6 DEF CallerStep

LEMMA NextIInv == IInv /\ [Next]_vars => IInv'
<1> SUFFICES ASSUME IInv, [Next]_vars PROVE IInv'
  OBVIOUS
<1>1. CASE UNCHANGED vars
  BY <1>1
  DEF IInv, TypeOK, MediaTypeOK, Nested, QueueFits, Phases, Asked, SpeakerLive, RespLive, IsCurrent,
      vars, mediaVars, handlerVars, respVars, speakerVars, voiceVars, playbackVars,
      historyVars
<1> QED
  BY <1>1, RespKeeps, VoiceKeeps, SpeakerKeeps, PlaybackKeeps, ServerKeeps, HandlerKeeps,
     CallerKeeps DEF Next

-----------------------------------------------------------------------------

\* The inductive invariant holds of every conversation, however CallState.history is
\* written and interrupted.
THEOREM Inductive == Spec => []IInv
<1> QED
  BY InitIInv, NextIInv, PTL DEF Spec

\* Every variable keeps its type; the generation counter stays within its bound.
THEOREM TypeCorrect == Spec => []TypeOK
<1> QED
  BY Inductive, PTL DEF IInv

\* When the handler has returned no task of the call is alive, no reply is pending
\* and playback_active is off, although the websocket, the bridge or the caller may
\* have gone away at any point.
THEOREM NothingIsLeft == Spec => []NothingLeftBehind
<1>1. IInv => NothingLeftBehind
  BY DEF IInv, Nested, Phases, SpeakerLive, PlaybackLive, RespLive, NothingLeftBehind
<1> QED
  BY <1>1, Inductive, PTL

\* start_response_task starts a response only when the response, the speaker and the
\* playback before it have all ended.
THEOREM OneAtATime == Spec => OneResponse
<1> DEFINE Alone == ~RespLive /\ ~SpeakerLive /\ ~PlaybackLive
<1>1. ASSUME IInv, [Next]_vars
      PROVE  [respGen' # respGen => Alone]_vars
  <2>1. resp = "idle" => Alone
    BY <1>1 DEF IInv, Nested, RespLive, SpeakerLive, PlaybackLive
  <2> USE DEF mediaVars, handlerVars, respVars, speakerVars, voiceVars, playbackVars, historyVars
  <2>2. CASE RespStep
    BY <2>2 DEF RespStep, HeardNothing, Transcribed, AppointmentReply, NotAnAppointment,
      Retrieved, Token, StreamEnd, ResumePut, Voiced, SpeakerLost, RespUnwind, SpeakerGathered
  <2>3. CASE VoiceStep
    BY <2>3 DEF VoiceStep, Synthesized, SynthesisFailed, PlaybackReturned, PlaybackRaised,
      VoiceUnwind, SpeakReturns, SpeakRaises
  <2>4. CASE SpeakerStep \/ PlaybackStep
    BY <2>4 DEF SpeakerStep, SpeakerGet, SpeakerUnwind, PlaybackStep, PlaybackStart, SleepOver,
      PlaybackTimeout, PlaybackUnwind
  <2>5. CASE ServerStep
    BY <2>5 DEF ServerStep, ServeExists, ServeBroadcast, ServeStop, SkipLost
  <2>6. CASE HandlerStep
    <3>1. handler = "connecting" => resp = "idle"
      BY <1>1 DEF IInv, Phases
    <3> QED
      BY <2>1, <2>6, <3>1 DEF HandlerStep, Connect, StopTimeout, InterruptDone, Disconnect,
        Interrupt
  <2>7. CASE CallerStep
    <3>1. handler = "loop" /\ speech => resp = "idle"
      BY <1>1 DEF IInv, Phases
    <3> QED
      BY <2>1, <2>7, <3>1 DEF CallerStep, SpeechStart, SpeechEnd, HangUp, LoseSocket, Interrupt
  <2>8. CASE PlayedOut \/ CallOver \/ UNCHANGED vars
    BY <2>8 DEF PlayedOut, CallOver, vars
  <2> QED
    BY <1>1, <2>2, <2>3, <2>4, <2>5, <2>6, <2>7, <2>8 DEF Next
<1> QED
  BY <1>1, Inductive, PTL DEF Spec, OneResponse

\* A response that was interrupted changes neither the history nor what is pending,
\* however late its cancellation reaches it.
THEOREM LateResponseIsMute == Spec => SupersededIsMute
<1>1. ASSUME IInv, [Next]_vars
      PROVE  [RespLive /\ respGen # generation => UNCHANGED historyVars]_vars
  <2> SUFFICES ASSUME Next, RespLive, respGen # generation PROVE UNCHANGED historyVars
    BY <1>1
  <2>1. respCancelled /\ ~IsCurrent /\ handler \in {"stop", "gather"} /\ resp # "idle"
    BY <1>1 DEF IInv, Phases, IsCurrent, RespLive
  <2> USE DEF mediaVars, handlerVars, respVars, speakerVars, voiceVars, playbackVars, historyVars
  <2>2. CASE RespStep
    BY <2>1, <2>2 DEF RespStep, HeardNothing, Transcribed, AppointmentReply, NotAnAppointment,
      Retrieved, Token, StreamEnd, ResumePut, Voiced, SpeakerLost, RespUnwind, SpeakerGathered
  <2>3. CASE VoiceStep
    BY <2>1, <2>3 DEF VoiceStep, Synthesized, SynthesisFailed, PlaybackReturned, PlaybackRaised,
      VoiceUnwind, VoiceCancelled, SpeakReturns, SpeakRaises
  <2>4. CASE SpeakerStep \/ PlaybackStep
    BY <2>4 DEF SpeakerStep, SpeakerGet, SpeakerUnwind, PlaybackStep, PlaybackStart, SleepOver,
      PlaybackTimeout, PlaybackUnwind
  <2>5. CASE ServerStep
    BY <2>5 DEF ServerStep, ServeExists, ServeBroadcast, ServeStop, SkipLost
  <2>6. CASE HandlerStep
    BY <2>1, <2>6 DEF HandlerStep, Connect, StopTimeout, InterruptDone, Disconnect
  <2>7. CASE CallerStep
    BY <2>1, <2>7 DEF CallerStep, SpeechStart, SpeechEnd, HangUp, LoseSocket
  <2>8. CASE PlayedOut \/ CallOver
    BY <2>8 DEF PlayedOut, CallOver, vars
  <2> QED
    BY <2>2, <2>3, <2>4, <2>5, <2>6, <2>7, <2>8 DEF Next
<1> QED
  BY <1>1, Inductive, PTL DEF Spec, SupersededIsMute

-----------------------------------------------------------------------------
(* Taking turns. *)

\* Floor by cases.
LEMMA FloorIs ==
    /\ leaving => Floor = "over"
    /\ ~leaving /\ (speech \/ handler \in {"stop", "gather"}) => Floor = "caller"
    /\ ~leaving /\ ~speech /\ handler \in {"connecting", "loop"} =>
          Floor = IF RespLive THEN "agent" ELSE "open"
<1> QED
  BY DEF Floor

LEMMA FloorNext ==
    /\ leaving' => Floor' = "over"
    /\ ~leaving' /\ (speech' \/ handler' \in {"stop", "gather"}) => Floor' = "caller"
    /\ ~leaving' /\ ~speech' /\ handler' \in {"connecting", "loop"} =>
          Floor' = IF RespLive' THEN "agent" ELSE "open"
<1> QED
  BY DEF Floor

\* What a response does while the handler stays where it is.
LEMMA ResponseTurns ==
    ASSUME IInv, RespLive, UNCHANGED <<generation, handler, leaving, speech, respGen>>,
           \/ UNCHANGED historyVars
           \/ /\ IsCurrent /\ RespLive' /\ UNCHANGED history
              /\ pendingUser' = respGen /\ pendingReply' = 0
           \/ /\ IsCurrent /\ RespLive' /\ UNCHANGED <<history, pendingUser>>
              /\ pendingUser = respGen /\ pendingReply' = respGen
           \/ IsCurrent /\ ~RespLive' /\ pendingUser = respGen /\ RecordTurn
    PROVE  [Conversation!Next]_Conversation!vars
<1> USE DEF handlerVars, historyVars
<1>1. handler \in {"connecting", "loop", "stop", "gather", "closed"}
      /\ leaving \in BOOLEAN /\ speech \in BOOLEAN
  BY DEF IInv, TypeOK
<1>2. handler \in {"loop", "stop", "gather"}
  BY <1>1 DEF IInv, Phases, RespLive
<1>3. CASE UNCHANGED historyVars
  <2>1. CASE handler = "loop"
    <3>1. Floor = "agent" /\ Floor' \in {"agent", "open"}
      BY <2>1, <1>1, FloorIs, FloorNext DEF IInv, Phases, RespLive
    <3> QED
      BY <1>3, <3>1 DEF Conversation!Next, Conversation!vars, Conversation!GiveUp
  <2>2. CASE handler \in {"stop", "gather"}
    <3>1. Floor' = Floor
      BY <2>2, <1>1, FloorIs, FloorNext
    <3> QED
      BY <1>3, <3>1 DEF Conversation!vars
  <2> QED
    BY <1>2, <2>1, <2>2
<1>4. ASSUME IsCurrent
      PROVE  /\ Floor = "agent"
             /\ Floor' = IF RespLive' THEN "agent" ELSE "open"
  <2>1. respGen \in Nat /\ generation \in Nat
    BY MediaAssumption DEF IInv, TypeOK, Generations
  <2>2. handler = "loop"
    BY <1>2, <1>4, <2>1 DEF IInv, Phases, IsCurrent
  <2> QED
    BY <1>1, <2>2, FloorIs, FloorNext DEF IInv, Phases, RespLive
<1>5. CASE /\ IsCurrent /\ RespLive' /\ UNCHANGED history
           /\ pendingUser' = respGen /\ pendingReply' = 0
  BY <1>4, <1>5 DEF Conversation!Next, Conversation!Understand
<1>6. CASE /\ IsCurrent /\ RespLive' /\ UNCHANGED <<history, pendingUser>>
           /\ pendingUser = respGen /\ pendingReply' = respGen
  BY <1>4, <1>6 DEF Conversation!Next, Conversation!Reply
<1>7. CASE IsCurrent /\ ~RespLive' /\ pendingUser = respGen /\ RecordTurn
  BY <1>4, <1>7 DEF Conversation!Next, Conversation!Complete, RecordTurn, Trim,
    Conversation!Recent, Entry, Conversation!Question, Conversation!Answer
<1> QED
  BY <1>3, <1>5, <1>6, <1>7

\* What an interruption does.
LEMMA InterruptTurns ==
    ASSUME IInv, handler = "loop", Interrupt, leaving' \in BOOLEAN,
           leaving' \/ RespLive
    PROVE  [Conversation!Next]_Conversation!vars
<1>1. leaving \in BOOLEAN /\ speech \in BOOLEAN /\ ~leaving /\ (RespLive => ~speech)
  BY DEF IInv, TypeOK, Phases, RespLive
<1>2. /\ Floor # "over" /\ (RespLive => Floor = "agent")
      /\ Floor' = IF leaving' THEN "over" ELSE "caller"
  <2>1. handler' \in {"stop", "gather"}
    BY DEF Interrupt
  <2> QED
    BY <1>1, <2>1, FloorIs, FloorNext
<1>3. history' = history \o Conversation!Partial /\ pendingUser' = 0 /\ pendingReply' = 0
      /\ respGen' = respGen
  BY DEF Interrupt, PendingTurn, Conversation!Partial, Entry, Conversation!Question,
    Conversation!Answer
<1>4. Conversation!CutOff(IF leaving' THEN "over" ELSE "caller")
  BY <1>2, <1>3 DEF Conversation!CutOff
<1> QED
  BY <1>2, <1>4
  DEF Conversation!Next, Conversation!CallEnds, Conversation!CallerSpeaks, Conversation!CutOff

\* Every step of a call is a step of turn taking, or changes nothing of it.
LEMMA StepTurns == IInv /\ [Next]_vars => [Conversation!Next]_Conversation!vars
<1> SUFFICES ASSUME IInv, [Next]_vars PROVE [Conversation!Next]_Conversation!vars
  OBVIOUS
<1> USE DEF mediaVars, handlerVars, respVars, speakerVars, voiceVars, playbackVars, historyVars,
            RespLive, IsCurrent
<1>1. /\ handler \in {"connecting", "loop", "stop", "gather", "closed"}
      /\ leaving \in BOOLEAN /\ speech \in BOOLEAN
      /\ generation \in Generations /\ respGen \in Generations
      /\ RespLive /\ ~IsCurrent => respCancelled
      /\ resp \in {"appointment", "rag", "stream", "put", "drain", "speak"} /\ IsCurrent =>
            pendingUser = respGen
  BY DEF IInv, TypeOK, Phases, Asked
<1>2. ASSUME UNCHANGED <<handler, leaving, speech, resp, respGen, historyVars>>
      PROVE  UNCHANGED Conversation!vars
  BY <1>2 DEF Floor, Conversation!vars
<1>3. CASE RespStep
  <2>1. UNCHANGED <<generation, handler, leaving, speech, respGen>> /\ RespLive
    BY <1>3 DEF RespStep, HeardNothing, Transcribed, AppointmentReply, NotAnAppointment,
      Retrieved, Token, StreamEnd, ResumePut, Voiced, SpeakerLost, RespUnwind, SpeakerGathered
  <2>2. CASE HeardNothing \/ NotAnAppointment \/ Retrieved \/ ResumePut \/ SpeakerLost
             \/ RespUnwind \/ SpeakerGathered \/ \E b \in BOOLEAN : StreamEnd(b)
    <3>1. UNCHANGED historyVars
      BY <2>2 DEF HeardNothing, NotAnAppointment, Retrieved, ResumePut, SpeakerLost,
        RespUnwind, SpeakerGathered, StreamEnd
    <3> QED
      BY <2>1, <3>1, ResponseTurns
  <2>3. CASE Transcribed
    BY <2>1, <2>3, ResponseTurns DEF Transcribed
  <2>4. CASE AppointmentReply
    BY <1>1, <2>1, <2>4, ResponseTurns DEF AppointmentReply
  <2>5. ASSUME NEW b \in BOOLEAN, Token(b)
        PROVE  [Conversation!Next]_Conversation!vars
    <3>1. CASE ~IsCurrent
      BY <2>1, <2>5, <3>1, ResponseTurns DEF Token
    <3>2. CASE IsCurrent
      <4>1. resp' # "idle"
        BY <2>5, <3>2 DEF Token, Deliver
      <4> QED
        BY <1>1, <2>1, <2>5, <3>2, <4>1, ResponseTurns DEF Token
    <3> QED
      BY <3>1, <3>2
  <2>6. CASE Voiced
    <3>1. IsCurrent
      BY <1>1, <2>1, <2>6 DEF Voiced
    <3> QED
      BY <1>1, <2>1, <2>6, <3>1, ResponseTurns DEF Voiced
  <2> QED
    BY <1>3, <2>2, <2>3, <2>4, <2>5, <2>6 DEF RespStep
<1>4. CASE VoiceStep
  <2>1. ASSUME SpeakReturns, ~VoiceCancelled, voice # "idle",
               UNCHANGED <<generation, handler, leaving, speech>>
        PROVE  [Conversation!Next]_Conversation!vars
    <3>1. CASE speaker = "speak"
      BY <1>2, <2>1, <3>1 DEF SpeakReturns
    <3>2. CASE speaker # "speak"
      <4>1. RespLive /\ ~respCancelled
        BY <2>1, <3>2 DEF VoiceCancelled, IInv, Nested
      <4> QED
        BY <1>1, <2>1, <3>2, <4>1, ResponseTurns DEF SpeakReturns
    <3> QED
      BY <3>1, <3>2
  <2>2. ASSUME NEW outcome, SpeakRaises(outcome), voice # "idle"
        PROVE  [Conversation!Next]_Conversation!vars
    <3>1. CASE speaker = "speak"
      BY <1>2, <2>2, <3>1 DEF SpeakRaises
    <3>2. CASE speaker # "speak"
      <4>1. RespLive
        BY <2>2, <3>2 DEF IInv, Nested
      <4> QED
        BY <2>2, <3>2, <4>1, ResponseTurns DEF SpeakRaises
    <3> QED
      BY <3>1, <3>2
  <2>3. CASE Synthesized
    BY <1>2, <2>3 DEF Synthesized
  <2>4. CASE SynthesisFailed \/ PlaybackReturned
    BY <2>1, <2>4 DEF SynthesisFailed, PlaybackReturned
  <2>5. CASE PlaybackRaised \/ VoiceUnwind
    BY <2>2, <2>5 DEF PlaybackRaised, VoiceUnwind
  <2> QED
    BY <1>4, <2>3, <2>4, <2>5 DEF VoiceStep
<1>5. CASE SpeakerStep \/ PlaybackStep
  BY <1>2, <1>5 DEF SpeakerStep, SpeakerGet, SpeakerUnwind, PlaybackStep, PlaybackStart,
    SleepOver, PlaybackTimeout, PlaybackUnwind
<1>6. ASSUME handler \in {"stop", "gather"}, handler' \in {"stop", "gather"},
             UNCHANGED <<leaving, speech, respGen, historyVars>>
      PROVE  UNCHANGED Conversation!vars
  <2>1. Floor' = Floor
    BY <1>1, <1>6, FloorIs, FloorNext
  <2> QED
    BY <1>6, <2>1 DEF Conversation!vars
<1>7. CASE ServerStep
  <2>1. CASE handler' = handler
    BY <1>2, <1>7, <2>1 DEF ServerStep, ServeExists, ServeBroadcast, ServeStop, SkipLost
  <2>2. CASE handler' # handler
    <3>1. Serving("stop") /\ Head(line).awaited /\ handler' = "gather"
          /\ UNCHANGED <<leaving, speech, respGen, historyVars>>
      BY <1>7, <2>2 DEF ServerStep, ServeExists, ServeBroadcast, ServeStop, SkipLost
    <3>2. handler = "stop"
      BY <3>1, Serve DEF IInv, TypeOK, MediaTypeOK, Serving
    <3> QED
      BY <1>6, <3>1, <3>2
  <2> QED
    BY <2>1, <2>2
<1>8. CASE HandlerStep
  <2>1. ASSUME NEW welcome \in BOOLEAN, Connect(welcome)
        PROVE  [Conversation!Next]_Conversation!vars
    <3>1. resp = "idle" /\ generation = 0 /\ ~leaving /\ ~speech /\ respGen = 0
      BY <1>1, <2>1 DEF Connect, IInv, Phases, Generations
    <3>2. CASE welcome
      <4>1. Floor = "open" /\ Floor' = "agent"
        BY <2>1, <3>1, <3>2, FloorIs, FloorNext DEF Connect
      <4>2. respGen' = 1 /\ 1 \in Generations /\ UNCHANGED historyVars
        BY <2>1, <3>1, <3>2, MediaAssumption DEF Connect, Generations
      <4> QED
        BY <3>1, <4>1, <4>2 DEF Conversation!Next, Conversation!AgentBegins
    <3>3. CASE ~welcome
      <4>1. Floor' = Floor
        BY <2>1, <3>1, <3>3, FloorIs, FloorNext DEF Connect
      <4> QED
        BY <2>1, <3>3, <4>1 DEF Connect, Conversation!vars
    <3> QED
      BY <3>2, <3>3
  <2>2. CASE StopTimeout
    BY <1>6, <2>2 DEF StopTimeout
  <2>3. CASE InterruptDone
    <3>1. /\ handler = "gather"
          /\ handler' = IF leaving THEN "closed" ELSE "loop"
          /\ UNCHANGED <<leaving, respGen, historyVars>>
      BY <2>3 DEF InterruptDone
    <3>2. speech' = ~leaving
      BY <2>3 DEF InterruptDone
    <3>3. Floor' = Floor
      <4>1. CASE leaving
        BY <3>1, <4>1, FloorIs, FloorNext
      <4>2. CASE ~leaving
        <5>1. speech' /\ ~leaving'
          BY <3>1, <3>2, <4>2
        <5> QED
          BY <3>1, <4>2, <5>1, FloorIs, FloorNext
      <4> QED
        BY <4>1, <4>2
    <3> QED
      BY <3>1, <3>3 DEF Conversation!vars
  <2>4. CASE Disconnect
    <3>1. leaving' = TRUE
      BY <2>4 DEF Disconnect
    <3>2. leaving' \in BOOLEAN /\ leaving'
      BY <3>1
    <3> QED
      BY <2>4, <3>2, InterruptTurns DEF Disconnect
  <2> QED
    BY <1>8, <2>1, <2>2, <2>3, <2>4 DEF HandlerStep
<1>9. CASE CallerStep
  <2>1. CASE SpeechStart
    <3>1. CASE RespLive
      BY <1>1, <2>1, <3>1, InterruptTurns DEF SpeechStart
    <3>2. CASE ~RespLive
      <4>1. handler = "loop" /\ ~speech /\ ~leaving /\ speech'
            /\ UNCHANGED <<handler, leaving, resp, respGen, historyVars>>
        BY <2>1, <3>2 DEF SpeechStart, IInv, Phases
      <4>2. Floor = "open" /\ Floor' = "caller"
        BY <3>2, <4>1, FloorIs, FloorNext
      <4> QED
        BY <4>1, <4>2 DEF Conversation!Next, Conversation!CallerSpeaks
    <3> QED
      BY <3>1, <3>2
  <2>2. CASE SpeechEnd
    <3>1. handler = "loop" /\ speech /\ generation < MaxGeneration
          /\ respGen' = generation + 1 /\ resp' = "stt"
          /\ UNCHANGED <<handler, leaving, historyVars>>
      BY <2>2 DEF SpeechEnd
    <3>2. ~leaving /\ ~speech'
      BY <2>2 DEF SpeechEnd, IInv, Phases
    <3>3. Floor = "caller" /\ Floor' = "agent"
      BY <3>1, <3>2, FloorIs, FloorNext
    <3>4. respGen' \in Generations /\ respGen' > respGen
      BY <1>1, <3>1, MediaAssumption DEF IInv, Phases, Generations
    <3> QED
      BY <3>1, <3>3, <3>4 DEF Conversation!Next, Conversation!AgentBegins
  <2>3. CASE HangUp \/ LoseSocket
    BY <1>2, <2>3 DEF HangUp, LoseSocket
  <2> QED
    BY <1>9, <2>1, <2>2, <2>3 DEF CallerStep
<1>10. CASE PlayedOut \/ CallOver \/ UNCHANGED vars
  BY <1>2, <1>10 DEF PlayedOut, CallOver, vars
<1> QED
  BY <1>3, <1>4, <1>5, <1>7, <1>8, <1>9, <1>10 DEF Next

\* The four tasks of a call, their cancellations and the requests that time out
\* implement turn taking: whoever has the floor has it alone, and CallState.history
\* gets a turn once, from the task that answers it or from the interruption.
THEOREM ImplementsTurnTaking == Spec => Conversation!SafeSpec
<1>1. Init => Conversation!Init
  <2> SUFFICES ASSUME Init PROVE Conversation!Init
    OBVIOUS
  <2>1. Floor = "open"
    BY FloorIs DEF Init, RespLive
  <2> QED
    BY <2>1 DEF Init, Conversation!Init
<1> QED
  BY <1>1, StepTurns, Inductive, PTL DEF Spec, Conversation!SafeSpec

-----------------------------------------------------------------------------
(* What TurnTaking promises of the record.  Nothing here is of the tasks: it *)
(* follows from the steps of TurnTaking alone, for any cap.                  *)

Question(t) == [role |-> "user", turn |-> t]
Answer(t) == [role |-> "assistant", turn |-> t]

Said == [role : {"user", "assistant"}, turn : Nat]

\* The two parts of the claim about a record, of any sequence of entries.
InOrder(r) ==
    \A i, j \in 1 .. Len(r) :
        i < j => \/ r[i].turn < r[j].turn
                 \/ /\ r[i].turn = r[j].turn /\ j = i + 1
                    /\ r[i].role = "user" /\ r[j].role = "assistant"

Follows(r) ==
    \A i \in 1 .. Len(r) : r[i].role = "assistant" /\ i > 1 => r[i - 1] = Question(r[i].turn)

Before(r, t) == \A i \in 1 .. Len(r) : r[i].turn < t

\* The turn in progress is newer than the record while the agent has the floor,
\* and so is what is pending; the answer pending is the answer to what was asked.
TurnIsNew ==
    /\ Floor = "agent" => respGen > 0 /\ Before(history, respGen)
    /\ Before(history, respGen + 1)
    /\ pendingUser # 0 => pendingUser <= respGen /\ Before(history, pendingUser)
    /\ pendingReply \in {0, pendingUser}

\* The inductive invariant.
TurnInv == Conversation!TypeOK /\ InOrder(history) /\ Follows(history) /\ TurnIsNew

-----------------------------------------------------------------------------

\* Appending a newer turn, whole or without its answer, keeps a record in order.
LEMMA AppendTurn ==
    ASSUME NEW r \in Seq(Said), NEW t \in Nat, InOrder(r), Follows(r), Before(r, t),
           NEW e, e = <<Question(t)>> \/ e = <<Question(t), Answer(t)>>
    PROVE  /\ r \o e \in Seq(Said) /\ InOrder(r \o e) /\ Follows(r \o e)
           /\ \A n \in Nat : n > t => Before(r \o e, n)
<1>1. e \in Seq(Said) /\ Len(e) \in {1, 2} /\ e[1] = Question(t)
      /\ (Len(e) = 2 => e[2] = Answer(t))
  <2>1. Question(t) \in Said /\ Answer(t) \in Said
    BY DEF Said, Question, Answer
  <2>2. CASE e = <<Question(t)>>
    BY <2>1, <2>2
  <2>3. CASE e = <<Question(t), Answer(t)>>
    BY <2>1, <2>3
  <2> QED
    BY <2>2, <2>3
<1>2. /\ r \o e \in Seq(Said) /\ Len(r \o e) = Len(r) + Len(e)
      /\ \A i \in 1 .. Len(r) : (r \o e)[i] = r[i]
      /\ \A i \in Len(r) + 1 .. Len(r) + Len(e) : (r \o e)[i] = e[i - Len(r)]
  BY <1>1, ConcatProperties
<1>3. \A i \in 1 .. Len(r) : r[i] \in Said
  BY ElementOfSeq
<1>4. /\ (r \o e)[Len(r) + 1] = Question(t)
      /\ Len(e) = 2 => (r \o e)[Len(r) + 2] = Answer(t)
  BY <1>1, <1>2
<1>5. \A i \in 1 .. Len(r \o e) : i <= Len(r) \/ i = Len(r) + 1
                                  \/ (i = Len(r) + 2 /\ Len(e) = 2)
  BY <1>1, <1>2
<1>6. Question(t).turn = t /\ Answer(t).turn = t
      /\ Question(t).role = "user" /\ Answer(t).role = "assistant"
  BY DEF Question, Answer
<1>7. InOrder(r \o e)
  <2> SUFFICES ASSUME NEW i \in 1 .. Len(r \o e), NEW j \in 1 .. Len(r \o e), i < j
               PROVE  LET s == r \o e
                      IN  \/ s[i].turn < s[j].turn
                          \/ /\ s[i].turn = s[j].turn /\ j = i + 1
                             /\ s[i].role = "user" /\ s[j].role = "assistant"
    BY DEF InOrder
  <2>1. CASE j <= Len(r)
    BY <2>1, <1>2 DEF InOrder
  <2>2. CASE j > Len(r) /\ i <= Len(r)
    <3>1. (r \o e)[i].turn < t
      BY <2>2, <1>2 DEF Before
    <3>2. (r \o e)[j].turn = t
      BY <2>2, <1>4, <1>5, <1>6
    <3> QED
      BY <3>1, <3>2
  <2>3. CASE i > Len(r)
    <3>1. i = Len(r) + 1 /\ j = Len(r) + 2 /\ Len(e) = 2
      BY <2>3, <1>5
    <3> QED
      BY <3>1, <1>4, <1>6
  <2> QED
    BY <2>1, <2>2, <2>3, <1>2
<1>8. Follows(r \o e)
  BY <1>2, <1>3, <1>4, <1>5, <1>6 DEF Follows
<1>9. \A n \in Nat : n > t => Before(r \o e, n)
  <2> SUFFICES ASSUME NEW n \in Nat, n > t, NEW i \in 1 .. Len(r \o e)
               PROVE  (r \o e)[i].turn < n
    BY DEF Before
  <2>1. CASE i <= Len(r)
    <3>1. i \in 1 .. Len(r) /\ r[i].turn \in Nat /\ r[i].turn < t
      BY <1>3, <2>1 DEF Before, Said
    <3> QED
      BY <1>2, <3>1
  <2>2. CASE i > Len(r)
    BY <1>4, <1>5, <1>6, <2>2
  <2> QED
    BY <2>1, <2>2
<1> QED
  BY <1>2, <1>7, <1>8, <1>9

\* The most recent part of a record in order is in order.
LEMMA TrimKeeps ==
    ASSUME NEW r \in Seq(Said), InOrder(r), Follows(r)
    PROVE  /\ Trim(r) \in Seq(Said) /\ InOrder(Trim(r)) /\ Follows(Trim(r))
           /\ \A n \in Nat : Before(r, n) => Before(Trim(r), n)
<1> DEFINE from == Len(r) - HistoryCap + 1
<1>0. HistoryCap \in Nat \ {0}
  BY AgentAssumption
<1>1. CASE Len(r) > HistoryCap
  <2>1. from \in 1 .. Len(r) + 1
    BY <1>0, <1>1
  <2>2. /\ Trim(r) = SubSeq(r, from, Len(r))
        /\ Trim(r) \in Seq(Said) /\ Len(Trim(r)) = HistoryCap
        /\ \A i \in 1 .. HistoryCap : Trim(r)[i] = r[from + i - 1]
    BY <1>0, <1>1, <2>1, SubSeqProperties DEF Trim
  <2>3. \A i \in 1 .. HistoryCap : from + i - 1 \in 1 .. Len(r)
    BY <1>0, <1>1
  <2>4. InOrder(Trim(r))
    BY <2>1, <2>2, <2>3 DEF InOrder
  <2>5. Follows(Trim(r))
    <3> SUFFICES ASSUME NEW i \in 1 .. HistoryCap, i > 1, r[from + i - 1].role = "assistant"
                 PROVE  r[from + i - 2] = Question(r[from + i - 1].turn)
      <4>1. \A k \in 1 .. HistoryCap : k > 1 => Trim(r)[k - 1] = r[from + k - 2]
        <5> TAKE k \in 1 .. HistoryCap
        <5> HAVE k > 1
        <5>1. k - 1 \in 1 .. HistoryCap /\ from + (k - 1) - 1 = from + k - 2
          BY <1>0, <2>1
        <5> QED
          BY <2>2, <5>1
      <4> QED
        BY <2>2, <4>1 DEF Follows
    <3>1. from + i - 1 \in 1 .. Len(r) /\ from + i - 1 > 1
      BY <2>1, <2>3
    <3> QED
      BY <2>1, <3>1 DEF Follows
  <2>6. \A n \in Nat : Before(r, n) => Before(Trim(r), n)
    BY <2>2, <2>3 DEF Before
  <2> QED
    BY <2>2, <2>4, <2>5, <2>6
<1>2. CASE ~(Len(r) > HistoryCap)
  BY <1>2 DEF Trim
<1> QED
  BY <1>1, <1>2

\* What is recorded of a turn that is cut off.
LEMMA PendingIs ==
    ASSUME TurnInv
    PROVE  \/ PendingTurn = <<>>
           \/ /\ pendingUser # 0
              /\ \/ PendingTurn = <<Question(pendingUser)>>
                 \/ PendingTurn = <<Question(pendingUser), Answer(pendingUser)>>
<1>1. CASE pendingUser = 0
  BY <1>1 DEF TurnInv, TurnIsNew, PendingTurn
<1>2. CASE pendingUser # 0 /\ pendingReply = 0
  BY <1>2 DEF PendingTurn, Entry, Question, Answer
<1>3. CASE pendingUser # 0 /\ pendingReply = pendingUser
  <2> DEFINE q == Question(pendingUser)
             a == Answer(pendingUser)
             S == {q, a}
  <2>1. <<q>> \in Seq(S) /\ <<a>> \in Seq(S) /\ <<q, a>> \in Seq(S)
    OBVIOUS
  <2>2. /\ <<q>> \o <<a>> \in Seq(S) /\ Len(<<q>> \o <<a>>) = 2
        /\ (<<q>> \o <<a>>)[1] = q /\ (<<q>> \o <<a>>)[2] = a
    BY <2>1, ConcatProperties
  <2>3. <<q>> \o <<a>> = <<q, a>>
    <3>1. \A i \in 1 .. 2 : i = 1 \/ i = 2
      OBVIOUS
    <3>2. Len(<<q, a>>) = 2 /\ <<q, a>>[1] = q /\ <<q, a>>[2] = a
      OBVIOUS
    <3> QED
      BY <2>1, <2>2, <3>1, <3>2, SeqEqual
  <2>4. PendingTurn = <<q>> \o <<a>>
    BY <1>3 DEF PendingTurn, Entry, Question, Answer
  <2> QED
    BY <1>3, <2>3, <2>4
<1> QED
  BY <1>1, <1>2, <1>3 DEF TurnInv, TurnIsNew

\* What an interruption leaves of the record, wherever it strikes.
LEMMA CutOffKeepsOrder ==
    ASSUME TurnInv
    PROVE  LET r == history \o PendingTurn
           IN  /\ r \in Seq(Said) /\ InOrder(r) /\ Follows(r)
               /\ Before(r, respGen + 1)
<1>1. /\ history \in Seq(Said) /\ pendingUser \in Nat /\ respGen \in Nat
      /\ InOrder(history) /\ Follows(history) /\ Before(history, respGen + 1)
  BY DEF TurnInv, Conversation!TypeOK, Said, TurnIsNew
<1>2. CASE PendingTurn = <<>>
  BY <1>1, <1>2
<1>3. CASE /\ pendingUser # 0
           /\ \/ PendingTurn = <<Question(pendingUser)>>
              \/ PendingTurn = <<Question(pendingUser), Answer(pendingUser)>>
  <2>1. Before(history, pendingUser) /\ respGen + 1 > pendingUser
    BY <1>1, <1>3 DEF TurnInv, TurnIsNew
  <2> QED
    BY <1>1, <1>3, <2>1, AppendTurn
<1> QED
  BY <1>2, <1>3, PendingIs

\* A completed turn, recorded and the record cut to its cap.
LEMMA CompleteKeepsOrder ==
    ASSUME TurnInv, Floor = "agent"
    PROVE  LET r == Trim(history \o <<Question(respGen), Answer(respGen)>>)
           IN  /\ r \in Seq(Said) /\ InOrder(r) /\ Follows(r)
               /\ Before(r, respGen + 1)
<1> DEFINE r == history \o <<Question(respGen), Answer(respGen)>>
<1>1. /\ history \in Seq(Said) /\ respGen \in Nat
      /\ InOrder(history) /\ Follows(history) /\ Before(history, respGen)
  BY DEF TurnInv, Conversation!TypeOK, Said, TurnIsNew
<1>2. r \in Seq(Said) /\ InOrder(r) /\ Follows(r) /\ Before(r, respGen + 1)
  <2>1. respGen + 1 \in Nat /\ respGen + 1 > respGen
    BY <1>1
  <2> QED
    BY <1>1, <2>1, AppendTurn
<1> HIDE DEF r
<1>3. respGen + 1 \in Nat
  BY <1>1
<1>4. Trim(r) \in Seq(Said) /\ InOrder(Trim(r)) /\ Follows(Trim(r))
      /\ Before(Trim(r), respGen + 1)
  BY <1>2, <1>3, TrimKeeps
<1> QED
  BY <1>4 DEF r

LEMMA InitTurns == Conversation!Init => TurnInv
<1> SUFFICES ASSUME Conversation!Init PROVE TurnInv
  OBVIOUS
<1>1. history \in Seq(Said) /\ Len(history) = 0
  BY DEF Conversation!Init
<1> QED
  BY <1>1
  DEF Conversation!Init, TurnInv, Conversation!TypeOK, Said, InOrder, Follows,
    TurnIsNew, Before

LEMMA NextTurns ==
    ASSUME TurnInv, [Conversation!Next]_Conversation!vars
    PROVE  TurnInv'
<1>0. /\ history \in Seq(Said) /\ respGen \in Nat
      /\ pendingUser \in Nat /\ pendingReply \in Nat
      /\ \A i \in 1 .. Len(history) : history[i].turn \in Nat
  <2>1. history \in Seq(Said) /\ respGen \in Nat
        /\ pendingUser \in Nat /\ pendingReply \in Nat
    BY DEF TurnInv, Conversation!TypeOK, Said
  <2>2. \A i \in 1 .. Len(history) : history[i] \in Said
    BY <2>1, ElementOfSeq
  <2> QED
    BY <2>1, <2>2 DEF Said
<1>1. ASSUME Conversation!AgentBegins PROVE TurnInv'
  <2>1. respGen' \in Nat /\ respGen' > respGen
    BY <1>1, MediaAssumption DEF Conversation!AgentBegins, Generations
  <2>2. TurnIsNew'
    BY <1>0, <1>1, <2>1 DEF Conversation!AgentBegins, TurnInv, TurnIsNew, Before
  <2> QED
    BY <1>1, <2>1, <2>2
    DEF Conversation!AgentBegins, TurnInv, Conversation!TypeOK, InOrder, Follows
<1>2. ASSUME Conversation!Understand PROVE TurnInv'
  <2>1. /\ Floor = "agent" /\ UNCHANGED <<Floor, respGen, history>>
        /\ pendingUser' = respGen /\ pendingReply' = 0
    BY <1>2 DEF Conversation!Understand
  <2>2. TurnIsNew'
    BY <1>0, <2>1 DEF TurnInv, TurnIsNew, Before
  <2> QED
    BY <1>0, <2>1, <2>2 DEF TurnInv, Conversation!TypeOK, InOrder, Follows
<1>3. ASSUME Conversation!Reply PROVE TurnInv'
  BY <1>0, <1>3
  DEF Conversation!Reply, TurnInv, Conversation!TypeOK, InOrder, Follows, TurnIsNew,
    Before
<1>4. ASSUME Conversation!Complete PROVE TurnInv'
  <2>1. Floor = "agent" /\ history' = Trim(history \o <<Question(respGen), Answer(respGen)>>)
    BY <1>4
    DEF Conversation!Complete, Conversation!Recent, Conversation!Question,
      Conversation!Answer, Trim, Question, Answer
  <2>2. /\ history' \in Seq(Said)
        /\ InOrder(history') /\ Follows(history') /\ Before(history', respGen + 1)
    BY <2>1, CompleteKeepsOrder
  <2>3. InOrder(history)' /\ Follows(history)'
    BY <2>2 DEF InOrder, Follows
  <2> QED
    BY <1>0, <1>4, <2>2, <2>3
    DEF Conversation!Complete, TurnInv, Conversation!TypeOK, TurnIsNew, Said
<1>5. ASSUME Conversation!GiveUp PROVE TurnInv'
  BY <1>0, <1>5
  DEF Conversation!GiveUp, TurnInv, Conversation!TypeOK, InOrder, Follows, TurnIsNew,
    Before
<1>6. ASSUME NEW next \in {"caller", "over"}, Conversation!CutOff(next) PROVE TurnInv'
  <2>1. history' = history \o PendingTurn
    BY <1>6
    DEF Conversation!CutOff, Conversation!Partial, Conversation!Question,
      Conversation!Answer, PendingTurn, Entry
  <2>2. /\ history' \in Seq(Said)
        /\ InOrder(history') /\ Follows(history') /\ Before(history', respGen + 1)
    BY <2>1, CutOffKeepsOrder
  <2>3. InOrder(history)' /\ Follows(history)'
    BY <2>2 DEF InOrder, Follows
  <2> QED
    BY <1>0, <1>6, <2>2, <2>3
    DEF Conversation!CutOff, TurnInv, Conversation!TypeOK, TurnIsNew, Said
<1>7. ASSUME Conversation!CallerSpeaks PROVE TurnInv'
  <2>1. CASE Floor = "open" /\ Floor' = "caller"
             /\ UNCHANGED <<respGen, pendingUser, pendingReply, history>>
    BY <1>0, <2>1 DEF TurnInv, Conversation!TypeOK, InOrder, Follows, TurnIsNew, Before
  <2> QED
    BY <1>6, <1>7, <2>1 DEF Conversation!CallerSpeaks
<1>8. ASSUME UNCHANGED Conversation!vars PROVE TurnInv'
  BY <1>8
  DEF Conversation!vars, TurnInv, Conversation!TypeOK, InOrder, Follows, TurnIsNew, Before
<1> QED
  BY <1>1, <1>2, <1>3, <1>4, <1>5, <1>6, <1>7, <1>8
  DEF Conversation!Next, Conversation!CallEnds

-----------------------------------------------------------------------------

\* The inductive invariant holds of every conversation, however CallState.history is
\* written and interrupted.
THEOREM TurnsKept == Conversation!SafeSpec => []TurnInv
<1>1. TurnInv /\ [Conversation!Next]_Conversation!vars => TurnInv'
  BY NextTurns
<1> QED
  BY <1>1, InitTurns, PTL DEF Conversation!SafeSpec

\* The conversation keeps its types: CallState.history is a list of turns by role, and
\* pending_user_text and pending_reply are turns.
THEOREM TurnsTypeCorrect == Conversation!SafeSpec => []Conversation!TypeOK
<1> QED
  BY TurnsKept, PTL DEF TurnInv

\* CallState.history holds each turn at most once, whole or cut off, in the order
\* of the conversation, and what is pending is newer than all of it.
THEOREM InOrderAlways == Conversation!SafeSpec => []Conversation!RecordInOrder
<1>1. TurnInv => Conversation!RecordInOrder
  <2> SUFFICES ASSUME TurnInv PROVE Conversation!RecordInOrder
    OBVIOUS
  <2>1. DOMAIN history = 1 .. Len(history)
    BY DEF TurnInv, Conversation!TypeOK
  <2> QED
    BY <2>1
    DEF TurnInv, Conversation!TypeOK, InOrder, TurnIsNew, Before,
      Conversation!RecordInOrder
<1> QED
  BY <1>1, TurnsKept, PTL

\* In CallState.history a reply comes right after the question it answers, except
\* where the cap has cut the question off.
THEOREM RepliesFollow == Conversation!SafeSpec => []Conversation!RepliesFollowQuestions
<1>1. TurnInv => Conversation!RepliesFollowQuestions
  <2> SUFFICES ASSUME TurnInv PROVE Conversation!RepliesFollowQuestions
    OBVIOUS
  <2>1. DOMAIN history = 1 .. Len(history)
    BY DEF TurnInv, Conversation!TypeOK
  <2> QED
    BY <2>1
    DEF TurnInv, Conversation!TypeOK, Follows, Conversation!RepliesFollowQuestions,
      Question, Conversation!Question
<1> QED
  BY <1>1, TurnsKept, PTL

\* So the history of every call is its conversation: each turn at most once, in the
\* order they were spoken, and what is pending is newer than all of them.
THEOREM HistoryStaysInOrder == Spec => []HistoryInOrder
<1>1. Conversation!RecordInOrder => HistoryInOrder
  BY DEF HistoryInOrder
<1> QED
  BY <1>1, InOrderAlways, ImplementsTurnTaking, PTL

-----------------------------------------------------------------------------
(* Who is heard.  What follows needs no fact about the server until the      *)
(* invariant AudioIsOwn, which takes the requests to be served once each.    *)

\* Who is cancelled belongs to an answer that is over; and past its start, where
\* play_wav asks, the playback of an answer that is over is cancelled.
Marked ==
    /\ PlaybackLive /\ playback # "start" => (playbackCancelled <=> ~IsCurrent)
    /\ PlaybackLive /\ playbackCancelled => ~IsCurrent
    /\ SpeakerLive /\ speakerCancelled => ~IsCurrent
    /\ RespLive /\ respCancelled => ~IsCurrent
    /\ playback \in {"exists", "broadcast"} => Mode = "fs_bridge"

\* A stop is behind position i of the line.
Stopped(l, i) == \E j \in 1 .. Len(l) : j > i /\ l[j].op = "stop"

AllStopped(l) == \A i \in 1 .. Len(l) : l[i].op = "broadcast" => Stopped(l, i)

\* Nothing will be heard but what a stop is about to end.
Quiet(l, ch) == AllStopped(l) /\ (ch # <<>> => Stopped(l, 0))

\* The request r alone will be heard: no stop is behind it, one is before it if
\* there is anything to stop.
OnlyOne(l, ch, r) ==
    /\ ch # <<>> => Stopped(l, 0)
    /\ \E k \in 1 .. Len(l) :
          /\ l[k] = r /\ ~Stopped(l, k)
          /\ \A i \in 1 .. Len(l) : i # k /\ l[i].op = "broadcast" => Stopped(l, i)

\* What play_wav asks for, and where it is while that request is in the line.
Requested == Play("broadcast", respGen, chunk, Mode = "fs_bridge")

Requesting == IF Mode = "fs_bridge" THEN "broadcast" ELSE "sleep"

\* The caller hears, or will hear, at most one piece of audio: the chunk that the
\* current answer's playback task asked for and still waits with.
AudioIsOwn ==
    /\ ~callUp => channel = <<>>
    /\ Connected =>
          \/ Quiet(line, channel)
          \/ IsCurrent /\ playback = Requesting /\ OnlyOne(line, channel, Requested)
          \/ /\ IsCurrent /\ playback = "sleep"
             /\ AllStopped(line) /\ Len(channel) = 1 /\ OnTime(channel[1])

\* A request that is appended comes behind all the others.
LEMMA StopsAfterAppend ==
    ASSUME NEW l \in Seq(Request), NEW r \in Request
    PROVE  /\ \A i \in Nat : Stopped(l, i) => Stopped(Append(l, r), i)
           /\ r.op # "stop" =>
                 \A i \in Nat : Stopped(Append(l, r), i) <=> Stopped(l, i)
           /\ r.op = "stop" => \A i \in 0 .. Len(l) : Stopped(Append(l, r), i)
<1>1. /\ Len(Append(l, r)) = Len(l) + 1 /\ Len(l) \in Nat
      /\ \A i \in 1 .. Len(l) : Append(l, r)[i] = l[i]
      /\ Append(l, r)[Len(l) + 1] = r
  BY AppendProperties, LenProperties
<1>2. /\ \A i \in 1 .. Len(Append(l, r)) : i \in 1 .. Len(l) \/ i = Len(l) + 1
      /\ \A i \in 1 .. Len(l) : i \in 1 .. Len(Append(l, r))
      /\ Len(l) + 1 \in 1 .. Len(Append(l, r))
      /\ \A i \in 0 .. Len(l) : Len(l) + 1 > i
  BY <1>1
<1> QED
  BY <1>1, <1>2 DEF Stopped

\* Something else than audio is sent; a stop is sent; audio is.
LEMMA SendQuiet ==
    ASSUME NEW l \in Seq(Request), NEW r \in Request, NEW ch
    PROVE  /\ AllStopped(l) /\ r.op # "broadcast" => AllStopped(Append(l, r))
           /\ Quiet(l, ch) /\ r.op # "broadcast" => Quiet(Append(l, r), ch)
           /\ r.op = "stop" => Quiet(Append(l, r), ch)
           /\ Quiet(l, ch) /\ r.op = "broadcast" => OnlyOne(Append(l, r), ch, r)
<1> DEFINE m == Append(l, r)
<1>1. /\ Len(m) = Len(l) + 1 /\ Len(l) \in Nat
      /\ \A i \in 1 .. Len(l) : m[i] = l[i]
      /\ m[Len(l) + 1] = r
  BY AppendProperties, LenProperties
<1>2. /\ \A i \in 1 .. Len(m) : i \in 1 .. Len(l) \/ i = Len(l) + 1
      /\ \A i \in 1 .. Len(l) : i \in Nat /\ i \in 0 .. Len(l)
      /\ 0 \in Nat /\ 0 \in 0 .. Len(l)
      /\ Len(l) + 1 \in 1 .. Len(m) /\ Len(l) + 1 \in Nat
  BY <1>1
<1>3. /\ \A i \in Nat : Stopped(l, i) => Stopped(m, i)
      /\ r.op = "stop" => \A i \in 0 .. Len(l) : Stopped(m, i)
  BY StopsAfterAppend
<1>4. r.op = "broadcast" => ~Stopped(m, Len(l) + 1)
  BY <1>1 DEF Stopped
<1> HIDE DEF m
<1>5. AllStopped(l) /\ r.op # "broadcast" => AllStopped(m)
  BY <1>1, <1>2, <1>3 DEF AllStopped
<1>6. r.op = "stop" => AllStopped(m) /\ Stopped(m, 0)
  <2>1. r.op = "stop" => r.op # "broadcast"
    OBVIOUS
  <2> QED
    BY <1>1, <1>2, <1>3, <2>1 DEF AllStopped
<1>7. Quiet(l, ch) /\ r.op = "broadcast" => OnlyOne(m, ch, r)
  <2> SUFFICES ASSUME AllStopped(l), ch # <<>> => Stopped(l, 0), r.op = "broadcast"
               PROVE  OnlyOne(m, ch, r)
    BY DEF Quiet
  <2>1. \A i \in 1 .. Len(m) : i # Len(l) + 1 /\ m[i].op = "broadcast" => Stopped(m, i)
    BY <1>1, <1>2, <1>3 DEF AllStopped
  <2>2. ch # <<>> => Stopped(m, 0)
    BY <1>2, <1>3
  <2> QED
    BY <1>1, <1>2, <1>4, <2>1, <2>2 DEF OnlyOne
<1> QED
  BY <1>2, <1>3, <1>5, <1>6, <1>7 DEF Quiet, m

\* Abandoning a request leaves every stop where it is.
LEMMA AbandonQuiet ==
    ASSUME NEW l \in Seq(Request), NEW ch, NEW sent \in BOOLEAN, Quiet(l, ch)
    PROVE  Quiet(Abandon(l, FALSE, sent), ch)
<1> DEFINE m == Abandon(l, FALSE, sent)
<1>1. Len(l) \in Nat /\ DOMAIN l = 1 .. Len(l) /\ \A i \in 1 .. Len(l) : l[i] \in Request
  BY LenProperties, ElementOfSeq
<1>2. Len(m) = Len(l)
  BY <1>1 DEF Abandon
<1>3. ASSUME NEW i \in 1 .. Len(l)
      PROVE  /\ l[i].op = "stop" => m[i].op = "stop"
             /\ m[i].op = "broadcast" => l[i].op = "broadcast"
  <2>1. m[i] = IF l[i].awaited /\ (l[i].op = "stop") = FALSE
               THEN [l[i] EXCEPT !.awaited = FALSE, !.op = IF sent THEN @ ELSE "lost"]
               ELSE l[i]
    BY <1>1 DEF Abandon
  <2>2. l[i] \in Request
    BY <1>1
  <2>3. CASE l[i].awaited /\ (l[i].op = "stop") = FALSE
    <3>1. m[i] = [l[i] EXCEPT !.awaited = FALSE, !.op = IF sent THEN @ ELSE "lost"]
      BY <2>1, <2>3
    <3>2. m[i].op \in {l[i].op, "lost"}
      BY <2>2, <3>1 DEF Request
    <3> QED
      BY <2>3, <3>2
  <2>4. CASE ~(l[i].awaited /\ (l[i].op = "stop") = FALSE)
    BY <2>1, <2>4
  <2> QED
    BY <2>3, <2>4
<1> HIDE DEF m
<1>4. \A i : Stopped(l, i) => Stopped(m, i)
  BY <1>2, <1>3 DEF Stopped
<1>5. AllStopped(m)
  BY <1>2, <1>3, <1>4 DEF Quiet, AllStopped
<1> QED
  BY <1>4, <1>5 DEF Quiet, m

\* What is left of the line when its head has been served.
LEMMA ServeQuiet ==
    ASSUME NEW l \in Seq(Request), l # <<>>, NEW ch
    PROVE  /\ AllStopped(l) => AllStopped(Tail(l))
           /\ AllStopped(l) => Quiet(Tail(l), <<>>)
           /\ Head(l).op # "stop" /\ Quiet(l, ch) => Quiet(Tail(l), ch)
           /\ Head(l).op = "broadcast" /\ AllStopped(l) => \A c : Quiet(Tail(l), c)
<1>1. /\ Head(l) = l[1] /\ Len(Tail(l)) = Len(l) - 1 /\ Len(l) \in Nat /\ Len(l) > 0
      /\ \A i \in 1 .. Len(Tail(l)) : Tail(l)[i] = l[i + 1]
  BY HeadTailProperties, LenProperties, EmptySeq
<1>2. \A i \in Nat : Stopped(l, i + 1) => Stopped(Tail(l), i)
  <2> SUFFICES ASSUME NEW i \in Nat, NEW j \in 1 .. Len(l), j > i + 1, l[j].op = "stop"
               PROVE  Stopped(Tail(l), i)
    BY DEF Stopped
  <2>1. j - 1 \in 1 .. Len(Tail(l)) /\ j - 1 > i /\ Tail(l)[j - 1] = l[j]
    BY <1>1
  <2> QED
    BY <2>1 DEF Stopped
<1>3. l[1].op # "stop" /\ Stopped(l, 0) => Stopped(Tail(l), 0)
  <2> SUFFICES ASSUME l[1].op # "stop", NEW j \in 1 .. Len(l), l[j].op = "stop"
               PROVE  Stopped(l, 1)
    BY <1>2 DEF Stopped
  <2>1. j # 1
    OBVIOUS
  <2> QED
    BY <2>1 DEF Stopped
<1>4. AllStopped(l) => AllStopped(Tail(l))
  <2>1. \A i \in 1 .. Len(Tail(l)) : i \in Nat /\ i + 1 \in 1 .. Len(l)
    BY <1>1
  <2> QED
    BY <1>1, <1>2, <2>1 DEF AllStopped
<1>5. AllStopped(l) /\ l[1].op = "broadcast" => Stopped(Tail(l), 0)
  <2>1. 1 \in 1 .. Len(l) /\ 0 \in Nat /\ 0 + 1 = 1
    BY <1>1
  <2> QED
    BY <1>2, <2>1 DEF AllStopped
<1> QED
  BY <1>1, <1>3, <1>4, <1>5 DEF Quiet

\* ... when one request alone is to be heard: another was served, or that one.
LEMMA ServeAlone ==
    ASSUME NEW l \in Seq(Request), l # <<>>, NEW ch, NEW r \in Request,
           r.op = "broadcast", OnlyOne(l, ch, r)
    PROVE  /\ Head(l).op = "stop" => OnlyOne(Tail(l), <<>>, r)
           /\ Head(l).op \in {"exists", "lost"} => OnlyOne(Tail(l), ch, r)
           /\ Head(l).op = "broadcast" =>
                 \/ /\ \A c : OnlyOne(Tail(l), c, r)
                    /\ \E k \in 2 .. Len(l) : l[k] = r
                 \/ Head(l) = r /\ ch = <<>> /\ AllStopped(Tail(l))
<1>1. /\ Head(l) = l[1] /\ Len(Tail(l)) = Len(l) - 1 /\ Len(l) \in Nat /\ Len(l) > 0
      /\ \A i \in 1 .. Len(Tail(l)) : Tail(l)[i] = l[i + 1]
  BY HeadTailProperties, LenProperties, EmptySeq
<1>2. \A i \in Nat : Stopped(l, i + 1) <=> Stopped(Tail(l), i)
  <2>1. ASSUME NEW i \in Nat, NEW j \in 1 .. Len(l), j > i + 1, l[j].op = "stop"
        PROVE  Stopped(Tail(l), i)
    <3>1. j - 1 \in 1 .. Len(Tail(l)) /\ j - 1 > i /\ Tail(l)[j - 1] = l[j]
      BY <1>1, <2>1
    <3> QED
      BY <2>1, <3>1 DEF Stopped
  <2>2. ASSUME NEW i \in Nat, NEW j \in 1 .. Len(Tail(l)), j > i, Tail(l)[j].op = "stop"
        PROVE  Stopped(l, i + 1)
    <3>1. j + 1 \in 1 .. Len(l) /\ j + 1 > i + 1 /\ Tail(l)[j] = l[j + 1]
      BY <1>1, <2>2
    <3> QED
      BY <2>2, <3>1 DEF Stopped
  <2> QED
    BY <2>1, <2>2 DEF Stopped
<1>3. PICK k \in 1 .. Len(l) :
         /\ l[k] = r /\ ~Stopped(l, k)
         /\ \A i \in 1 .. Len(l) : i # k /\ l[i].op = "broadcast" => Stopped(l, i)
  BY DEF OnlyOne
<1>4. ASSUME k # 1, NEW c, c # <<>> => Stopped(l, 1)
      PROVE  OnlyOne(Tail(l), c, r)
  <2> DEFINE m == Tail(l)
  <2>1. k - 1 \in 1 .. Len(m) /\ k - 1 \in Nat /\ (k - 1) + 1 = k
    BY <1>1, <1>4
  <2>2. m[k - 1] = r /\ ~Stopped(m, k - 1)
    BY <1>1, <1>2, <1>3, <2>1
  <2>3. ASSUME NEW i \in 1 .. Len(m), i # k - 1, m[i].op = "broadcast"
        PROVE  Stopped(m, i)
    <3>1. i + 1 \in 1 .. Len(l) /\ i + 1 # k /\ i \in Nat /\ l[i + 1].op = "broadcast"
      BY <1>1, <2>1, <2>3
    <3> QED
      BY <1>2, <1>3, <3>1
  <2>4. c # <<>> => Stopped(m, 0)
    <3>1. 0 \in Nat /\ 0 + 1 = 1
      OBVIOUS
    <3> QED
      BY <1>2, <1>4, <3>1
  <2> HIDE DEF m
  <2>5. OnlyOne(m, c, r)
    BY <2>1, <2>2, <2>3, <2>4 DEF OnlyOne
  <2> QED
    BY <2>5 DEF m
<1>5. l[1].op # "stop" /\ Stopped(l, 0) => Stopped(l, 1)
  <2> SUFFICES ASSUME l[1].op # "stop", NEW j \in 1 .. Len(l), l[j].op = "stop"
               PROVE  Stopped(l, 1)
    BY DEF Stopped
  <2>1. j # 1
    OBVIOUS
  <2> QED
    BY <2>1 DEF Stopped
<1>6. CASE Head(l).op = "stop"
  <2>1. k # 1
    BY <1>1, <1>3, <1>6
  <2>2. OnlyOne(Tail(l), <<>>, r)
    BY <1>4, <2>1
  <2> QED
    BY <1>6, <2>2
<1>7. CASE Head(l).op \in {"exists", "lost"}
  <2>1. k # 1 /\ l[1].op # "stop"
    BY <1>1, <1>3, <1>7
  <2>2. ch # <<>> => Stopped(l, 1)
    BY <1>5, <2>1 DEF OnlyOne
  <2>3. OnlyOne(Tail(l), ch, r)
    BY <1>4, <2>1, <2>2
  <2> QED
    BY <1>7, <2>3
<1>8. CASE Head(l).op = "broadcast" /\ k # 1
  <2>1. Stopped(l, 1) /\ k \in 2 .. Len(l)
    BY <1>1, <1>3, <1>8
  <2>2. \A c : OnlyOne(Tail(l), c, r)
    BY <1>4, <1>8, <2>1
  <2> QED
    BY <1>3, <1>8, <2>1, <2>2
<1>9. CASE Head(l).op = "broadcast" /\ k = 1
  <2>1. ~Stopped(l, 1) /\ l[1].op # "stop" /\ Head(l) = r
    BY <1>1, <1>3, <1>9
  <2>2. ch = <<>>
    BY <1>5, <2>1 DEF OnlyOne
  <2>3. ASSUME NEW i \in 1 .. Len(Tail(l)), Tail(l)[i].op = "broadcast"
        PROVE  Stopped(Tail(l), i)
    <3>1. i + 1 \in 1 .. Len(l) /\ i + 1 # k /\ i \in Nat /\ l[i + 1].op = "broadcast"
      BY <1>1, <1>9, <2>3
    <3> QED
      BY <1>2, <1>3, <3>1
  <2>4. AllStopped(Tail(l))
    BY <2>3 DEF AllStopped
  <2> QED
    BY <1>9, <2>1, <2>2, <2>4
<1>10. Head(l).op \in {"stop", "exists", "lost", "broadcast"}
  <2>1. l[1] \in Request
    BY <1>1, ElementOfSeq
  <2> QED
    BY <1>1, <2>1 DEF Request
<1> QED
  BY <1>6, <1>7, <1>8, <1>9, <1>10

\* Cancellations and the generation go together: only interrupt_response moves the
\* one past a live task, and it marks what is live; later every task of the answer
\* that is over is cancelled through the task that waits for it.
LEMMA NextMarked == IInv /\ Marked /\ [Next]_vars => Marked'
<1> SUFFICES ASSUME IInv, Marked, [Next]_vars PROVE Marked'
  OBVIOUS
<1> USE DEF Marked, SpeakerLive, PlaybackLive, RespLive, IsCurrent, mediaVars, handlerVars,
            respVars, speakerVars, voiceVars, playbackVars, historyVars
<1>1. /\ playbackCancelled \in BOOLEAN /\ speakerCancelled \in BOOLEAN
      /\ respCancelled \in BOOLEAN
      /\ respGen \in Nat /\ generation \in Nat /\ respGen <= generation
      /\ resp = "idle" => ~SpeakerLive /\ playback \notin {"start", "exists", "broadcast",
                                                           "sleep", "yield"}
      /\ playback # "none" => voice = "play"
      /\ resp # "idle" /\ respGen # generation => respCancelled
  BY MediaAssumption DEF IInv, TypeOK, Generations, Nested, Phases
<1>2. CASE RespStep
  <2>1. CASE HeardNothing \/ Transcribed \/ AppointmentReply \/ NotAnAppointment \/ Retrieved
             \/ ResumePut \/ Voiced \/ SpeakerLost \/ SpeakerGathered
             \/ \E b \in BOOLEAN : StreamEnd(b)
    <3>1. UNCHANGED <<playback, playbackCancelled, generation, respGen, respCancelled>>
      BY <2>1 DEF HeardNothing, Transcribed, AppointmentReply, NotAnAppointment, Retrieved,
        ResumePut, Voiced, SpeakerLost, SpeakerGathered, StreamEnd
    <3>2. /\ \/ UNCHANGED speakerCancelled /\ (SpeakerLive' => SpeakerLive)
             \/ speakerCancelled' = FALSE
          /\ RespLive
      BY <2>1 DEF HeardNothing, Transcribed, AppointmentReply, NotAnAppointment, Retrieved,
        ResumePut, Voiced, SpeakerLost, SpeakerGathered, StreamEnd
    <3> QED
      BY <1>1, <3>1, <3>2
  <2>2. ASSUME UNCHANGED <<playback, generation, respGen, respCancelled, speaker>>,
               RespLive, ~IsCurrent,
               CancelSpeaker \/ UNCHANGED <<speakerCancelled, playbackCancelled>>
        PROVE  Marked'
    <3>1. CASE UNCHANGED <<speakerCancelled, playbackCancelled>>
      BY <1>1, <2>2, <3>1
    <3>2. CASE CancelSpeaker
      <4>1. playbackCancelled' = (playbackCancelled \/ (voice = "play" /\ PlaybackLive))
        BY <3>2 DEF CancelSpeaker
      <4>2. playbackCancelled' \in BOOLEAN /\ (playbackCancelled => playbackCancelled')
        BY <4>1
      <4> QED
        BY <1>1, <2>2, <4>2
    <3> QED
      BY <2>2, <3>1, <3>2
  <2>3. ASSUME NEW b \in BOOLEAN, Token(b)
        PROVE  Marked'
    <3>1. UNCHANGED <<playback, generation, respGen, respCancelled, speaker>> /\ RespLive
      BY <2>3 DEF Token
    <3>2. CASE IsCurrent
      <4>1. UNCHANGED <<speakerCancelled, playbackCancelled>>
        BY <2>3, <3>2 DEF Token
      <4> QED
        BY <1>1, <3>1, <4>1
    <3>3. CASE ~IsCurrent
      BY <2>2, <2>3, <3>1, <3>3 DEF Token
    <3> QED
      BY <3>2, <3>3
  <2>4. CASE RespUnwind
    <3>1. UNCHANGED <<playback, generation, respGen, respCancelled, speaker>>
          /\ RespLive /\ respCancelled
      BY <2>4 DEF RespUnwind
    <3>2. CancelSpeaker \/ UNCHANGED <<speakerCancelled, playbackCancelled>>
      BY <2>4 DEF RespUnwind
    <3> QED
      BY <2>2, <3>1, <3>2
  <2> QED
    BY <1>2, <2>1, <2>3, <2>4 DEF RespStep
<1>3. CASE VoiceStep
  <2>1. CASE Synthesized
    <3>1. /\ playback' = "start" /\ playbackCancelled' = FALSE
          /\ UNCHANGED <<generation, respGen, resp, respCancelled, speaker, speakerCancelled>>
      BY <2>1 DEF Synthesized
    <3> QED
      BY <1>1, <3>1
  <2>2. CASE SynthesisFailed \/ PlaybackReturned \/ PlaybackRaised \/ VoiceUnwind
    <3>1. /\ playback' \in {playback, "none"}
          /\ UNCHANGED <<generation, respGen, respCancelled, speakerCancelled,
                         playbackCancelled>>
          /\ SpeakerLive' => SpeakerLive
          /\ RespLive' => RespLive
      BY <2>2 DEF SynthesisFailed, PlaybackReturned, PlaybackRaised, VoiceUnwind, SpeakReturns,
        SpeakRaises
    <3> QED
      BY <1>1, <3>1
  <2> QED
    BY <1>3, <2>1, <2>2 DEF VoiceStep
<1>4. CASE SpeakerStep
  <2>1. /\ UNCHANGED <<generation, respGen, resp, respCancelled, speakerCancelled, playback,
                       playbackCancelled>>
        /\ SpeakerLive' => SpeakerLive
    BY <1>4 DEF SpeakerStep, SpeakerGet, SpeakerUnwind
  <2> QED
    BY <1>1, <2>1
<1>5. CASE PlaybackStep
  <2>1. /\ UNCHANGED <<generation, respGen, resp, respCancelled, speaker, speakerCancelled,
                       playbackCancelled>>
        /\ PlaybackLive
    BY <1>5 DEF PlaybackStep, PlaybackStart, SleepOver, PlaybackTimeout, PlaybackUnwind
  <2>2. \/ playback' \in {"finished", "failed", "cancelled"}
        \/ /\ playback = "start" /\ ~playbackCancelled /\ IsCurrent
           /\ playback' = "exists" => Mode = "fs_bridge"
           /\ playback' \in {"exists", "sleep"}
        \/ playback = "broadcast" /\ playback' = "yield"
    BY <1>5 DEF PlaybackStep, PlaybackStart, PlayCurrent, SleepOver, PlaybackTimeout,
      PlaybackUnwind, Sleep
  <2> QED
    BY <1>1, <2>1, <2>2
<1>6. CASE ServerStep
  <2>1. UNCHANGED <<generation, respGen, resp, respCancelled, speaker, speakerCancelled,
                    playbackCancelled>>
    BY <1>6 DEF ServerStep, ServeExists, ServeBroadcast, ServeStop, SkipLost
  <2>2. line # <<>> /\ line \in Seq(Request) /\ AwaitedFor(line, playback, handler)
    BY <1>6 DEF IInv, TypeOK, MediaTypeOK, ServerStep, ServeExists, ServeBroadcast, ServeStop,
      SkipLost, Serving
  <2>3. Head(line).awaited /\ Head(line).op # "stop" => playback = Head(line).op
    BY <2>2, Serve
  <2>4. \/ UNCHANGED playback
        \/ playback = "exists" /\ playback' \in {"broadcast", "finished"}
        \/ playback = "broadcast" /\ playback' \in {"sleep", "finished"}
    BY <1>6, <2>3 DEF ServerStep, ServeExists, ServeBroadcast, ServeStop, SkipLost, Serving,
      Answered, Sleep
  <2> QED
    BY <1>1, <2>1, <2>4
<1>7. ASSUME Interrupt
      PROVE  Marked'
  <2>1. /\ generation' = generation + 1
        /\ UNCHANGED <<resp, respGen, speaker, playback>>
    BY <1>7 DEF Interrupt
  <2>2. ~IsCurrent'
    BY <1>1, <2>1
  <2>3. playbackCancelled' = PlaybackLive
    BY <1>7 DEF Interrupt
  <2> QED
    BY <2>1, <2>2, <2>3
<1>8. ASSUME resp = "idle", respCancelled' = FALSE, UNCHANGED <<speaker, playback>>
      PROVE  Marked'
  BY <1>1, <1>8
<1>9. CASE HandlerStep
  <2>1. ASSUME NEW welcome \in BOOLEAN, Connect(welcome)
        PROVE  Marked'
    <3>1. resp = "idle"
      BY <2>1 DEF Connect, IInv, Phases
    <3>2. UNCHANGED <<speaker, playback, playbackCancelled, speakerCancelled>>
      BY <2>1 DEF Connect
    <3>3. CASE welcome
      BY <1>8, <2>1, <3>1, <3>2, <3>3 DEF Connect
    <3>4. CASE ~welcome
      BY <1>1, <2>1, <3>2, <3>4 DEF Connect
    <3> QED
      BY <3>3, <3>4
  <2>2. CASE StopTimeout
    BY <1>1, <2>2 DEF StopTimeout
  <2>3. CASE InterruptDone
    <3>1. ~RespLive /\ resp' = "idle" /\ playback' = "none" /\ UNCHANGED speaker
      BY <2>3 DEF InterruptDone, TasksGathered
    <3> QED
      BY <1>1, <3>1
  <2>4. CASE Disconnect
    BY <1>7, <2>4 DEF Disconnect
  <2> QED
    BY <1>9, <2>1, <2>2, <2>3, <2>4 DEF HandlerStep
<1>10. CASE CallerStep
  <2>1. CASE SpeechStart
    <3>1. CASE RespLive
      BY <1>7, <2>1, <3>1 DEF SpeechStart
    <3>2. CASE ~RespLive
      BY <1>1, <2>1, <3>2 DEF SpeechStart
    <3> QED
      BY <3>1, <3>2
  <2>2. CASE SpeechEnd
    <3>1. resp = "idle"
      BY <2>2 DEF SpeechEnd, IInv, Phases
    <3> QED
      BY <1>8, <2>2, <3>1 DEF SpeechEnd
  <2>3. CASE HangUp \/ LoseSocket
    BY <1>1, <2>3 DEF HangUp, LoseSocket
  <2> QED
    BY <1>10, <2>1, <2>2, <2>3 DEF CallerStep
<1>11. CASE PlayedOut \/ CallOver \/ UNCHANGED vars
  BY <1>1, <1>11 DEF PlayedOut, CallOver, vars
<1> QED
  BY <1>2, <1>3, <1>4, <1>5, <1>6, <1>9, <1>10, <1>11 DEF Next

\* When no task asks for audio or waits with it, or the answer is over, what can be
\* heard has a stop behind it.
LEMMA QuietUnlessPlaying ==
    ASSUME AudioIsOwn, Connected, ~IsCurrent \/ playback \notin {"broadcast", "sleep"}
    PROVE  Quiet(line, channel)
<1> QED
  BY DEF AudioIsOwn, Requesting

\* When every request is served once, only the current answer is heard.
LEMMA NextAudio ==
    ASSUME Reliable
    PROVE  IInv /\ Marked /\ AudioIsOwn /\ [Next]_vars => AudioIsOwn'
<1> SUFFICES ASSUME IInv, Marked, AudioIsOwn, [Next]_vars PROVE AudioIsOwn'
  OBVIOUS
<1> USE DEF mediaVars, handlerVars, respVars, speakerVars, voiceVars, playbackVars, historyVars
<1>1. /\ line \in Seq(Request) /\ channel \in Seq(Audio)
      /\ respGen \in Generations /\ chunk \in Chunks
      /\ respGen \in Nat /\ generation \in Nat /\ respGen <= generation
      /\ AwaitedFor(line, playback, handler)
  BY MediaAssumption DEF IInv, TypeOK, MediaTypeOK, Generations, Phases
<1>2. Requested \in Request /\ Requested.op = "broadcast"
      /\ Requested.awaited = (Mode = "fs_bridge")
  BY <1>1, Requests DEF Requested, Play
<1>3. ~callUp => channel = <<>>
  BY DEF AudioIsOwn
<1>4. ASSUME Connected' => Quiet(line', channel'), ~callUp' => channel' = <<>>
      PROVE  AudioIsOwn'
  BY <1>4 DEF AudioIsOwn
<1>5. ASSUME UNCHANGED <<line, channel, callUp, playback, respGen, generation, chunk>>,
             Connected' => Connected
      PROVE  AudioIsOwn'
  BY <1>5 DEF AudioIsOwn, IsCurrent, Requested, OnTime
<1>6. ASSUME UNCHANGED <<line, channel, callUp>>, Connected' => Connected,
             ~IsCurrent \/ playback \notin {"broadcast", "sleep"}
      PROVE  AudioIsOwn'
  BY <1>3, <1>4, <1>6, QuietUnlessPlaying
<1>7. /\ resp \in {"appointment", "rag", "idle"} => playback = "none"
      /\ resp = "drain" /\ ~SpeakerLive => playback = "none"
      /\ speaker = "get" => playback = "none"
  BY DEF IInv, Nested, SpeakerLive
<1>8. CASE RespStep
  <2>1. UNCHANGED <<line, channel, callUp, playback, respGen, generation, socketUp>>
    BY <1>8 DEF RespStep, HeardNothing, Transcribed, AppointmentReply, NotAnAppointment,
      Retrieved, Token, StreamEnd, ResumePut, Voiced, SpeakerLost, RespUnwind, SpeakerGathered
  <2>2. Connected' = Connected
    BY <2>1 DEF Connected
  <2>3. UNCHANGED chunk \/ playback = "none"
    BY <1>7, <1>8 DEF RespStep, HeardNothing, Transcribed, AppointmentReply, NotAnAppointment,
      Retrieved, Token, StreamEnd, ResumePut, Voiced, SpeakerLost, RespUnwind, SpeakerGathered,
      SpeakerLive
  <2> QED
    BY <1>5, <1>6, <2>1, <2>2, <2>3
<1>9. CASE VoiceStep
  <2>1. UNCHANGED <<line, channel, callUp, respGen, generation, socketUp>>
    BY <1>9 DEF VoiceStep, Synthesized, SynthesisFailed, PlaybackReturned, PlaybackRaised,
      VoiceUnwind, SpeakReturns, SpeakRaises
  <2>2. Connected' = Connected
    BY <2>1 DEF Connected
  <2>3. playback \notin {"broadcast", "sleep"}
    BY <1>9 DEF VoiceStep, Synthesized, SynthesisFailed, PlaybackReturned, PlaybackRaised,
      VoiceUnwind, PlaybackLive, IInv, Nested
  <2> QED
    BY <1>6, <2>1, <2>2, <2>3
<1>10. CASE SpeakerStep
  <2>1. UNCHANGED <<line, channel, callUp, playback, respGen, generation, socketUp>>
        /\ speaker = "get"
    BY <1>10 DEF SpeakerStep, SpeakerGet, SpeakerUnwind
  <2>2. Connected' = Connected
    BY <2>1 DEF Connected
  <2> QED
    BY <1>6, <1>7, <2>1, <2>2
<1>11. CASE PlaybackStep
  <2>0. UNCHANGED <<channel, callUp, respGen, generation, socketUp, chunk>>
    BY <1>11 DEF PlaybackStep, PlaybackStart, SleepOver, PlaybackTimeout, PlaybackUnwind
  <2>1. UNCHANGED <<channel, callUp, respGen, generation, chunk>> /\ Connected' = Connected
    BY <2>0 DEF Connected
  <2>2. CASE PlaybackStart
    <3>1. Connected => Quiet(line, channel)
      BY <2>2, QuietUnlessPlaying DEF PlaybackStart
    <3>2. CASE UNCHANGED line
      BY <1>3, <1>4, <2>1, <3>1, <3>2
    <3>3. CASE line' = Append(line, Play("exists", respGen, chunk, TRUE))
      <4>1. /\ Play("exists", respGen, chunk, TRUE) \in Request
            /\ Play("exists", respGen, chunk, TRUE).op = "exists"
        BY <1>1, Requests DEF Play
      <4>2. Connected => Quiet(line', channel)
        BY <1>1, <3>1, <3>3, <4>1, SendQuiet
      <4> QED
        BY <1>3, <1>4, <2>1, <4>2
    <3>4. CASE /\ IsCurrent /\ Mode = "mod_audio_stream"
               /\ line' = Append(line, Play("broadcast", respGen, chunk, FALSE))
               /\ playback' = "sleep"
      <4>1. Requested = Play("broadcast", respGen, chunk, FALSE)
        BY <3>4 DEF Requested
      <4>2. Connected => OnlyOne(line', channel, Requested)
        BY <1>1, <1>2, <3>1, <3>4, <4>1, SendQuiet
      <4>3. /\ IsCurrent' /\ Requested' = Requested
            /\ playback' = Requesting' /\ channel' = channel
        BY <2>1, <3>4 DEF IsCurrent, Requested, Requesting
      <4> QED
        BY <1>3, <2>1, <4>2, <4>3 DEF AudioIsOwn
    <3> QED
      BY <2>2, <3>2, <3>3, <3>4 DEF PlaybackStart, PlayCurrent
  <2>3. CASE SleepOver
    <3>1. UNCHANGED line /\ playback \in {"yield", "sleep"}
          /\ (playback = "sleep" => \A i \in DOMAIN channel : ~OnTime(channel[i]))
          /\ (playback = "sleep" /\ Mode = "mod_audio_stream" =>
                 \A i \in DOMAIN line : line[i].op # "broadcast")
      BY <2>3 DEF SleepOver
    <3>2. ASSUME playback = Requesting, OnlyOne(line, channel, Requested)
          PROVE  FALSE
      <4>1. Mode = "mod_audio_stream" /\ playback = "sleep"
        BY <3>1, <3>2, AgentAssumption DEF Requesting
      <4>2. PICK k \in 1 .. Len(line) : line[k] = Requested
        BY <3>2 DEF OnlyOne
      <4>3. k \in DOMAIN line
        BY <1>1, LenProperties
      <4> QED
        BY <1>2, <3>1, <4>1, <4>2, <4>3
    <3>3. ~(playback = "sleep" /\ Len(channel) = 1 /\ OnTime(channel[1]))
      <4>1. Len(channel) = 1 => 1 \in DOMAIN channel
        BY <1>1, LenProperties
      <4> QED
        BY <3>1, <4>1
    <3>4. Connected => Quiet(line, channel)
      BY <3>2, <3>3 DEF AudioIsOwn
    <3> QED
      BY <1>3, <1>4, <2>1, <3>1, <3>4
  <2>4. CASE PlaybackUnwind
    <3>1. ~IsCurrent
      BY <2>4 DEF PlaybackUnwind, Marked
    <3>2. Connected => Quiet(line, channel)
      BY <3>1, QuietUnlessPlaying
    <3>3. Connected => Quiet(line', channel)
      BY <1>1, <2>4, <3>2, AbandonQuiet DEF PlaybackUnwind
    <3> QED
      BY <1>3, <1>4, <2>1, <3>3
  <2> QED
    BY <1>11, <2>2, <2>3, <2>4 DEF PlaybackStep, PlaybackTimeout
<1>12. CASE ServerStep
  <2>0. line # <<>> /\ UNCHANGED <<callUp, respGen, generation, socketUp, chunk>>
    BY <1>12 DEF ServerStep, ServeExists, ServeBroadcast, ServeStop, SkipLost, Serving
  <2>1. /\ line # <<>> /\ UNCHANGED <<callUp, respGen, generation, chunk>>
        /\ Connected' = Connected
    BY <2>0 DEF Connected
  <2>2. IsCurrent' = IsCurrent /\ Requested' = Requested /\ Requesting' = Requesting
    BY <2>1 DEF IsCurrent, Requested, Requesting
  <2>3. /\ Head(line) \in Request /\ Head(line) = line[1] /\ Tail(line) \in Seq(Request)
        /\ Head(line).awaited /\ Head(line).op # "stop" => playback = Head(line).op
    BY <1>1, <2>1, Serve
  <2>4. /\ AllStopped(line) => AllStopped(Tail(line)) /\ Quiet(Tail(line), <<>>)
        /\ Head(line).op # "stop" /\ Quiet(line, channel) => Quiet(Tail(line), channel)
        /\ Head(line).op = "broadcast" /\ AllStopped(line) => \A c : Quiet(Tail(line), c)
    BY <1>1, <2>1, ServeQuiet
  <2>5. OnlyOne(line, channel, Requested) =>
           /\ Head(line).op = "stop" => OnlyOne(Tail(line), <<>>, Requested)
           /\ Head(line).op \in {"exists", "lost"} => OnlyOne(Tail(line), channel, Requested)
           /\ Head(line).op = "broadcast" =>
                 \/ /\ \A c : OnlyOne(Tail(line), c, Requested)
                    /\ \E k \in 2 .. Len(line) : line[k] = Requested
                 \/ Head(line) = Requested /\ channel = <<>> /\ AllStopped(Tail(line))
    BY <1>1, <1>2, <2>1, ServeAlone
  <2>6. ASSUME Head(line).op \in {"exists", "lost"},
               line' = Tail(line), UNCHANGED <<channel, playback>>
        PROVE  AudioIsOwn'
    <3>1. Quiet(line, channel) => Quiet(line', channel')
      BY <2>4, <2>6
    <3>2. OnlyOne(line, channel, Requested) => OnlyOne(line', channel', Requested')
      BY <2>2, <2>5, <2>6
    <3>3. AllStopped(line) => AllStopped(line')
      BY <2>4, <2>6
    <3>4. \A a : OnTime(a)' = OnTime(a)
      BY <2>1 DEF OnTime
    <3> QED
      BY <2>1, <2>2, <2>6, <3>1, <3>2, <3>3, <3>4 DEF AudioIsOwn, OnTime
  <2>7. CASE ServeExists
    <3>1. Head(line).op = "exists" /\ UNCHANGED channel
      BY <2>7 DEF ServeExists, Serving
    <3>2. CASE /\ Answered
               /\ line' = Append(Tail(line), Play("broadcast", respGen, chunk, TRUE))
               /\ playback' = "broadcast"
      <4>1. playback = "exists" /\ ~playbackCancelled
        BY <2>3, <3>1, <3>2 DEF Answered
      <4>2. IsCurrent /\ Mode = "fs_bridge"
        BY <4>1 DEF Marked, PlaybackLive
      <4>3. Connected => Quiet(line, channel)
        BY <4>1, QuietUnlessPlaying
      <4>4. Requested = Play("broadcast", respGen, chunk, TRUE)
        BY <4>2 DEF Requested
      <4>5. Connected => OnlyOne(line', channel, Requested)
        BY <1>2, <2>3, <2>4, <3>1, <3>2, <4>3, <4>4, SendQuiet
      <4> QED
        BY <1>3, <2>1, <2>2, <3>1, <3>2, <4>2, <4>5 DEF AudioIsOwn, Requesting
    <3>3. CASE Answered /\ line' = Tail(line) /\ playback' = "finished"
      <4>1. playback = "exists"
        BY <2>3, <3>1, <3>3 DEF Answered
      <4>2. Connected => Quiet(line', channel')
        BY <2>4, <3>1, <3>3, <4>1, QuietUnlessPlaying
      <4> QED
        BY <1>3, <1>4, <2>1, <3>1, <4>2
    <3>4. CASE line' = Tail(line) /\ UNCHANGED playback
      BY <2>6, <3>1, <3>4
    <3> QED
      BY <2>7, <3>2, <3>3, <3>4 DEF ServeExists
  <2>8. CASE ServeBroadcast
    <3>1. Head(line).op = "broadcast" /\ line' = Tail(line)
          /\ channel' \in AfterBroadcast(Head(line))
          /\ (Answered => playback' = IF IsCurrent THEN "sleep" ELSE "finished")
          /\ (~Answered => UNCHANGED playback)
      BY <2>8 DEF ServeBroadcast, Serving, Sleep
    <3>2. channel' = IF callUp THEN Broadcast(channel, Head(line)) ELSE channel
      <4>1. Executions = {1} /\ (TRUE \in ExistsAnswers <=> callUp)
        BY DEF Executions, ExistsAnswers
      <4>2. PICK n \in IF callUp THEN {1} ELSE {0} :
               channel' = CASE n = 0 -> channel
                            [] n = 1 -> Broadcast(channel, Head(line))
                            [] n = 2 -> Broadcast(Broadcast(channel, Head(line)), Head(line))
        BY <3>1, <4>1 DEF AfterBroadcast
      <4> QED
        BY <4>2
    <3>3. ~callUp' => channel' = <<>>
      BY <1>3, <2>1, <3>2
    <3>4. CASE Connected /\ AllStopped(line)
      BY <1>4, <2>4, <3>1, <3>3, <3>4
    <3>5. CASE /\ Connected /\ IsCurrent /\ playback = Requesting
               /\ OnlyOne(line, channel, Requested)
      <4>1. CASE /\ \A c : OnlyOne(Tail(line), c, Requested)
                 /\ \E k \in 2 .. Len(line) : line[k] = Requested
        <5>1. PICK k \in 2 .. Len(line) : line[k] = Requested
          BY <4>1
        <5>2. ~Head(line).awaited
          <6>1. SUFFICES ASSUME Head(line).awaited PROVE FALSE
            OBVIOUS
          <6>2. playback = "broadcast"
            BY <2>3, <3>1, <6>1
          <6>3. line[k].awaited
            BY <1>2, <3>5, <5>1, <6>2 DEF Requesting
          <6>4. 1 \in 1 .. Len(line) /\ k \in 1 .. Len(line) /\ k # 1
            BY <1>1, <5>1, LenProperties
          <6> QED
            BY <1>1, <1>2, <2>3, <3>1, <5>1, <6>1, <6>3, <6>4 DEF AwaitedFor
        <5>3. UNCHANGED playback
          BY <3>1, <5>2 DEF Answered
        <5>4. OnlyOne(line', channel', Requested')
          BY <2>2, <3>1, <4>1
        <5> QED
          BY <2>2, <3>3, <3>5, <5>3, <5>4 DEF AudioIsOwn
      <4>2. CASE Head(line) = Requested /\ channel = <<>> /\ AllStopped(Tail(line))
        <5>1. playback' = "sleep"
          <6>1. CASE Mode = "fs_bridge"
            <7>1. Head(line).awaited /\ playback = "broadcast"
              BY <1>2, <3>5, <4>2, <6>1 DEF Requesting
            <7>2. Answered
              BY <3>5, <7>1 DEF Answered, Marked, PlaybackLive
            <7> QED
              BY <3>1, <3>5, <7>2
          <6>2. CASE Mode # "fs_bridge"
            <7>1. ~Head(line).awaited /\ playback = "sleep"
              BY <1>2, <3>5, <4>2, <6>2 DEF Requesting
            <7> QED
              BY <3>1, <7>1 DEF Answered
          <6> QED
            BY <6>1, <6>2
        <5>2. CASE callUp
          <6> DEFINE a == [gen |-> respGen, chunk |-> chunk, late |-> FALSE]
          <6>1. channel' = Append(<<>>, a)
            <7>1. Head(line).gen = respGen /\ Head(line).chunk = chunk
              BY <4>2 DEF Requested, Play
            <7>2. (channel # <<>>) = FALSE
              BY <4>2
            <7> QED
              BY <3>2, <4>2, <5>2, <7>1, <7>2 DEF Broadcast
          <6>2. Len(channel') = 1 /\ channel'[1] = a
            BY <6>1
          <6>3. OnTime(channel[1])'
            BY <2>1, <6>2 DEF OnTime
          <6> QED
            BY <2>2, <3>1, <3>3, <3>5, <4>2, <5>1, <6>2, <6>3 DEF AudioIsOwn
        <5>3. CASE ~callUp
          <6>1. Quiet(line', channel')
            BY <3>1, <3>2, <4>2, <5>3 DEF Quiet
          <6> QED
            BY <1>4, <3>3, <6>1
        <5> QED
          BY <5>2, <5>3
      <4> QED
        BY <2>5, <3>1, <3>5, <4>1, <4>2
    <3>6. CASE ~Connected
      BY <1>4, <2>1, <3>3, <3>6
    <3> QED
      BY <3>4, <3>5, <3>6 DEF AudioIsOwn, Quiet
  <2>9. CASE ServeStop
    <3>1. Head(line).op = "stop" /\ line' = Tail(line) /\ UNCHANGED playback
          /\ channel' \in AfterStop
      BY <2>9 DEF ServeStop, Serving
    <3>2. channel' = <<>>
      BY <1>3, <3>1 DEF AfterStop, Executions
    <3>3. AllStopped(line) => Quiet(line', channel')
      BY <2>4, <3>1, <3>2
    <3>4. OnlyOne(line, channel, Requested) => OnlyOne(line', channel', Requested')
      BY <2>2, <2>5, <3>1, <3>2
    <3> QED
      BY <2>1, <2>2, <3>1, <3>2, <3>3, <3>4 DEF AudioIsOwn, Quiet
  <2>10. CASE SkipLost
    BY <2>6, <2>10 DEF SkipLost, Serving
  <2> QED
    BY <1>12, <2>7, <2>8, <2>9, <2>10 DEF ServerStep
<1>13. ASSUME Interrupt
       PROVE  AudioIsOwn'
  <2>1. UNCHANGED <<channel, callUp, socketUp>>
    BY <1>13 DEF Interrupt
  <2>2. Connected' => Quiet(line', channel)
    <3>1. \A b \in BOOLEAN : Stop(b) \in Request /\ Stop(b).op = "stop"
      BY <1>1, Requests DEF Stop
    <3>2. ASSUME Connected'
          PROVE  \E b \in BOOLEAN : line' = Append(line, Stop(b))
      <4>1. Mode = "fs_bridge" \/ socketUp
        BY <2>1, <3>2 DEF Connected
      <4>2. line' = Append(line, Stop(TRUE)) \/ line' = Append(line, Stop(FALSE))
        BY <1>13, <4>1 DEF Interrupt
      <4> QED
        BY <4>2
    <3>3. \A b \in BOOLEAN : Quiet(Append(line, Stop(b)), channel)
      BY <1>1, <3>1, SendQuiet
    <3> QED
      BY <3>2, <3>3
  <2> QED
    BY <1>3, <1>4, <2>1, <2>2
<1>14. CASE HandlerStep
  <2>1. ASSUME NEW welcome \in BOOLEAN, Connect(welcome)
        PROVE  AudioIsOwn'
    <3>1. UNCHANGED <<line, channel, callUp, socketUp>> /\ resp = "idle"
      BY <2>1 DEF Connect, IInv, Phases
    <3> QED
      BY <1>6, <1>7, <3>1 DEF Connected
  <2>2. CASE InterruptDone
    <3>1. UNCHANGED <<line, channel, callUp, socketUp>> /\ ~PlaybackLive
      BY <2>2 DEF InterruptDone, TasksGathered
    <3> QED
      BY <1>6, <3>1 DEF Connected, PlaybackLive
  <2>3. CASE Disconnect
    BY <1>13, <2>3 DEF Disconnect
  <2> QED
    BY <1>14, <2>1, <2>2, <2>3 DEF HandlerStep, StopTimeout
<1>15. CASE CallerStep
  <2>1. CASE SpeechStart
    <3>1. CASE RespLive
      BY <1>13, <2>1, <3>1 DEF SpeechStart
    <3>2. CASE ~RespLive
      BY <1>5, <2>1, <3>2 DEF SpeechStart, Connected
    <3> QED
      BY <3>1, <3>2
  <2>2. CASE SpeechEnd
    <3>1. UNCHANGED <<line, channel, callUp, socketUp>> /\ resp = "idle"
      BY <2>2 DEF SpeechEnd, IInv, Phases
    <3> QED
      BY <1>6, <1>7, <3>1 DEF Connected
  <2>3. CASE HangUp
    <3>1. /\ channel' = <<>> /\ ~callUp' /\ (Connected' => Connected)
          /\ UNCHANGED <<line, respGen, generation, playback, chunk>>
      BY <2>3 DEF HangUp, Connected
    <3>2. IsCurrent' = IsCurrent /\ Requested' = Requested /\ Requesting' = Requesting
      BY <3>1 DEF IsCurrent, Requested, Requesting
    <3>3. /\ AllStopped(line) => Quiet(line', channel')
          /\ OnlyOne(line, channel, Requested) => OnlyOne(line', channel', Requested')
      BY <3>1, <3>2 DEF Quiet, OnlyOne
    <3> QED
      BY <3>1, <3>2, <3>3 DEF AudioIsOwn, Quiet
  <2>4. CASE LoseSocket
    BY <1>5, <2>4 DEF LoseSocket, Connected
  <2> QED
    BY <1>15, <2>1, <2>2, <2>3, <2>4 DEF CallerStep
<1>16. CASE PlayedOut
  <2>1. /\ channel # <<>> /\ channel' = Tail(channel)
        /\ UNCHANGED <<line, callUp, socketUp, respGen, generation, playback, chunk>>
        /\ Connected' = Connected
    BY <1>16 DEF PlayedOut, ChannelFinish, Connected
  <2>2. IsCurrent' = IsCurrent /\ Requested' = Requested /\ Requesting' = Requesting
    BY <2>1 DEF IsCurrent, Requested, Requesting
  <2>3. /\ Quiet(line, channel) => Quiet(line', channel')
        /\ OnlyOne(line, channel, Requested) => OnlyOne(line', channel', Requested')
    BY <2>1, <2>2 DEF Quiet, OnlyOne
  <2>4. Len(channel) = 1 => channel' = <<>>
    <3>1. Tail(channel) \in Seq(Audio) /\ Len(Tail(channel)) = Len(channel) - 1
      BY <1>1, <2>1, HeadTailProperties
    <3> QED
      BY <2>1, <3>1, EmptySeq
  <2>5. AllStopped(line) /\ channel' = <<>> => Quiet(line', channel')
    BY <2>1 DEF Quiet
  <2> QED
    BY <1>3, <2>1, <2>2, <2>3, <2>4, <2>5 DEF AudioIsOwn
<1>17. CASE CallOver \/ UNCHANGED vars
  BY <1>5, <1>17 DEF CallOver, vars, Connected
<1> QED
  BY <1>8, <1>9, <1>10, <1>11, <1>12, <1>14, <1>15, <1>16, <1>17 DEF Next

LEMMA InitAudio == Init => Marked /\ AudioIsOwn
<1> SUFFICES ASSUME Init PROVE Marked /\ AudioIsOwn
  OBVIOUS
<1>1. Marked
  BY DEF Init, Marked, PlaybackLive, SpeakerLive, RespLive
<1>2. Quiet(line, channel) /\ callUp
  BY DEF Init, MediaInit, Quiet, AllStopped
<1> QED
  BY <1>1, <1>2 DEF AudioIsOwn

\* A cancelled task belongs to an answer that is over, and a playback of an answer
\* that is over is cancelled once it has asked for audio: with unreliable requests too.
THEOREM CancelledIsOver == Spec => []Marked
<1> QED
  BY InitAudio, NextMarked, Inductive, PTL DEF Spec

\* What can be heard, now or later, is the current answer's chunk, once.
THEOREM OwnAudio ==
    ASSUME Reliable
    PROVE  Spec => []AudioIsOwn
<1>1. IInv /\ Marked /\ AudioIsOwn /\ [Next]_vars => AudioIsOwn'
  BY NextAudio
<1> QED
  BY <1>1, InitAudio, Inductive, CancelledIsOver, PTL DEF Spec

\* While the caller's utterance is recorded the agent is silent, for good: when every
\* request is served once, what plays or is still asked for has a stop behind it.
THEOREM CallerIsHeardAlone ==
    ASSUME Reliable
    PROVE  Spec => []CallerHasFloor
<1>1. IInv /\ AudioIsOwn => CallerHasFloor
  <2> SUFFICES ASSUME IInv, AudioIsOwn, handler = "loop", speech PROVE CallerHasFloor
    BY DEF CallerHasFloor
  <2>1. resp = "idle" /\ ~SpeakerLive /\ playback = "none"
    BY DEF IInv, Nested, Phases, SpeakerLive
  <2>2. Connected => Quiet(line, channel)
    BY <2>1, QuietUnlessPlaying
  <2>3. DOMAIN line = 1 .. Len(line)
    BY LenProperties DEF IInv, TypeOK, MediaTypeOK
  <2> QED
    BY <2>1, <2>2, <2>3
    DEF CallerHasFloor, RespLive, PlaybackLive, Quiet, AllStopped, Stopped, StoppedAfter
<1> QED
  BY <1>1, Inductive, OwnAudio, PTL

\* With requests that time out, get lost or run twice the tasks at least are silent:
\* no task of an earlier answer is alive while the caller's utterance is recorded.
THEOREM TasksAreSilent ==
    Spec => [](handler = "loop" /\ speech => ~RespLive /\ ~SpeakerLive /\ ~PlaybackLive)
<1>1. IInv => (handler = "loop" /\ speech => ~RespLive /\ ~SpeakerLive /\ ~PlaybackLive)
  BY DEF IInv, Nested, Phases, RespLive, SpeakerLive, PlaybackLive
<1> QED
  BY <1>1, Inductive, PTL

\* Audio of an answer that was interrupted is never left to play, however the
\* cancellations of the tasks interleave with the requests they make.
THEOREM StaleAudioIsStopped ==
    ASSUME Reliable
    PROVE  Spec => []NoStaleAudio
<1>1. IInv /\ AudioIsOwn => NoStaleAudio
  <2> SUFFICES ASSUME IInv, AudioIsOwn, Connected PROVE NoStaleAudio
    BY DEF NoStaleAudio
  <2>1. /\ DOMAIN line = 1 .. Len(line) /\ DOMAIN channel = 1 .. Len(channel)
        /\ channel = <<>> => 1 .. Len(channel) = {}
    BY LenProperties, EmptySeq DEF IInv, TypeOK, MediaTypeOK
  <2>2. CASE Quiet(line, channel)
    BY <2>1, <2>2 DEF NoStaleAudio, Quiet, AllStopped, Stopped, StoppedAfter
  <2>3. CASE IsCurrent /\ OnlyOne(line, channel, Requested)
    <3>1. Requested.gen = generation
      BY <2>3 DEF Requested, Play, IsCurrent
    <3> QED
      BY <2>1, <2>3, <3>1 DEF NoStaleAudio, OnlyOne, Stopped, StoppedAfter
  <2>4. CASE IsCurrent /\ AllStopped(line) /\ Len(channel) = 1 /\ OnTime(channel[1])
    <3>1. \A i \in DOMAIN channel : channel[i].gen = generation
      BY <2>1, <2>4 DEF OnTime, IsCurrent
    <3> QED
      BY <2>1, <2>4, <3>1 DEF NoStaleAudio, AllStopped, Stopped, StoppedAfter
  <2> QED
    BY <2>2, <2>3, <2>4 DEF AudioIsOwn
<1> QED
  BY <1>1, Inductive, OwnAudio, PTL

=============================================================================
