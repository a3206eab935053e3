---- MODULE ReplyStream ----
(* A reply of the language model on its way to the caller's ear: rag-service  *)
(* passes the tokens on (src/rag-service/main.py, generate_stream), the agent *)
(* cuts them into chunks at the ends of sentences and queues them for its     *)
(* speaker (src/agent/main.py, sentence_chunks, process_audio), which has     *)
(* each synthesized and played. A turn that nobody interrupts: interruptions  *)
(* are AgentCall's, where chunks are numbers. Here a text is the sequence of  *)
(* the positions its characters have in the reply.                            *)
EXTENDS Naturals, Sequences, FiniteSets, SequencesExt, FiniteSetsExt

CONSTANTS
    MaxLength,      \* bound: characters of a reply
    ChunkLimit,     \* TTS_CHUNK_CHARS
    MinSplit,       \* the 40 characters before which sentence_chunks does not cut
    QueueSize,      \* of speech_queue
    MaxWire         \* bound: lines of the stream the agent has not read

ASSUME StreamAssumption ==
    /\ {MaxLength, ChunkLimit, MinSplit} \subseteq Nat /\ MinSplit < ChunkLimit
    /\ {QueueSize, MaxWire} \subseteq Nat \ {0}

VARIABLES
    reply,      \* what the model says: a sequence of kinds of characters
    produced,   \* how much of it rag-service has passed on
    cuts,       \* where its tokens ended (history)
    service,    \* the handler of /generate_stream: streaming, over
    emitted,    \* its flag
    wire,       \* what it has written and the agent has not read
    agent,      \* the response task: reading, flushing, joining, fallback, ended
    received,   \* reply_parts, joined
    rest,       \* its chunks to put into the queue, and what is pending for the next
    queue,      \* speech_queue
    speaker,    \* waiting, speaking, ended
    said        \* the chunks tts_synthesize was given

serviceVars == <<reply, produced, cuts, service, emitted>>
vars == <<serviceVars, wire, agent, received, rest, queue, speaker, said>>

Kinds == {"letter", "stop", "space", "newline"}

\* "Sorry, I do not have that information.": one sentence, at a position of its own.
Sorry == <<0>>
None == <<>>

Kind(p) == IF p = 0 THEN "stop" ELSE reply[p]
Solid(p) == Kind(p) \in {"letter", "stop"}

\* A set of positions in their order.
InOrder(S) ==
    CHOOSE s \in [1 .. Cardinality(S) -> S] : \A j, k \in DOMAIN s : j < k => s[j] < s[k]

\* What stands in a text from i to j, without the spaces around it.
Strip(text, i, j) ==
    LET solid == {k \in i .. j : Solid(text[k])}
    IN IF solid = {} THEN <<>> ELSE SubSeq(text, Min(solid), Max(solid))

----------------------------------------------------------------------------
(* sentence_chunks                                                            *)

\* A sentence ends with a stop before a space, or with one that ends the buffer.
SentenceEnds(buffer) ==
    {i \in DOMAIN buffer :
        /\ Kind(buffer[i]) = "stop"
        /\ i < Len(buffer) => Kind(buffer[i + 1]) = "space"}

\* Slip: the next sentence begins with the stop of the last one.
SentencesAgain(buffer) ==
    LET ends == InOrder(SentenceEnds(buffer))
    IN [k \in DOMAIN ends |-> Strip(buffer, IF k = 1 THEN 1 ELSE ends[k - 1], ends[k])]

Sentences(buffer) ==
    LET ends == InOrder(SentenceEnds(buffer))
    IN [k \in DOMAIN ends |-> Strip(buffer, IF k = 1 THEN 1 ELSE ends[k - 1] + 1, ends[k])]

\* Slip: cut at the limit, whatever stands there.
CutAtLimit(buffer, first) == first + ChunkLimit - 1

\* Where a remainder from first on that is too long is cut: before the last space
\* that leaves enough, or within the word.
Cut(buffer, first) ==
    LET spaces == {i \in first + MinSplit .. first + ChunkLimit - 1 : Kind(buffer[i]) = "space"}
    IN IF spaces = {} THEN first + ChunkLimit - 1 ELSE Max(spaces) - 1

\* The chunks of a buffer, and what stays pending.
SentenceChunks(buffer, force) ==
    LET n == Len(buffer)
        solid == {i \in DOMAIN buffer : Solid(buffer[i])
                                       /\ \A e \in SentenceEnds(buffer) : e < i}
        first == Min(solid)
    IN CASE solid = {} ->
              [chunks |-> Sentences(buffer), pending |-> <<>>]
         [] solid # {} /\ force ->
              [chunks |-> Append(Sentences(buffer), Strip(buffer, first, n)), pending |-> <<>>]
         [] solid # {} /\ ~ force /\ Max(solid) - first + 1 >= ChunkLimit ->
              [chunks |-> Append(Sentences(buffer), Strip(buffer, first, Cut(buffer, first))),
               pending |-> Strip(buffer, Cut(buffer, first) + 1, n)]
         [] OTHER ->
              [chunks |-> Sentences(buffer), pending |-> Strip(buffer, first, n)]

----------------------------------------------------------------------------
Init ==
    /\ reply \in UNION {[1 .. n -> Kinds] : n \in 0 .. MaxLength}
    /\ produced = 0 /\ cuts = {}
    /\ service = "streaming" /\ emitted = FALSE
    /\ wire = <<>>
    /\ agent = "reading"
    /\ received = <<>> /\ rest = [chunks |-> <<>>, pending |-> <<>>]
    /\ queue = <<>>
    /\ speaker = "waiting"
    /\ said = <<>>

(* rag-service                                                                *)

Token(text) == [kind |-> "token", text |-> text]
Mark(kind) == [kind |-> kind, text |-> <<>>]

\* A token: characters up to n of the reply, control characters removed.
Emit(n) ==
    LET text == InOrder({p \in produced + 1 .. n : Kind(p) # "newline"}) IN
    /\ service = "streaming" /\ Len(wire) < MaxWire
    /\ produced' = n /\ cuts' = cuts \cup {n}
    /\ IF text = <<>> THEN UNCHANGED <<wire, emitted>>
       ELSE wire' = Append(wire, Token(text)) /\ emitted' = TRUE
    /\ UNCHANGED <<reply, service, agent, received, rest, queue, speaker, said>>

\* The model's stream ends, with its done or without. If there was no token the
\* fallback is written, after the done if there was one.
Finish(announced) ==
    /\ service = "streaming" /\ produced = Len(reply)
    /\ service' = "over"
    /\ wire' = wire \o (IF announced THEN <<Mark("done")>> ELSE <<>>)
                    \o (IF emitted THEN <<>> ELSE <<Token(Sorry), Mark("done")>>)
                    \o <<Mark("closed")>>
    /\ UNCHANGED <<reply, produced, cuts, emitted, agent, received, rest, queue, speaker, said>>

\* The model cannot be reached, answers with an error or breaks off.
ServiceFails ==
    /\ service = "streaming"
    /\ service' = "over"
    /\ wire' = Append(wire, Mark("error"))
    /\ UNCHANGED <<reply, produced, cuts, emitted, agent, received, rest, queue, speaker, said>>

----------------------------------------------------------------------------
(* The response task                                                          *)

\* llm_generate_stream yields a token.
ReadToken ==
    /\ agent = "reading" /\ rest.chunks = <<>>
    /\ wire # <<>> /\ Head(wire).kind = "token"
    /\ wire' = Tail(wire)
    /\ received' = received \o Head(wire).text
    /\ rest' = SentenceChunks(rest.pending \o Head(wire).text, FALSE)
    /\ UNCHANGED <<serviceVars, agent, queue, speaker, said>>

\* It ends: with done, an error, the end of the body, or one of its timeouts. What
\* is pending becomes the last chunk.
StreamEnds ==
    /\ agent = "reading" /\ rest.chunks = <<>>
    /\ agent' = "flushing" /\ wire' = <<>>
    /\ rest' = SentenceChunks(rest.pending, TRUE)
    /\ UNCHANGED <<serviceVars, received, queue, speaker, said>>

\* Slip: the queue is never full.
PutChunkAlways ==
    /\ rest.chunks # <<>>
    /\ queue' = Append(queue, Head(rest.chunks))
    /\ rest' = [rest EXCEPT !.chunks = Tail(@)]
    /\ UNCHANGED <<serviceVars, wire, agent, received, speaker, said>>

\* The next chunk is put into the queue, which may be full.
PutChunk ==
    /\ rest.chunks # <<>> /\ Len(queue) < QueueSize
    /\ queue' = Append(queue, Head(rest.chunks))
    /\ rest' = [rest EXCEPT !.chunks = Tail(@)]
    /\ UNCHANGED <<serviceVars, wire, agent, received, speaker, said>>

\* After the last one, the None that ends the speaker.
PutNone ==
    /\ agent = "flushing" /\ rest.chunks = <<>> /\ Len(queue) < QueueSize
    /\ queue' = Append(queue, None)
    /\ agent' = "joining"
    /\ UNCHANGED <<serviceVars, wire, received, rest, speaker, said>>

\* Slip: rag-service says sorry if there is nothing else.
JoinTrusting ==
    /\ agent = "joining" /\ speaker = "ended"
    /\ agent' = "ended"
    /\ UNCHANGED <<serviceVars, wire, received, rest, queue, speaker, said>>

\* The speaker has ended; if the reply is blank the agent says sorry itself.
Join ==
    /\ agent = "joining" /\ speaker = "ended"
    /\ IF Strip(received, 1, Len(received)) # <<>>
       THEN agent' = "ended" /\ UNCHANGED <<received, said>>
       ELSE agent' = "fallback" /\ received' = Sorry /\ said' = Append(said, Sorry)
    /\ UNCHANGED <<serviceVars, wire, rest, queue, speaker>>

FallbackSpoken ==
    /\ agent = "fallback"
    /\ agent' = "ended"
    /\ UNCHANGED <<serviceVars, wire, received, rest, queue, speaker, said>>

(* speak_queue_worker                                                         *)

TakeChunk ==
    /\ speaker = "waiting" /\ queue # <<>>
    /\ queue' = Tail(queue)
    /\ IF Head(queue) = None
       THEN speaker' = "ended" /\ UNCHANGED said
       ELSE speaker' = "speaking" /\ said' = Append(said, Head(queue))
    /\ UNCHANGED <<serviceVars, wire, agent, received, rest>>

\* It was synthesized and played, or there was no audio: the next one is taken.
ChunkSpoken ==
    /\ speaker = "speaking"
    /\ speaker' = "waiting"
    /\ UNCHANGED <<serviceVars, wire, agent, received, rest, queue, said>>

Done == agent = "ended" /\ UNCHANGED vars

ServiceStep ==
    \/ \E n \in produced + 1 .. Len(reply) : Emit(n)
    \/ \E announced \in BOOLEAN : Finish(announced)
    \/ ServiceFails

AgentStep == ReadToken \/ StreamEnds \/ PutChunk \/ PutNone \/ Join \/ FallbackSpoken

SpeakerStep == TakeChunk \/ ChunkSpoken

Next == ServiceStep \/ AgentStep \/ SpeakerStep \/ Done

\* The tasks of the agent run, the stream and every synthesis have timeouts and
\* audio plays to its end. rag-service and the model promise nothing.
Spec == Init /\ [][Next]_vars /\ WF_vars(AgentStep) /\ WF_vars(SpeakerStep)

----------------------------------------------------------------------------
(* Properties                                                                 *)

Text == Seq(0 .. MaxLength)

TypeOK ==
    /\ reply \in Seq(Kinds) /\ Len(reply) <= MaxLength
    /\ produced \in 0 .. Len(reply) /\ cuts \subseteq 1 .. produced
    /\ service \in {"streaming", "over"} /\ emitted \in BOOLEAN
    /\ wire \in Seq([kind : {"token", "done", "error", "closed"}, text : Text])
    /\ agent \in {"reading", "flushing", "joining", "fallback", "ended"}
    /\ received \in Text
    /\ rest \in [chunks : Seq(Text), pending : Text]
    /\ queue \in Seq(Text) /\ Len(queue) <= QueueSize
    /\ speaker \in {"waiting", "speaking", "ended"}
    /\ said \in Seq(Text)
    /\ \A i \in DOMAIN rest.chunks : Solid(Head(rest.chunks[i])) /\ Solid(Last(rest.chunks[i]))

\* The reply's pieces, in the order in which they are said or will be; the None that
\* ends the speaker is none of them.
Queued == IF queue # <<>> /\ Last(queue) = None THEN Front(queue) ELSE queue
Pieces == said \o Queued \o rest.chunks \o <<rest.pending>>

Ascending(text) == \A i, j \in DOMAIN text : i < j => text[i] < text[j]

\* What is said is what was received, which is what the history will hold: no
\* character but spaces is lost, repeated or overtaken on the way through chunks,
\* queue and speaker, and nothing is left when the response ends.
SaidAsReceived ==
    /\ Ascending(received) /\ \A k \in DOMAIN Pieces : Ascending(Pieces[k])
    /\ \A j, k \in DOMAIN Pieces : j < k =>
          \A p \in Range(Pieces[j]), q \in Range(Pieces[k]) : p < q
    /\ \A k \in DOMAIN Pieces : Range(Pieces[k]) \subseteq Range(received)
    /\ \A p \in Range(received) : Solid(p) => \E k \in DOMAIN Pieces : p \in Range(Pieces[k])
    /\ agent = "ended" => queue = <<>> /\ rest.chunks = <<>> /\ rest.pending = <<>>

\* The pauses are where the reply has them. Two characters that are apart in the
\* reply are said as one word only if the space between them ended a token, which
\* sentence_chunks strips, or was a newline, which rag-service removes. Two that
\* are not apart are said in different chunks only after a stop that ended a token
\* (3.|50) or in a word that does not end before the limit.
PausesAreKept ==
    /\ \A k \in DOMAIN Pieces : \A i \in 1 .. Len(Pieces[k]) - 1 :
          LET p == Pieces[k][i]
              q == Pieces[k][i + 1]
          IN Solid(p) /\ Solid(q) /\ q # p + 1 =>
                \/ q - 1 \in cuts
                \/ \E n \in p + 1 .. q - 1 : Kind(n) = "newline"
    /\ \A k \in 1 .. Len(Pieces) - 1 :
          LET piece == Pieces[k]
              next == Pieces[k + 1]
          IN piece # <<>> /\ next # <<>> /\ Head(next) = Last(piece) + 1 =>
                \/ Kind(Last(piece)) = "stop" /\ Last(piece) \in cuts
                \/ /\ Len(piece) = ChunkLimit
                   /\ \A i \in MinSplit + 1 .. ChunkLimit : Kind(piece[i]) # "space"

\* The caller is never left without an answer: the response ends, after it said
\* something, if only that it is sorry; what is said may have come to nothing if
\* its synthesis failed.
AnsweredInTheEnd == <>(agent = "ended" /\ said # <<>>)
====
