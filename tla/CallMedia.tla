------------------------------ MODULE CallMedia ------------------------------
(***************************************************************************)
(* The path an answer takes from the agent to the caller's ear: the        *)
(* requests the agent has sent for one call and nobody has served yet, the *)
(* party that serves them one at a time, and the FreeSWITCH channel.       *)
(*                                                                         *)
(* In fs_bridge mode the server is fs-bridge, an HTTPServer without        *)
(* threads: connections are accepted, read and answered in order.  In      *)
(* mod_audio_stream mode the requests are messages of the call's own       *)
(* websocket, in order too, and nobody answers them.                       *)
(*                                                                         *)
(* One call only: requests of other calls delay this line, which the       *)
(* timeouts of AgentCall cover, and touch no state of it.                  *)
(***************************************************************************)
EXTENDS Naturals, Sequences

CONSTANTS
    Reliable,         \* TRUE: no request times out and every ESL command runs once
    MaxGeneration,    \* bound: the caller stops speaking at this generation
    MaxChunks         \* bound: speech chunks the LLM's reply to one turn is cut into

ASSUME MediaAssumption ==
    /\ Reliable \in BOOLEAN
    /\ MaxGeneration \in Nat \ {0}
    /\ MaxChunks \in Nat \ {0}

VARIABLES
    line,      \* requests sent for the call and not yet served
    channel,   \* audio FreeSWITCH plays to the caller: the head, then what is queued
    callUp     \* the FreeSWITCH channel exists

mediaVars == <<line, channel, callUp>>

\* CallState.generation: every interruption and every turn takes a new one, and
\* the interruption on hangup may come after the bound.
Generations == 0 .. MaxGeneration + 1

Chunks == 0 .. MaxChunks

\* One request of the agent.  "awaited" holds while the agent's HTTP client is
\* still there to take the answer; a "lost" request never reached the server.
Request == [op : {"exists", "broadcast", "stop", "lost"},
            gen : Generations, chunk : Chunks, awaited : BOOLEAN]

\* A piece of audio FreeSWITCH was told to play.  "late" marks one that did not
\* start when it was requested: it waits for the audio before it to end.
Audio == [gen : Generations, chunk : Chunks, late : BOOLEAN]

MediaTypeOK ==
    /\ line \in Seq(Request)
    /\ channel \in Seq(Audio)
    /\ callUp \in BOOLEAN

MediaInit == line = <<>> /\ channel = <<>> /\ callUp = TRUE

-----------------------------------------------------------------------------
(* The agent's side of the line. *)

Play(op, g, c, awaited) == [op |-> op, gen |-> g, chunk |-> c, awaited |-> awaited]

Stop(awaited) == [op |-> "stop", gen |-> 0, chunk |-> 0, awaited |-> awaited]

\* The client of the awaited request goes away (timeout, or its task is
\* cancelled).  The server still reads and runs the request, unless it had not
\* left the agent: the connection was not yet accepted.
Abandon(l, stop, sent) ==
    [i \in DOMAIN l |->
        IF l[i].awaited /\ (l[i].op = "stop") = stop
        THEN [l[i] EXCEPT !.awaited = FALSE, !.op = IF sent THEN @ ELSE "lost"]
        ELSE l[i]]

-----------------------------------------------------------------------------
(* The server's side: FIFO, one request at a time. *)

Serving(op) == line # <<>> /\ Head(line).op = op

\* ESLConnection.api runs a command once, or fails it twice and returns "".
\* When the answer to the first attempt is lost the command is sent again, so
\* it can run twice; it can also fail after it has run.
Executions == IF Reliable THEN {1} ELSE 0 .. 2

\* uuid_exists: "true" for a live channel, "" when both attempts fail.
ExistsAnswers == IF Reliable THEN {callUp} ELSE {callUp, FALSE}

\* uuid_broadcast queues the file behind what already plays.
Broadcast(ch, r) ==
    Append(ch, [gen |-> r.gen, chunk |-> r.chunk, late |-> ch # <<>>])

\* POST /uuid/<uuid>/broadcast: nothing is played unless the call still exists.
AfterBroadcast(r) ==
    LET once  == Broadcast(channel, r)
        twice == Broadcast(once, r)
    IN  {CASE n = 0 -> channel [] n = 1 -> once [] n = 2 -> twice :
            n \in IF TRUE \in ExistsAnswers THEN Executions ELSE {0}}

\* POST /uuid/<uuid>/stop: uuid_break ... all drops what plays and what waits.
AfterStop ==
    IF callUp THEN {IF n = 0 THEN channel ELSE <<>> : n \in Executions} ELSE {channel}

-----------------------------------------------------------------------------
(* FreeSWITCH. *)

\* The audio at the head has been played out.
ChannelFinish ==
    /\ channel # <<>>
    /\ channel' = Tail(channel)

=============================================================================
