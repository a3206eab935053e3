---- MODULE EslBridge ----
(* The two ESL connections of fs-bridge (src/fs-bridge/main.py) and the       *)
(* FreeSWITCH at their other ends: the connection of the CHANNEL_ANSWER       *)
(* listener, which starts the audio stream of an answered call, and the one   *)
(* all commands go over, shared by the listener and the HTTP server. Both     *)
(* connections may break at any moment, with or without being noticed, and a  *)
(* reader throws away what arrived together with the packet it read.          *)
EXTENDS Naturals, Sequences

CONSTANTS
    Call,
    Ours,           \* the calls that carry call_did
    Nobody,
    MaxRequests,    \* bound: HTTP requests
    MaxBreaks       \* bound: breaks of connections, failed ones and late answers

ASSUME EslAssumption ==
    /\ Ours \subseteq Call /\ Nobody \notin Call
    /\ MaxRequests \in Nat /\ MaxBreaks \in Nat
    /\ \A c \in Call \cup {Nobody} : c \notin 1 .. MaxRequests

VARIABLES
    call,       \* [Call -> new, answered, over]
    streamed,   \* calls whose audio stream was started
    lost,       \* calls whose event or command came to nothing (history)
    listener,   \* what the thread esl-events does
    handling,   \* the call whose event it handles, or Nobody
    link,       \* its connection: none, up, subscribed, closed, or silently dead
    events,     \* what has arrived on it
    status,     \* FreeSWITCH has a keepalive to answer
    api,        \* the call of _esl.api that holds the lock
    sock,       \* its connection: none, open, broken
    commands,   \* what FreeSWITCH has received on it and not run
    answers,    \* what has arrived on it
    stray,      \* calls whose command was received on one that is closed, and not run
    requests, breaks

callVars == <<call, streamed, lost>>
listenerVars == <<listener, handling, link, events, status>>
apiVars == <<api, sock, commands, answers, stray>>
vars == <<callVars, listenerVars, apiVars, requests, breaks>>

\* A command is known by who gave it: the call it streams, or the number of the
\* HTTP request it serves.
Command == Call \cup 1 .. MaxRequests

Packet == [kind : {"reply", "answer"}] \cup [kind : {"event"}, call : Call]

Idle == [at |-> "idle", attempt |-> 0, command |-> Nobody]

TypeOK ==
    /\ call \in [Call -> {"new", "answered", "over"}]
    /\ streamed \subseteq Ours /\ lost \subseteq Ours
    /\ listener \in {"connecting", "subscribing", "listening", "keepalive", "handling"}
    /\ handling \in Ours \cup {Nobody} /\ (handling # Nobody <=> listener = "handling")
    /\ link \in {"none", "up", "subscribed", "closed", "dead"}
    /\ events \in Seq(Packet)
    /\ status \in BOOLEAN
    /\ api \in [at : {"idle", "connect", "send", "receive"}, attempt : 0 .. 2,
                command : Command \cup {Nobody}]
    /\ sock \in {"none", "open", "broken"}
    /\ commands \in Seq(Command) /\ answers \in Seq(Command) /\ stray \subseteq Ours
    /\ requests \in 0 .. MaxRequests
    /\ breaks \in 0 .. MaxBreaks

Init ==
    /\ call = [c \in Call |-> "new"]
    /\ streamed = {} /\ lost = {}
    /\ listener = "connecting" /\ handling = Nobody
    /\ link = "none" /\ events = <<>> /\ status = FALSE
    /\ api = Idle
    /\ sock = "none" /\ commands = <<>> /\ answers = <<>> /\ stray = {}
    /\ requests = 0 /\ breaks = 0

CallsIn(packets) ==
    {packets[i].call : i \in {j \in DOMAIN packets : packets[j].kind = "event"}} \cap Ours

\* Something fails, as often as the bound allows.
Fails == breaks < MaxBreaks /\ breaks' = breaks + 1

----------------------------------------------------------------------------
(* FreeSWITCH                                                                 *)

\* A call is answered: who is subscribed is told.
Answer(c) ==
    /\ call[c] = "new"
    /\ call' = [call EXCEPT ![c] = "answered"]
    /\ IF link = "subscribed"
       THEN events' = Append(events, [kind |-> "event", call |-> c]) /\ UNCHANGED lost
       ELSE lost' = lost \cup ({c} \cap Ours) /\ UNCHANGED events
    /\ UNCHANGED <<streamed, listener, handling, link, status, apiVars, requests, breaks>>

HangUp(c) ==
    /\ call[c] = "answered"
    /\ call' = [call EXCEPT ![c] = "over"]
    /\ UNCHANGED <<streamed, lost, listenerVars, apiVars, requests, breaks>>

\* "event plain CHANNEL_ANSWER" and "api status" are answered.
Subscribe ==
    /\ link = "up"
    /\ link' = "subscribed"
    /\ events' = Append(events, [kind |-> "reply"])
    /\ UNCHANGED <<callVars, listener, handling, status, apiVars, requests, breaks>>

AnswerStatus ==
    /\ status /\ link = "subscribed"
    /\ status' = FALSE
    /\ events' = Append(events, [kind |-> "answer"])
    /\ UNCHANGED <<callVars, listener, handling, link, apiVars, requests, breaks>>

StartsStream(c) == streamed' = IF call[c] = "answered" THEN streamed \cup {c} ELSE streamed

\* A command is run and answered: the bridge does not look whether it is told +OK or
\* -ERR, it logs it. What was received on a connection that is closed may be run all
\* the same.
Run ==
    /\ commands # <<>>
    /\ LET c == Head(commands) IN IF c \in Call THEN StartsStream(c) ELSE UNCHANGED streamed
    /\ commands' = Tail(commands)
    /\ answers' = IF sock = "open" THEN Append(answers, Head(commands)) ELSE answers
    /\ UNCHANGED <<call, lost, listenerVars, api, sock, stray, requests, breaks>>

RunStray ==
    /\ \E c \in stray : StartsStream(c) /\ stray' = stray \ {c}
    /\ UNCHANGED <<call, lost, listenerVars, api, sock, commands, answers, requests, breaks>>

\* The listener's connection is closed, with the loss of what was not yet read or
\* without it, or it dies silently.
LinkBreaks ==
    /\ link \in {"up", "subscribed"}
    /\ Fails
    /\ link' \in {"closed", "dead"}
    /\ status' = FALSE
    /\ \/ UNCHANGED <<events, lost>>
       \/ events' = <<>> /\ lost' = lost \cup CallsIn(events)
    /\ UNCHANGED <<call, streamed, listener, handling, apiVars, requests>>

\* The command connection breaks, before or after what was received on it is run.
SockBreaks ==
    /\ sock = "open"
    /\ Fails
    /\ sock' = "broken"
    /\ commands' \in {commands, <<>>} /\ answers' \in {answers, <<>>}
    /\ UNCHANGED <<callVars, listenerVars, api, stray, requests>>

----------------------------------------------------------------------------
(* The listener                                                               *)

\* _connect_and_listen connects, authenticates and asks for the events ...
ListenerConnects ==
    /\ listener = "connecting"
    /\ listener' = "subscribing"
    /\ link' = "up"
    /\ UNCHANGED <<callVars, handling, events, status, apiVars, requests, breaks>>

\* ... or fails there, or where it reads, and _run begins again after 5 s.
ListenerRaises ==
    /\ \/ listener = "connecting" /\ Fails
       \/ /\ listener \in {"subscribing", "listening", "keepalive"}
          /\ link = "closed" /\ events = <<>>
          /\ UNCHANGED breaks
       \/ /\ listener \in {"subscribing", "keepalive"}     \* after 10 s, after 60 s
          /\ events = <<>>
          /\ IF link = "dead" THEN UNCHANGED breaks ELSE Fails
    /\ listener' = "connecting"
    /\ link' = "none" /\ events' = <<>> /\ status' = FALSE
    /\ UNCHANGED <<callVars, handling, apiVars, requests>>

\* A packet is read; of what arrived with it, n packets are gone. While it waits
\* for the answer to its keepalive the listener takes any packet for it.
ReadPacket(n) ==
    LET rest == Tail(events)
        heard == IF listener = "listening" THEN CallsIn(<<Head(events)>>) ELSE {}
    IN
    /\ listener \in {"subscribing", "listening", "keepalive"}
    /\ events # <<>>
    /\ n <= Len(rest)
    /\ events' = SubSeq(rest, n + 1, Len(rest))
    /\ lost' = lost \cup (CallsIn(SubSeq(events, 1, n + 1)) \ heard)
    /\ IF heard = {} THEN listener' = "listening" /\ UNCHANGED handling
                     ELSE listener' = "handling" /\ handling' \in heard
    /\ UNCHANGED <<call, streamed, link, status, apiVars, requests, breaks>>

\* Slip: a silent minute is waited out, and another.
NoKeepalive == listener = "listening" /\ UNCHANGED vars

\* Nothing has come for 60 s: a keepalive is sent, which raises on a closed link.
Keepalive ==
    /\ listener = "listening" /\ events = <<>> /\ link # "closed"
    /\ listener' = "keepalive"
    /\ status' = (link = "subscribed")
    /\ UNCHANGED <<callVars, handling, link, events, apiVars, requests, breaks>>

----------------------------------------------------------------------------
(* ESLConnection.api                                                          *)

\* Taking the lock; the connection of the last command is kept.
Take(c) ==
    /\ api.at = "idle"
    /\ api' = [at |-> IF sock = "none" THEN "connect" ELSE "send", attempt |-> 1, command |-> c]

\* The HTTP server, which handles one request at a time, gives a command.
Request ==
    /\ requests < MaxRequests
    /\ requests' = requests + 1
    /\ Take(requests + 1)
    /\ UNCHANGED <<callVars, listenerVars, sock, commands, answers, stray, breaks>>

\* Slip: the listener does not wait for the lock.
StartStreamUnlessBusy ==
    /\ handling # Nobody
    /\ api.command # handling
    /\ IF api.at = "idle" THEN Take(handling) /\ UNCHANGED <<listener, handling>>
       ELSE listener' = "listening" /\ handling' = Nobody /\ UNCHANGED api
    /\ UNCHANGED <<callVars, link, events, status, sock, commands, answers, stray, requests, breaks>>

\* _handle_event gives the command that starts the stream.
StartStream ==
    /\ handling # Nobody
    /\ Take(handling)
    /\ UNCHANGED <<callVars, listenerVars, sock, commands, answers, stray, requests, breaks>>

\* api returns and the lock is released; the listener, if it waited, reads on.
Return ==
    /\ api' = Idle
    /\ IF api.command = handling THEN handling' = Nobody /\ listener' = "listening"
                                 ELSE UNCHANGED <<handling, listener>>

ApiConnects ==
    /\ api.at = "connect"
    /\ sock' = "open"
    /\ api' = [api EXCEPT !.at = "send"]
    /\ UNCHANGED <<callVars, listenerVars, commands, answers, stray, requests, breaks>>

\* On a broken connection this may seem to succeed.
ApiSends ==
    /\ api.at = "send"
    /\ api' = [api EXCEPT !.at = "receive"]
    /\ commands' = IF sock = "open" THEN Append(commands, api.command) ELSE commands
    /\ UNCHANGED <<callVars, listenerVars, sock, answers, stray, requests, breaks>>

\* The packet that arrived is the answer.
ApiReceives ==
    /\ api.at = "receive" /\ answers # <<>>
    /\ answers' = <<>>
    /\ Return
    /\ UNCHANGED <<callVars, link, events, status, sock, commands, stray, requests, breaks>>

\* Slip: a command that is not answered in time is given up, not its connection.
ApiFailsOpen ==
    /\ api.at = "receive" /\ answers = <<>> /\ sock = "open" /\ Fails
    /\ Return
    /\ lost' = IF api.command = handling THEN lost \cup {handling} ELSE lost
    /\ UNCHANGED <<call, streamed, link, events, status, sock, commands, answers, stray, requests>>

\* Slip: attempts are not counted to an end.
ApiFailsAgain ==
    /\ \/ api.at = "connect" /\ Fails
       \/ api.at \in {"send", "receive"} /\ sock = "broken" /\ answers = <<>> /\ UNCHANGED breaks
       \/ api.at = "receive" /\ sock = "open" /\ answers = <<>> /\ Fails
    /\ sock' = "none" /\ commands' = <<>> /\ answers' = <<>>
    /\ api' = [api EXCEPT !.at = "connect", !.attempt = @ + 1]
    /\ UNCHANGED <<callVars, listenerVars, stray, requests>>

\* No connection, a broken one, or no answer in time: the connection is closed, and
\* after a second attempt api returns "".
ApiFails ==
    /\ \/ api.at = "connect" /\ Fails
       \/ api.at \in {"send", "receive"} /\ sock = "broken" /\ answers = <<>> /\ UNCHANGED breaks
       \/ api.at = "receive" /\ sock = "open" /\ answers = <<>> /\ Fails
    /\ sock' = "none" /\ commands' = <<>> /\ answers' = <<>>
    /\ stray' = stray \cup ({commands[i] : i \in DOMAIN commands} \cap Call)
    /\ IF api.attempt = 1
       THEN /\ api' = [api EXCEPT !.at = "connect", !.attempt = 2]
            /\ UNCHANGED <<lost, handling, listener>>
       ELSE /\ Return
            /\ lost' = IF api.command = handling THEN lost \cup {handling} ELSE lost
    /\ UNCHANGED <<call, streamed, link, events, status, requests>>

FreeSwitchStep == Subscribe \/ AnswerStatus \/ Run \/ RunStray

ListenerStep ==
    \/ ListenerConnects \/ ListenerRaises \/ Keepalive \/ StartStream
    \/ \E n \in 0 .. Len(events) : ReadPacket(n)

ApiStep == ApiConnects \/ ApiSends \/ ApiReceives \/ ApiFails

Next ==
    \/ \E c \in Call : Answer(c) \/ HangUp(c)
    \/ LinkBreaks \/ SockBreaks
    \/ FreeSwitchStep \/ ListenerStep \/ ApiStep
    \/ Request

\* The threads run, every wait of theirs has a timeout, and FreeSWITCH answers.
Spec ==
    /\ Init /\ [][Next]_vars
    /\ WF_vars(FreeSwitchStep) /\ WF_vars(ListenerStep) /\ WF_vars(ApiStep)

----------------------------------------------------------------------------
(* Properties                                                                 *)

\* A command is answered with its own answer: an answer that comes after api gave
\* up never meets a later command, of the other thread perhaps, which would take
\* it for "true" of another call.
AnswerIsOwn == api.at = "receive" /\ answers # <<>> => Head(answers) = api.command

\* A call answered with call_did gets its audio stream, while the HTTP server uses
\* the command connection too: unless it is over before, or its event or its command
\* was lost with a connection, thrown away with a packet that arrived before it, or
\* read for the answer to a keepalive. FreeSWITCH is taken to run what it answers: of a
\* stream it refuses the code knows nothing.
StreamedUnlessLost == \A c \in Ours : call[c] = "answered" ~> c \in streamed \cup lost \/ call[c] = "over"

\* The listener does not stay deaf: a connection that was closed, or that died
\* without a word, is found out and replaced, and its events are read again.
ListensAgain == []<>(link = "subscribed" /\ listener \in {"listening", "keepalive", "handling"})
====
