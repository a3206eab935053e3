---- MODULE EslBridge_proof ----
(* The commands fs-bridge gives FreeSWITCH and the answers it takes for them, *)
(* for any number of calls, requests and faults.                              *)
EXTENDS EslBridge, TLAPS

ApiRec == [at : {"idle", "connect", "send", "receive"}, attempt : 0 .. 2,
           command : Command \cup {Nobody}]

\* TypeOK in two parts.
EventsOK ==
    /\ call \in [Call -> {"new", "answered", "over"}]
    /\ lost \subseteq Ours
    /\ listener \in {"connecting", "subscribing", "listening", "keepalive", "handling"}
    /\ handling \in Ours \cup {Nobody} /\ (handling # Nobody <=> listener = "handling")
    /\ link \in {"none", "up", "subscribed", "closed", "dead"}
    /\ events \in Seq(Packet)
    /\ breaks \in 0 .. MaxBreaks

ApiOK ==
    /\ streamed \subseteq Ours
    /\ api \in ApiRec
    /\ sock \in {"none", "open", "broken"}
    /\ commands \in Seq(Command) /\ answers \in Seq(Command) /\ stray \subseteq Ours
    /\ requests \in 0 .. MaxRequests

\* A command that is a call is one of ours, and there is one as long as api runs.
CommandsOfOurs ==
    /\ api.command \in Ours \cup 1 .. MaxRequests \cup {Nobody}
    /\ api.at # "idle" => api.command # Nobody

\* On the command connection there is at most the command that is waited for, or
\* its answer: api sends one at a time, and leaves no connection behind on which
\* something may still come.
OneOnTheWay ==
    /\ api.at # "receive" => commands = <<>> /\ answers = <<>>
    /\ api.at = "receive" =>
          \/ commands = <<>> /\ answers = <<>>
          \/ commands = <<api.command>> /\ answers = <<>>
          \/ commands = <<>> /\ answers = <<api.command>>

\* The inductive invariant.
IInv == TypeOK /\ CommandsOfOurs /\ OneOnTheWay

LEMMA OursAreCalls ==
    /\ Ours \subseteq Call /\ Nobody \notin Call /\ Nobody \notin 1 .. MaxRequests
    /\ \A c \in Ours \cup 1 .. MaxRequests : c \in Command /\ (c \in Call => c \in Ours)
    /\ MaxRequests \in Nat /\ MaxBreaks \in Nat
  BY EslAssumption DEF Command

LEMMA TypeParts == TypeOK <=> EventsOK /\ ApiOK /\ status \in BOOLEAN
  BY DEF TypeOK, EventsOK, ApiOK, ApiRec

LEMMA TypePartsNext == EventsOK' /\ ApiOK' /\ status' \in BOOLEAN => TypeOK'
  BY DEF TypeOK, EventsOK, ApiOK, ApiRec

LEMMA NothingIsASequence == <<>> \in Seq(Packet) /\ <<>> \in Seq(Command)
  OBVIOUS

LEMMA InitIInv == Init => IInv
<1> SUFFICES ASSUME Init PROVE IInv
  OBVIOUS
<1>1. TypeOK
  <2>1. EventsOK
    BY OursAreCalls DEF Init, EventsOK
  <2>2. ApiOK
    BY OursAreCalls DEF Init, ApiOK, ApiRec, Idle
  <2>3. status \in BOOLEAN
    BY DEF Init
  <2> QED
    BY <2>1, <2>2, <2>3, TypeParts
<1>2. CommandsOfOurs /\ OneOnTheWay
  BY DEF Init, CommandsOfOurs, OneOnTheWay, Idle
<1> QED
  BY <1>1, <1>2 DEF IInv

\* The record of a second attempt.
LEMMA ApiAgain ==
    ASSUME NEW a \in ApiRec, NEW b, b = [a EXCEPT !.at = "connect", !.attempt = 2]
    PROVE  b \in ApiRec /\ b.at = "connect" /\ b.command = a.command
<1> DEFINE m == [a EXCEPT !.at = "connect"]
<1>1. m \in ApiRec /\ m.at = "connect" /\ m.command = a.command
  BY DEF ApiRec
<1>2. b = [m EXCEPT !.attempt = 2]
  OBVIOUS
<1> HIDE DEF m
<1> QED
  BY <1>1, <1>2 DEF ApiRec

LEMMA CallsAreOurs == \A packets \in Seq(Packet) : CallsIn(packets) \subseteq Ours
  BY DEF CallsIn

LEMMA StreamsOurs ==
    ASSUME TypeOK, NEW c \in Ours, StartsStream(c) PROVE streamed' \subseteq Ours
  BY DEF StartsStream, TypeOK

\* What FreeSWITCH and the network do to the listener's side.
LEMMA EventsKeep ==
    ASSUME IInv,
           \/ \E c \in Call : Answer(c) \/ HangUp(c)
           \/ LinkBreaks \/ Subscribe \/ AnswerStatus \/ ListenerConnects \/ ListenerRaises
           \/ Keepalive
    PROVE  IInv'
<1> USE DEF IInv
<1>1. UNCHANGED apiVars
  BY DEF Answer, HangUp, LinkBreaks, Subscribe, AnswerStatus, ListenerConnects,
         ListenerRaises, Keepalive
<1>2. CommandsOfOurs' /\ OneOnTheWay'
  BY <1>1 DEF CommandsOfOurs, OneOnTheWay, apiVars
<1>3. streamed' = streamed /\ requests' = requests
  BY DEF Answer, HangUp, LinkBreaks, Subscribe, AnswerStatus, ListenerConnects,
         ListenerRaises, Keepalive, callVars
<1>4. ApiOK'
  BY <1>1, <1>3, TypeParts DEF ApiOK, apiVars
<1>5. status' \in BOOLEAN
  <2>1. status \in BOOLEAN
    BY TypeParts
  <2>2. ASSUME NEW c \in Call, Answer(c) \/ HangUp(c) PROVE status' \in BOOLEAN
    BY <2>1, <2>2, Zenon DEF Answer, HangUp, listenerVars
  <2>3. ASSUME LinkBreaks \/ AnswerStatus \/ ListenerRaises PROVE status' \in BOOLEAN
    BY <2>3, Zenon DEF LinkBreaks, AnswerStatus, ListenerRaises
  <2>4. ASSUME Subscribe \/ ListenerConnects PROVE status' \in BOOLEAN
    BY <2>1, <2>4, Zenon DEF Subscribe, ListenerConnects
  <2>5. ASSUME Keepalive PROVE status' \in BOOLEAN
    BY <2>5, Zenon DEF Keepalive
  <2> QED
    BY <2>2, <2>3, <2>4, <2>5
<1>6. EventsOK
  BY TypeParts
<1>7. ASSUME NEW c \in Call, Answer(c) PROVE EventsOK'
  <2>1. [kind |-> "event", call |-> c] \in Packet
    BY DEF Packet
  <2>2. events' \in Seq(Packet)
    BY <1>6, <1>7, <2>1 DEF Answer, EventsOK
  <2>3. lost' \subseteq Ours
    BY <1>6, <1>7 DEF Answer, EventsOK
  <2> QED
    BY <1>6, <1>7, <2>2, <2>3 DEF Answer, EventsOK
<1>8. ASSUME NEW c \in Call, HangUp(c) PROVE EventsOK'
  BY <1>6, <1>8 DEF HangUp, EventsOK, listenerVars
<1>9. ASSUME LinkBreaks PROVE EventsOK'
  <2>0. events' = events \/ events' = <<>>
    BY <1>9, Zenon DEF LinkBreaks
  <2>1. events' \in Seq(Packet)
    BY <1>6, <2>0, NothingIsASequence, Zenon DEF EventsOK
  <2>2. lost' \subseteq Ours
    BY <1>6, <1>9, CallsAreOurs DEF LinkBreaks, EventsOK
  <2> QED
    BY <1>6, <1>9, <2>1, <2>2, OursAreCalls DEF LinkBreaks, Fails, EventsOK
<1>10. ASSUME Subscribe \/ AnswerStatus PROVE EventsOK'
  <2>1. [kind |-> "reply"] \in Packet /\ [kind |-> "answer"] \in Packet
    BY DEF Packet
  <2>2. events' \in Seq(Packet)
    BY <1>6, <1>10, <2>1 DEF Subscribe, AnswerStatus, EventsOK
  <2> QED
    BY <1>6, <1>10, <2>2 DEF Subscribe, AnswerStatus, EventsOK, callVars
<1>11. ASSUME ListenerConnects \/ Keepalive PROVE EventsOK'
  BY <1>6, <1>11 DEF ListenerConnects, Keepalive, EventsOK, callVars
<1>12. ASSUME ListenerRaises PROVE EventsOK'
  <2>1. breaks' \in 0 .. MaxBreaks
    BY <1>6, <1>12, OursAreCalls DEF ListenerRaises, Fails, EventsOK
  <2> QED
    BY <1>6, <1>12, <2>1 DEF ListenerRaises, EventsOK, callVars
<1>13. EventsOK'
  BY <1>7, <1>8, <1>9, <1>10, <1>11, <1>12
<1> QED
  BY <1>2, <1>4, <1>5, <1>13, TypePartsNext

\* A packet is read, with the loss of others.
LEMMA ReadPacketKeeps ==
    ASSUME IInv, NEW n \in 0 .. Len(events), ReadPacket(n)
    PROVE  IInv'
<1> USE DEF IInv
<1>1. UNCHANGED <<call, streamed, link, status, apiVars, requests, breaks>>
  BY DEF ReadPacket
<1>2. events \in Seq(Packet) /\ events # <<>> /\ Tail(events) \in Seq(Packet)
      /\ Len(Tail(events)) \in Nat
  BY DEF ReadPacket, TypeOK
<1>3. events' \in Seq(Packet)
  BY <1>2 DEF ReadPacket
<1>4. SubSeq(events, 1, n + 1) \in Seq(Packet)
  BY <1>2 DEF ReadPacket
<1>5. lost' \subseteq Ours
  BY <1>4, CallsAreOurs DEF ReadPacket, TypeOK
<1>6. /\ listener' \in {"listening", "handling"}
      /\ handling' \in Ours \cup {Nobody} /\ (handling' # Nobody <=> listener' = "handling")
  <2> DEFINE heard == IF listener = "listening" THEN CallsIn(<<Head(events)>>) ELSE {}
  <2>1. heard \subseteq Ours
    BY DEF CallsIn
  <2>2. IF heard = {} THEN listener' = "listening" /\ UNCHANGED handling
                      ELSE listener' = "handling" /\ handling' \in heard
    BY DEF ReadPacket
  <2>3. listener # "handling" /\ handling = Nobody
    BY DEF ReadPacket, TypeOK
  <2> HIDE DEF heard
  <2> QED
    BY <2>1, <2>2, <2>3, OursAreCalls
<1>7. TypeOK'
  BY <1>1, <1>3, <1>5, <1>6 DEF TypeOK, apiVars
<1>8. CommandsOfOurs' /\ OneOnTheWay'
  BY <1>1 DEF CommandsOfOurs, OneOnTheWay, apiVars
<1> QED
  BY <1>7, <1>8

\* FreeSWITCH runs a command, and the command connection breaks.
LEMMA CommandsKeep ==
    ASSUME IInv, Run \/ RunStray \/ SockBreaks
    PROVE  IInv'
<1> USE DEF IInv
<1>1. api' = api /\ UNCHANGED <<call, lost, listenerVars, requests>>
  BY DEF Run, RunStray, SockBreaks, callVars
<1>2. CASE Run
  <2>1. api.at = "receive" /\ commands = <<api.command>> /\ answers = <<>>
    BY <1>2 DEF Run, OneOnTheWay
  <2>2. api.command \in Ours \cup 1 .. MaxRequests /\ api.command \in Command
    BY <2>1, OursAreCalls DEF CommandsOfOurs
  <2>3. Head(commands) = api.command /\ Tail(commands) = <<>>
    BY <2>1
  <2>4. commands' = <<>> /\ answers' \in {<<>>, <<api.command>>}
    BY <1>2, <2>1, <2>3 DEF Run
  <2>5. streamed' \subseteq Ours
    BY <1>2, <2>2, <2>3, OursAreCalls, StreamsOurs DEF Run, TypeOK
  <2>6. TypeOK'
    BY <1>1, <1>2, <2>2, <2>4, <2>5 DEF Run, TypeOK, listenerVars
  <2>7. CommandsOfOurs' /\ OneOnTheWay'
    BY <1>1, <2>1, <2>4 DEF CommandsOfOurs, OneOnTheWay
  <2> QED
    BY <2>6, <2>7
<1>3. CASE RunStray
  <2>1. PICK c \in stray : StartsStream(c) /\ stray' = stray \ {c}
    BY <1>3 DEF RunStray
  <2>2. c \in Ours /\ streamed' \subseteq Ours /\ stray' \subseteq Ours
    BY <2>1, StreamsOurs DEF TypeOK
  <2>3. TypeOK'
    BY <1>1, <1>3, <2>2 DEF RunStray, TypeOK, listenerVars
  <2>4. CommandsOfOurs' /\ OneOnTheWay'
    BY <1>1, <1>3 DEF RunStray, CommandsOfOurs, OneOnTheWay
  <2> QED
    BY <2>3, <2>4
<1>4. CASE SockBreaks
  <2>0. commands' \in Seq(Command) /\ answers' \in Seq(Command)
    <3>1. (commands' = commands \/ commands' = <<>>) /\ (answers' = answers \/ answers' = <<>>)
      BY <1>4, Zenon DEF SockBreaks
    <3> QED
      BY <3>1, TypeParts, NothingIsASequence, Zenon DEF ApiOK
  <2>1. TypeOK'
    <3>1. EventsOK' /\ ApiOK'
      BY <1>1, <1>4, <2>0, OursAreCalls, TypeParts
      DEF SockBreaks, Fails, EventsOK, ApiOK, callVars, listenerVars
    <3> QED
      BY <1>1, <3>1, TypeParts, TypePartsNext DEF listenerVars
  <2>2. CommandsOfOurs' /\ OneOnTheWay'
    BY <1>1, <1>4 DEF SockBreaks, CommandsOfOurs, OneOnTheWay
  <2> QED
    BY <2>1, <2>2
<1> QED
  BY <1>2, <1>3, <1>4

\* The lock is taken by one of the threads.
LEMMA TakeKeeps ==
    ASSUME IInv, NEW c \in Ours \cup 1 .. MaxRequests, Take(c),
           requests' \in 0 .. MaxRequests,
           UNCHANGED <<callVars, listenerVars, sock, commands, answers, stray, breaks>>
    PROVE  IInv'
<1> USE DEF IInv
<1>1. api' \in ApiRec /\ api'.command = c /\ api'.at \in {"connect", "send"} /\ c # Nobody
  BY OursAreCalls DEF Take, ApiRec
<1>2. TypeOK'
  BY <1>1 DEF TypeOK, ApiRec, callVars, listenerVars
<1>3. CommandsOfOurs' /\ OneOnTheWay'
  BY <1>1 DEF CommandsOfOurs, OneOnTheWay, Take
<1> QED
  BY <1>2, <1>3

\* What Return leaves of the listener.
LEMMA ReturnKeeps ==
    ASSUME TypeOK, Return
    PROVE  /\ api' = Idle /\ api' \in ApiRec
           /\ listener' \in {"connecting", "subscribing", "listening", "keepalive", "handling"}
           /\ handling' \in Ours \cup {Nobody} /\ (handling' # Nobody <=> listener' = "handling")
<1>1. api' = Idle /\ api' \in ApiRec
  BY DEF Return, Idle, ApiRec
<1>2. CASE api.command = handling
  BY <1>1, <1>2 DEF Return
<1>3. CASE api.command # handling
  BY <1>1, <1>3 DEF Return, TypeOK
<1> QED
  BY <1>2, <1>3, <1>1

LEMMA ApiKeeps ==
    ASSUME IInv, Request \/ StartStream \/ ApiStep
    PROVE  IInv'
<1> USE DEF IInv
<1>0. api \in ApiRec /\ requests \in 0 .. MaxRequests
  BY DEF TypeOK, ApiRec
<1>1. CASE Request
  <2>1. requests + 1 \in 1 .. MaxRequests /\ requests' \in 0 .. MaxRequests
    BY <1>0, <1>1, OursAreCalls DEF Request
  <2> QED
    BY <1>1, <2>1, TakeKeeps DEF Request
<1>2. CASE StartStream
  <2>1. handling \in Ours
    BY <1>2 DEF StartStream, TypeOK
  <2> QED
    BY <1>0, <1>2, <2>1, TakeKeeps DEF StartStream
<1>3. CASE ApiConnects
  <2>1. api' \in ApiRec /\ api'.at = "send" /\ api'.command = api.command
    BY <1>0, <1>3 DEF ApiConnects, ApiRec
  <2>2. TypeOK'
    BY <1>3, <2>1 DEF ApiConnects, TypeOK, ApiRec, callVars, listenerVars
  <2>3. CommandsOfOurs' /\ OneOnTheWay'
    BY <1>3, <2>1 DEF ApiConnects, CommandsOfOurs, OneOnTheWay
  <2> QED
    BY <2>2, <2>3
<1>4. CASE ApiSends
  <2>1. api' \in ApiRec /\ api'.at = "receive" /\ api'.command = api.command
    BY <1>0, <1>4 DEF ApiSends, ApiRec
  <2>2. commands = <<>> /\ answers = <<>> /\ answers' = <<>>
    BY <1>4 DEF ApiSends, OneOnTheWay
  <2>3. commands' \in {<<>>, <<api.command>>}
    BY <1>4, <2>2 DEF ApiSends
  <2>4. api.command \in Command
    BY <1>4, OursAreCalls DEF ApiSends, CommandsOfOurs
  <2>5. TypeOK'
    BY <1>4, <2>1, <2>2, <2>3, <2>4 DEF ApiSends, TypeOK, ApiRec, callVars, listenerVars
  <2>6. CommandsOfOurs' /\ OneOnTheWay'
    BY <2>1, <2>2, <2>3, <1>4 DEF ApiSends, CommandsOfOurs, OneOnTheWay
  <2> QED
    BY <2>5, <2>6
<1>5. CASE ApiReceives
  <2>1. commands = <<>> /\ commands' = <<>> /\ answers' = <<>>
    BY <1>5 DEF ApiReceives, OneOnTheWay
  <2>2. TypeOK'
    BY <1>5, <2>1, ReturnKeeps DEF ApiReceives, TypeOK, ApiRec, callVars
  <2>3. CommandsOfOurs' /\ OneOnTheWay'
    BY <1>5, <2>1, ReturnKeeps DEF ApiReceives, CommandsOfOurs, OneOnTheWay, Idle
  <2> QED
    BY <2>2, <2>3
<1>6. CASE ApiFails
  <2>1. sock' = "none" /\ commands' = <<>> /\ answers' = <<>> /\ breaks' \in 0 .. MaxBreaks
        /\ UNCHANGED <<call, streamed, link, events, status, requests>>
    BY <1>6, OursAreCalls DEF ApiFails, Fails, TypeOK
  <2>2. stray' \subseteq Ours
    <3>1. {commands[i] : i \in DOMAIN commands} \cap Call \subseteq Ours
      <4>1. commands = <<>> \/ (commands = <<api.command>> /\ api.command \in Ours \cup 1 .. MaxRequests)
        BY DEF OneOnTheWay, CommandsOfOurs
      <4> QED
        BY <4>1, OursAreCalls
    <3> QED
      BY <1>6, <3>1 DEF ApiFails, TypeOK
  <2>3. CASE api.attempt = 1
    <3>1. api' \in ApiRec /\ api'.at = "connect" /\ api'.command = api.command
          /\ UNCHANGED <<lost, handling, listener>>
      <4>1. api' = [api EXCEPT !.at = "connect", !.attempt = 2]
            /\ UNCHANGED <<lost, handling, listener>>
        BY <1>6, <2>3 DEF ApiFails
      <4> QED
        BY <1>0, <4>1, ApiAgain
    <3>2. api.at # "idle"
      BY <1>6 DEF ApiFails
    <3>3. TypeOK'
      BY <2>1, <2>2, <3>1 DEF TypeOK, ApiRec
    <3>4. CommandsOfOurs' /\ OneOnTheWay'
      BY <2>1, <3>1, <3>2 DEF CommandsOfOurs, OneOnTheWay
    <3> QED
      BY <3>3, <3>4
  <2>4. CASE api.attempt # 1
    <3>1. Return /\ (lost' = IF api.command = handling THEN lost \cup {handling} ELSE lost)
      BY <1>6, <2>4 DEF ApiFails
    <3>2. api.command # Nobody
      BY <1>6 DEF ApiFails, CommandsOfOurs
    <3>3. lost' \subseteq Ours
      BY <3>1, <3>2 DEF TypeOK
    <3>4. TypeOK'
      BY <2>1, <2>2, <3>1, <3>3, ReturnKeeps DEF TypeOK, ApiRec
    <3>5. CommandsOfOurs' /\ OneOnTheWay'
      BY <2>1, <3>1, ReturnKeeps DEF CommandsOfOurs, OneOnTheWay, Idle
    <3> QED
      BY <3>4, <3>5
  <2> QED
    BY <2>3, <2>4
<1> QED
  BY <1>1, <1>2, <1>3, <1>4, <1>5, <1>6 DEF ApiStep

LEMMA NextIInv == IInv /\ [Next]_vars => IInv'
<1> SUFFICES ASSUME IInv, [Next]_vars PROVE IInv'
  OBVIOUS
<1>1. CASE Next
  BY <1>1, EventsKeep, ReadPacketKeeps, CommandsKeep, ApiKeeps
  DEF Next, FreeSwitchStep, ListenerStep
<1>2. CASE UNCHANGED vars
  BY <1>2 DEF IInv, TypeOK, CommandsOfOurs, OneOnTheWay, vars, callVars, listenerVars, apiVars
<1> QED
  BY <1>1, <1>2

LEMMA Inductive == Spec => []IInv
<1>1. Init => IInv
  BY InitIInv
<1>2. IInv /\ [Next]_vars => IInv'
  BY NextIInv
<1> QED
  BY <1>1, <1>2, PTL DEF Spec

\* The variables of both threads and of FreeSWITCH keep their types; only calls with
\* call_did are streamed, and the listener handles an event exactly while it has one.
THEOREM TypeCorrect == Spec => []TypeOK
<1>1. IInv => TypeOK
  BY DEF IInv
<1> QED
  BY <1>1, Inductive, PTL

\* Whatever breaks, dies or comes late on the connection that the HTTP server and the
\* listener share, api never returns the answer of another command.
THEOREM AnswersAreOwn == Spec => []AnswerIsOwn
<1>1. IInv => AnswerIsOwn
  BY DEF IInv, OneOnTheWay, AnswerIsOwn
<1> QED
  BY <1>1, Inductive, PTL
====
