----------------------------- MODULE TurnTaking -----------------------------
(***************************************************************************)
(* What a call promises to the people on it: one of them has the floor,    *)
(* the agent answers one turn at a time, a new turn is never confused with *)
(* an older one, and the record of the conversation gets each turn once,   *)
(* whole when the agent finished and as far as it got when it was cut off. *)
(* How the agent's tasks, queues and requests bring this about is          *)
(* AgentCall's matter.                                                     *)
(***************************************************************************)
EXTENDS Naturals, Sequences

CONSTANTS HistoryCap, Turns

VARIABLES
    floor,     \* who has the floor: "agent", "caller", nobody ("open"); or "over"
    turn,      \* the turn the agent answers or answered last; 0: none yet
    asked,     \* the turn whose question is understood but not yet recorded; 0: none
    answered,  \* likewise for the answer
    record     \* the conversation

vars == <<floor, turn, asked, answered, record>>

Question(t) == [role |-> "user", turn |-> t]
Answer(t) == [role |-> "assistant", turn |-> t]

Init == floor = "open" /\ turn = 0 /\ asked = 0 /\ answered = 0 /\ record = <<>>

\* The partial turn, as it is recorded when the agent is cut off.
Partial ==
    (IF asked # 0 THEN <<Question(asked)>> ELSE <<>>) \o
    (IF answered # 0 THEN <<Answer(answered)>> ELSE <<>>)

Recent(r) == IF Len(r) > HistoryCap THEN SubSeq(r, Len(r) - HistoryCap + 1, Len(r)) ELSE r

\* The agent takes the floor: it greets, or answers the caller.
AgentBegins ==
    /\ floor \in {"open", "caller"}
    /\ \E t \in Turns : t > turn /\ turn' = t
    /\ floor' = "agent"
    /\ UNCHANGED <<asked, answered, record>>

Understand ==
    /\ floor = "agent"
    /\ asked' = turn /\ answered' = 0
    /\ UNCHANGED <<floor, turn, record>>

Reply ==
    /\ floor = "agent" /\ asked = turn
    /\ answered' = turn
    /\ UNCHANGED <<floor, turn, asked, record>>

\* The agent has said all it had to say.
Complete ==
    /\ floor = "agent" /\ asked = turn
    /\ floor' = "open"
    /\ record' = Recent(record \o <<Question(turn), Answer(turn)>>)
    /\ asked' = 0 /\ answered' = 0
    /\ UNCHANGED turn

\* The agent stops without an answer to record.
GiveUp ==
    /\ floor = "agent"
    /\ floor' = "open"
    /\ UNCHANGED <<turn, asked, answered, record>>

CutOff(next) ==
    /\ floor' = next
    /\ record' = record \o Partial
    /\ asked' = 0 /\ answered' = 0
    /\ UNCHANGED turn

CallerSpeaks ==
    \/ floor = "agent" /\ CutOff("caller")
    \/ floor = "open" /\ floor' = "caller" /\ UNCHANGED <<turn, asked, answered, record>>

CallEnds == floor # "over" /\ CutOff("over")

Next ==
    AgentBegins \/ Understand \/ Reply \/ Complete \/ GiveUp \/ CallerSpeaks \/ CallEnds

\* Without the agent's obligation to finish.
SafeSpec == Init /\ [][Next]_vars

\* The agent does not keep the floor for ever.
Spec == SafeSpec /\ WF_vars(Complete \/ GiveUp)

-----------------------------------------------------------------------------

TypeOK ==
    /\ floor \in {"open", "agent", "caller", "over"}
    /\ turn \in Nat /\ asked \in Nat /\ answered \in Nat
    /\ record \in Seq([role : {"user", "assistant"}, turn : Nat])

\* The history is the conversation: a turn is in it at most once, recorded by
\* the completion or by the interruption that cut it short and never by both;
\* turns are in the order they were spoken, and what is still pending is newer
\* than all of them, so that it can be recorded without breaking the order.
RecordInOrder ==
    /\ \A i, j \in DOMAIN record :
          i < j => \/ record[i].turn < record[j].turn
                   \/ /\ record[i].turn = record[j].turn /\ j = i + 1
                      /\ record[i].role = "user" /\ record[j].role = "assistant"
    /\ asked # 0 => \A i \in DOMAIN record : record[i].turn < asked

\* A reply in the record follows its question; the oldest entry may have lost
\* its question to the cap.
RepliesFollowQuestions ==
    \A i \in DOMAIN record :
        record[i].role = "assistant" /\ i > 1 => record[i - 1] = Question(record[i].turn)

=============================================================================
