---------------------------- MODULE VoiceBooking ----------------------------
(***************************************************************************)
(* The booking dialogue of one call (handle_appointment_turn in            *)
(* src/agent/main.py) with what lies on both sides of it: the speech       *)
(* recognition that drops what it takes for noise, the caller who may talk *)
(* over the agent, and the booking API, whose requests the agent gives up  *)
(* after 6 s while the server goes on with them.                           *)
(*                                                                         *)
(* A turn is transcribed, handled up to the request it awaits, if any, and *)
(* spoken; an interruption cancels it at each of these awaits (AgentCall   *)
(* has the details).  A booking is one step of the server (Booking shows   *)
(* that it may be taken for one).                                          *)
(***************************************************************************)
EXTENDS Naturals, FiniteSets, SequencesExt

CONSTANTS
    NumSlots,   \* bound: slots of the calendar, in the order of time
    MaxOffer    \* "limit" of an availability request (3)

ASSUME VoiceAssumption ==
    /\ NumSlots \in Nat \ {0} /\ MaxOffer \in Nat \ {0}

Slots == 1 .. NumSlots

\* A date is named by the first slot on it or after it, a date after all by one more.
Dates == 1 .. NumSlots + 1

VARIABLES
    reliable,   \* STT, TTS and API requests succeed in time, during all of the call
    bargeIn,    \* BARGE_IN_ENABLED
    stage,      \* appointment_flow["stage"]; "none": no flow
    types,      \* the number of appointment types still open, 1 once flow["type"] is set
    offered,    \* flow["slots"], <<>> when absent
    selected,   \* flow["selected_slot"], 0 when absent
    turn,       \* "listening", or what the live response task awaits
    said,       \* the caller's utterance, until it is understood
    request,    \* its request to the API and the answer to it
    orphans,    \* slots of booking requests whose answer nobody awaits any more
    prompt,     \* the reply it came to last, and the slot that names
    calendar,   \* who has each slot; the call's is "told" once the agent said so
    cancelled,  \* slots whose last appointment for the call was cancelled (history)
    asked,      \* the slot of the last "Should I book it?",
    heard,      \* whether that was spoken to its end, and
    consent     \* the slots the caller then said yes to (history)

flowVars == <<stage, types, offered, selected>>
calendarVars == <<calendar, cancelled>>
askVars == <<asked, heard, consent>>
dialogue == <<flowVars, turn, said, request, orphans, prompt, calendarVars, askVars>>
surroundings == <<reliable, bargeIn>>
vars == <<dialogue, surroundings>>

\* What the caller means, the number or the date in it, and whether the words
\* that carry it are bare: "2.", "2026-10-25", "No.", "Okay."
Utterance ==
    [kind : {"book", "cancel", "yes"}, n : {0}, bare : {FALSE}] \cup
    [kind : {"sentence", "phone", "decline"}, n : {0}, bare : BOOLEAN] \cup
    [kind : {"number"}, n : 1 .. MaxOffer, bare : BOOLEAN] \cup
    [kind : {"date"}, n : Dates, bare : BOOLEAN]

Silence == [kind |-> "sentence", n |-> 0, bare |-> TRUE]

NoRequest == [op |-> "none", n |-> 0, slots |-> {}, answer |-> "none"]

\* Wherever a turn was cut off, the flow it leaves also has what its stage will look
\* up: else flow["slots"], flow["selected_slot"] or flow["type"] is a KeyError.
TypeOK ==
    /\ reliable \in BOOLEAN /\ bargeIn \in BOOLEAN
    /\ stage \in {"none", "type", "name", "phone", "reason", "date", "slot", "confirm"}
    /\ types \in 0 .. 2
    /\ offered \in Seq(Slots) /\ selected \in Slots \cup {0}
    /\ turn \in {"listening", "stt", "api", "speaking"}
    /\ said \in Utterance
    /\ request \in [op : {"none", "types", "availability", "book"},
                   n : 0 .. NumSlots + 2, slots : SUBSET Slots,
                   answer : {"none", "pending", "ok", "conflict", "error"}]
    /\ orphans \subseteq Slots
    /\ prompt \in [kind : {"none", "ask", "again", "offer", "confirm", "taken", "booked",
                           "denied"},
                   slot : Slots \cup {0}]
    /\ calendar \in [Slots -> {"free", "other", "mine", "told"}]
    /\ cancelled \subseteq Slots
    /\ asked \in Slots \cup {0} /\ heard \in BOOLEAN
    /\ consent \in [Slots -> {"none", "unheard", "heard"}]
    /\ stage # "none" => types > 0
    /\ stage \in {"slot", "confirm"} => offered # <<>>
    /\ stage = "confirm" => selected \in ToSet(offered)

Init ==
    /\ reliable \in BOOLEAN /\ bargeIn \in BOOLEAN
    /\ stage = "none" /\ types = 0 /\ offered = <<>> /\ selected = 0
    /\ turn = "listening" /\ said = Silence /\ request = NoRequest /\ orphans = {}
    /\ prompt = [kind |-> "none", slot |-> 0]
    /\ calendar \in [Slots -> {"free", "other"}]
    /\ cancelled = {}
    /\ asked = 0 /\ heard = FALSE /\ consent = [s \in Slots |-> "none"]

-----------------------------------------------------------------------------
(* What a step of the dialogue does *)

\* The reply is known and the agent begins to speak it.  Any reply but "say yes or no"
\* ends the question before it.
Speak(kind, slot) ==
    /\ turn' = "speaking"
    /\ prompt' = [kind |-> kind, slot |-> slot]
    /\ asked' = CASE kind = "confirm" -> slot [] kind = "again" -> asked [] OTHER -> 0
    /\ heard' = (kind = "again" /\ heard)
    /\ request' = NoRequest

Ask(op, n) ==
    /\ turn' = "api"
    /\ request' = [op |-> op, n |-> n, slots |-> {}, answer |-> "pending"]
    /\ UNCHANGED <<prompt, asked, heard>>

\* appointment_flow = None
DropFlow == stage' = "none" /\ types' = 0 /\ offered' = <<>> /\ selected' = 0

Goto(s) == stage' = s /\ UNCHANGED <<types, offered, selected>>

\* The same question once more.
Again == Speak("again", 0) /\ UNCHANGED flowVars

\* What choice_index finds: the number the caller chose, if there is such a
\* choice, or a number that other words happen to hold ("another one"); 0: none.
ChoiceIndex(u, max) ==
    IF u.kind = "number" THEN {IF u.n <= max THEN u.n ELSE 0} ELSE 0 .. max

\* is_noise: fewer than three letters, nothing but digits and dashes, or a filler.
IsNoise(u) == u.bare

-----------------------------------------------------------------------------
(* The stages, for an utterance that was understood *)

Handling(s) == turn = "stt" /\ ~IsNoise(said) /\ stage = s

Continues(s) == Handling(s) /\ said.kind # "cancel"

\* No flow yet: a word like "appointment" begins one; all else is answered from
\* the knowledge base.
StageNone ==
    /\ Handling("none")
    /\ IF said.kind = "book"
       THEN Ask("types", 0)
       ELSE turn' = "listening" /\ UNCHANGED <<request, prompt, asked, heard>>
    /\ UNCHANGED <<flowVars, consent>>

CancelFlow ==
    /\ \E s \in {"type", "name", "phone", "reason", "date", "slot", "confirm"} : Handling(s)
    /\ said.kind = "cancel"
    /\ DropFlow /\ Speak("denied", 0)
    /\ UNCHANGED consent

\* By number, or by a name the text holds.
StageType ==
    /\ Continues("type")
    /\ \E i \in ChoiceIndex(said, types) :
          IF i # 0
          THEN stage' = "name" /\ types' = 1 /\ UNCHANGED <<offered, selected>> /\ Speak("ask", 0)
          ELSE Again
    /\ UNCHANGED consent

\* Any text of a name's length is one.
StageName ==
    /\ Continues("name")
    /\ \/ Goto("phone") /\ Speak("ask", 0)
       \/ Again
    /\ UNCHANGED consent

\* 7 to 15 digits, which a date can have too.
StagePhone ==
    /\ Continues("phone")
    /\ \/ said.kind \in {"phone", "date"} /\ Goto("reason") /\ Speak("ask", 0)
       \/ said.kind # "phone" /\ Again
    /\ UNCHANGED consent

\* Any text is a reason, unless it is too long.
StageReason ==
    /\ Continues("reason")
    /\ \/ Goto("date") /\ Speak("ask", 0)
       \/ Again
    /\ UNCHANGED consent

StageDate ==
    /\ Continues("date")
    /\ IF said.kind = "date" THEN Ask("availability", said.n) /\ UNCHANGED flowVars ELSE Again
    /\ UNCHANGED consent

StageSlot ==
    /\ Continues("slot")
    /\ \E i \in ChoiceIndex(said, Len(offered)) :
          IF i = 0
          THEN Again
          ELSE /\ selected' = offered[i]
               /\ stage' = "confirm"
               /\ Speak("confirm", offered[i])
               /\ UNCHANGED <<types, offered>>
    /\ UNCHANGED consent

StageConfirm ==
    /\ Continues("confirm")
    /\ CASE said.kind = "yes"     -> /\ Ask("book", selected) /\ UNCHANGED flowVars
                                     /\ consent' = [consent EXCEPT ![asked] =
                                                      IF heard THEN "heard" ELSE "unheard"]
         [] said.kind = "decline" -> DropFlow /\ Speak("denied", 0) /\ UNCHANGED consent
         [] OTHER                 -> Again /\ UNCHANGED consent

HandleTurn ==
    /\ \/ StageNone \/ CancelFlow \/ StageType \/ StageName \/ StagePhone \/ StageReason
       \/ StageDate \/ StageSlot \/ StageConfirm
    /\ said' = Silence
    /\ UNCHANGED <<orphans, calendarVars>>

-----------------------------------------------------------------------------
(* The booking API *)

\* appointment_types, an ordered list; 2 stands for several.
ServeTypes ==
    /\ request.op = "types" /\ request.answer = "pending"
    /\ \E n \in 0 .. 2 : request' = [request EXCEPT !.n = n, !.answer = "ok"]
    /\ UNCHANGED <<flowVars, turn, said, orphans, prompt, calendarVars, askVars>>

\* The free slots from a date on, as many as an answer may have.
Openings(d) == {s \in Slots : s >= d /\ calendar[s] = "free"}

FirstOf(S) == {s \in S : Cardinality({x \in S : x < s}) < MaxOffer}

\* The answer names the slots free now; the agent will offer these.
ServeAvailability ==
    /\ request.op = "availability" /\ request.answer = "pending"
    /\ request' = [request EXCEPT !.slots = FirstOf(Openings(request.n)), !.answer = "ok"]
    /\ UNCHANGED <<flowVars, turn, said, orphans, prompt, calendarVars, askVars>>

Book(s) ==
    IF calendar[s] = "free"
    THEN calendar' = [calendar EXCEPT ![s] = "mine"] /\ cancelled' = cancelled \ {s}
    ELSE UNCHANGED calendarVars

ServeBooking ==
    /\ request.op = "book" /\ request.answer = "pending"
    /\ Book(request.n)
    /\ request' = [request EXCEPT !.answer =
                      IF calendar[request.n] = "free" THEN "ok" ELSE "conflict"]
    /\ UNCHANGED <<flowVars, turn, said, orphans, prompt, askVars>>

\* A request the agent has given up is served all the same, or never arrived.
ServeOrphan ==
    \E s \in orphans :
        /\ orphans' = orphans \ {s}
        /\ Book(s) \/ UNCHANGED calendarVars
        /\ UNCHANGED <<flowVars, turn, said, request, prompt, askVars>>

\* Another answer than the expected one: 400, 404, or a 500, which may come after
\* the commit.
ServerError ==
    /\ ~reliable /\ turn = "api" /\ request.answer = "pending"
    /\ request' = [request EXCEPT !.answer = "error"]
    /\ (request.op = "book" /\ Book(request.n)) \/ UNCHANGED calendarVars
    /\ UNCHANGED <<flowVars, turn, said, orphans, prompt, askVars>>

\* The workspace's other callers and its dashboard.
OthersBook ==
    \E s \in Slots :
        /\ calendar[s] = "free"
        /\ calendar' = [calendar EXCEPT ![s] = "other"]
        /\ UNCHANGED <<flowVars, turn, said, request, orphans, prompt, cancelled, askVars>>

\* The dashboard cancels an appointment, whosever it is.
Cancel ==
    \E s \in Slots :
        /\ calendar[s] # "free"
        /\ calendar' = [calendar EXCEPT ![s] = "free"]
        /\ cancelled' = IF calendar[s] = "other" THEN cancelled ELSE cancelled \cup {s}
        /\ UNCHANGED <<flowVars, turn, said, request, orphans, prompt, askVars>>

-----------------------------------------------------------------------------
(* The answers *)

\* The sequence of some slots in the order of time.
InOrder(S) ==
    {q \in [1 .. Cardinality(S) -> S] : \A i, j \in 1 .. Cardinality(S) : i < j => q[i] < q[j]}

Answered(op, how) == turn = "api" /\ request.op = op /\ request.answer = how

TypesKnown ==
    /\ Answered("types", "ok")
    /\ IF request.n = 0
       THEN Speak("again", 0) /\ UNCHANGED flowVars
       ELSE /\ stage' = IF request.n > 1 THEN "type" ELSE "name"
            /\ types' = request.n /\ offered' = <<>> /\ selected' = 0
            /\ Speak("ask", 0)
    /\ UNCHANGED <<calendarVars, orphans>>

SlotsKnown ==
    /\ Answered("availability", "ok")
    /\ IF request.slots = {}
       THEN Again
       ELSE /\ offered' \in InOrder(request.slots)
            /\ stage' = "slot"
            /\ UNCHANGED <<types, selected>>
            /\ Speak("offer", 0)
    /\ UNCHANGED <<calendarVars, orphans>>

\* Slip: the status is not looked at.
BookedAnyStatus ==
    /\ Answered("book", "ok") \/ Answered("book", "conflict")
    /\ DropFlow /\ Speak("booked", selected)
    /\ calendar' = [s \in Slots |-> IF s = selected /\ calendar[s] = "mine" THEN "told"
                                    ELSE calendar[s]]
    /\ UNCHANGED <<orphans, cancelled>>

\* Slip: success is 200 and nothing else, and 201 an error.
BookedUnrecognized ==
    /\ Answered("book", "ok")
    /\ DropFlow /\ Speak("denied", 0)
    /\ UNCHANGED <<calendarVars, orphans>>

\* 201: the agent names the slot it selected.
Booked ==
    /\ Answered("book", "ok")
    /\ DropFlow /\ Speak("booked", selected)
    /\ calendar' = [s \in Slots |-> IF s = selected /\ calendar[s] = "mine" THEN "told"
                                    ELSE calendar[s]]
    /\ UNCHANGED <<orphans, cancelled>>

\* Slip: the next of the offered slots takes the place of the one that is gone.
TakenNextBest ==
    /\ Answered("book", "conflict")
    /\ selected' = offered[Len(offered)] /\ UNCHANGED <<stage, types, offered>>
    /\ Speak("taken", selected)
    /\ UNCHANGED <<calendarVars, orphans>>

\* Slip: the slots are dropped, the stage that needs them is not left.
TakenChooseAgain ==
    /\ Answered("book", "conflict")
    /\ stage' = "slot" /\ offered' = <<>> /\ selected' = 0 /\ UNCHANGED types
    /\ Speak("taken", selected)
    /\ UNCHANGED <<calendarVars, orphans>>

\* Slip: the caller is not told.
TakenSilently ==
    /\ Answered("book", "conflict")
    /\ stage' = "date" /\ offered' = <<>> /\ selected' = 0 /\ UNCHANGED types
    /\ turn' = "listening" /\ request' = NoRequest
    /\ UNCHANGED <<prompt, asked, heard, calendarVars, orphans>>

\* 409, "no longer available": another date is asked for.
Taken ==
    /\ Answered("book", "conflict")
    /\ stage' = "date" /\ offered' = <<>> /\ selected' = 0 /\ UNCHANGED types
    /\ Speak("taken", selected)
    /\ UNCHANGED <<calendarVars, orphans>>

\* The request the response task leaves behind: only a booking changes anything.
Orphaned ==
    orphans' = IF request.op = "book" /\ request.answer = "pending"
               THEN orphans \cup {request.n} ELSE orphans

\* An error, no connection, or no answer in 6 s.
Failed ==
    /\ turn = "api" /\ ~reliable
    /\ request.answer # "error" => Orphaned
    /\ request.answer = "error" => UNCHANGED orphans
    /\ Speak("denied", 0)
    /\ IF request.op = "book" THEN DropFlow ELSE UNCHANGED flowVars
    /\ UNCHANGED calendarVars

ReceiveAnswer ==
    /\ TypesKnown \/ SlotsKnown \/ Booked \/ Taken \/ Failed
    /\ UNCHANGED <<said, consent>>

-----------------------------------------------------------------------------
(* The caller and the voice *)

\* The caller has spoken and nothing of an earlier turn is alive.
Say(u) ==
    /\ turn = "listening"
    /\ turn' = "stt" /\ said' = u
    /\ UNCHANGED <<flowVars, request, orphans, prompt, calendarVars, askVars>>

\* STT answers no text, or does not answer: the turn ends without a word.
HeardNothing ==
    /\ turn = "stt" /\ (IsNoise(said) \/ ~reliable)
    /\ turn' = "listening" /\ said' = Silence
    /\ UNCHANGED <<flowVars, request, orphans, prompt, calendarVars, askVars>>

\* The reply is spoken to its end, or not at all: without audio from TTS speak_text
\* returns as if it had spoken.
Spoken ==
    /\ turn = "speaking"
    /\ turn' = "listening"
    /\ \/ heard' = (heard \/ prompt.kind = "confirm")
       \/ ~reliable /\ UNCHANGED heard
    /\ UNCHANGED <<flowVars, said, request, orphans, prompt, calendarVars, asked, consent>>

\* The caller talks over the turn, wherever it is.
Interrupt ==
    /\ bargeIn /\ turn # "listening"
    /\ turn' = "listening" /\ said' = Silence /\ request' = NoRequest
    /\ Orphaned
    /\ UNCHANGED <<flowVars, prompt, calendarVars, askVars>>

Step ==
    \/ HandleTurn \/ ReceiveAnswer
    \/ ServeTypes \/ ServeAvailability \/ ServeBooking \/ ServeOrphan \/ ServerError
    \/ OthersBook \/ Cancel
    \/ \E u \in Utterance : Say(u)
    \/ HeardNothing \/ Spoken \/ Interrupt

Next == Step /\ UNCHANGED surroundings

Spec == Init /\ [][Next]_vars

\* The agent goes on with its turn, and its requests end by an answer or by their
\* timeout; with reliable servers an answer comes.
Fairness ==
    /\ WF_dialogue(HandleTurn) /\ WF_dialogue(ReceiveAnswer)
    /\ WF_dialogue(reliable /\ (ServeTypes \/ ServeAvailability \/ ServeBooking))

FairSpec == Spec /\ Fairness

-----------------------------------------------------------------------------

\* README: "repeats the selected time, and books only after an explicit verbal
\* confirmation".  No appointment is made for a call without a yes to the question
\* about its slot: not after a conflict, a second date or a second flow.  That the
\* caller heard the question takes speech that works and nobody who talks over it:
\* a question cut off or without audio leaves the flow in confirm all the same, and
\* a yes, to whatever, then books a slot the caller was told nothing of.
Consent ==
    \A s \in Slots : calendar[s] \in {"mine", "told"} =>
        /\ consent[s] # "none"
        /\ reliable /\ ~bargeIn => consent[s] = "heard"

\* "Your appointment is booked for ..." is said of an appointment of the call's that
\* is there for as long as the dashboard does not cancel it.
TruthfulConfirmation ==
    prompt.kind = "booked" =>
        calendar[prompt.slot] \in {"mine", "told"} \/ prompt.slot \in cancelled

\* The caller has an appointment the agent has not told him of.
HasUnknownAppointment == \E s \in Slots : calendar[s] = "mine"

\* "No appointment has been made", "I have not booked anything" and "That time was
\* just taken" are true, if servers answer in time and the agent is not cut off
\* while it waits for them: no path through the dialogue forgets a booking.
DenialIsTrueWhenAnswered ==
    reliable /\ ~bargeIn /\ prompt.kind \in {"denied", "taken"} => ~HasUnknownAppointment

\* A caller's yes leads to a verdict: every outcome, error and timeout of the POST has
\* one.  He hears it unless he talks over it or TTS has no audio for it.
VerdictGiven ==
    ~bargeIn /\ request.op = "book" ~> prompt.kind \in {"booked", "taken", "denied"}

-----------------------------------------------------------------------------
(* What the repository says of the program, and the program does not do. *)

\* What a prompt of the dialogue invites the caller to say.
Invited(s) ==
    CASE s = "type"    -> {"number"}
      [] s = "phone"   -> {"phone"}
      [] s = "date"    -> {"date"}
      [] s = "slot"    -> {"number"}
      [] s = "confirm" -> {"yes", "decline"}
      [] OTHER         -> {}

\* "Please say yes or no", "by saying its number", "or a date like 2026-10-25": an
\* answer the prompt of the stage asks for is not dropped as noise, where it is not
\* STT that fails.
InvitedAnswersAreHeard ==
    [][HeardNothing /\ reliable => said.kind \notin Invited(stage)]_vars

\* "No appointment has been made." (main.py:645) is said to a caller who has none he
\* does not know of.
TruthfulDenial == prompt.kind \in {"denied", "taken"} => ~HasUnknownAppointment

=============================================================================
