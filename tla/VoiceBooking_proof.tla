---- MODULE VoiceBooking_proof ----
(* What the caller is told of his appointments, and what is booked for him,   *)
(* for any number of slots, and however requests, interruptions and the       *)
(* bookings of others interleave.                                             *)
EXTENDS VoiceBooking, FiniteSetTheorems, TLAPS

RequestRec ==
    [op : {"none", "types", "availability", "book"},
     n : 0 .. NumSlots + 2, slots : SUBSET Slots,
     answer : {"none", "pending", "ok", "conflict", "error"}]

PromptRec ==
    [kind : {"none", "ask", "again", "offer", "confirm", "taken", "booked", "denied"},
     slot : Slots \cup {0}]

\* TypeOK in two parts: the flow, and the rest.
FlowOK ==
    /\ stage \in {"none", "type", "name", "phone", "reason", "date", "slot", "confirm"}
    /\ types \in 0 .. 2
    /\ offered \in Seq(Slots) /\ selected \in Slots \cup {0}
    /\ stage # "none" => types > 0
    /\ stage \in {"slot", "confirm"} => offered # <<>>
    /\ stage = "confirm" => selected \in ToSet(offered)

RestOK ==
    /\ reliable \in BOOLEAN /\ bargeIn \in BOOLEAN
    /\ turn \in {"listening", "stt", "api", "speaking"}
    /\ said \in Utterance
    /\ request \in RequestRec
    /\ orphans \subseteq Slots
    /\ prompt \in PromptRec
    /\ calendar \in [Slots -> {"free", "other", "mine", "told"}]
    /\ cancelled \subseteq Slots
    /\ asked \in Slots \cup {0} /\ heard \in BOOLEAN
    /\ consent \in [Slots -> {"none", "unheard", "heard"}]

\* The slots the caller said yes to.
Agreed == {s \in Slots : consent[s] # "none"}

\* A request is awaited in the stage that made it, and a booking is of the slot the
\* flow holds and the caller agreed to.
RequestFitsStage ==
    /\ turn = "api" <=> request.op # "none"
    /\ request.op = "types" => stage = "none" /\ request.n \in 0 .. 2
    /\ request.op = "availability" => stage = "date"
    /\ request.op = "book" => stage = "confirm" /\ request.n = selected /\ selected \in Agreed

\* In the stage confirm the last question was about the slot the flow holds, and
\* what was said last is not a denial of an earlier one.
AsksWhatItBooks ==
    stage = "confirm" => asked = selected /\ prompt.kind \notin {"denied", "taken"}

\* With speech that works and no barge-in the caller heard the question before he
\* could answer it.
HeardWhatHeAnswers ==
    reliable /\ ~bargeIn =>
        /\ stage = "confirm" => heard \/ (turn = "speaking" /\ prompt.kind = "confirm")
        /\ \A s \in Slots : consent[s] # "unheard"

\* What was or may still be booked was agreed to; what was booked is the call's, unless
\* it was cancelled.
Accounted ==
    /\ orphans \subseteq Agreed
    /\ \A s \in Slots : calendar[s] \in {"mine", "told"} => s \in Agreed
    /\ request.op = "book" /\ request.answer = "ok" =>
          calendar[request.n] = "mine" \/ request.n \in cancelled

\* With answers in time and no barge-in the agent knows of every booking, or is about
\* to: the answer has come.
NothingForgotten ==
    reliable /\ ~bargeIn =>
        /\ orphans = {}
        /\ \A s \in Slots : calendar[s] = "mine" =>
              request.op = "book" /\ request.answer = "ok" /\ request.n = s

ConfirmsASlot == prompt.kind = "booked" => prompt.slot \in Slots

\* The inductive invariant.
IInv ==
    /\ FlowOK /\ RestOK
    /\ RequestFitsStage /\ AsksWhatItBooks /\ HeardWhatHeAnswers
    /\ Accounted /\ NothingForgotten
    /\ TruthfulConfirmation /\ ConfirmsASlot

USE DEF Agreed

LEMMA SlotFacts ==
    /\ NumSlots \in Nat /\ NumSlots > 0 /\ 0 \notin Slots
    /\ \A s \in Slots : s \in 0 .. NumSlots + 2
    /\ \A d \in Dates : d \in 0 .. NumSlots + 2
    /\ {0, 1, 2} \subseteq 0 .. NumSlots + 2
  BY VoiceAssumption DEF Slots, Dates

LEMMA TypeParts == TypeOK <=> FlowOK /\ RestOK
  BY DEF TypeOK, FlowOK, RestOK, RequestRec, PromptRec

LEMMA NoRequestIs == NoRequest \in RequestRec /\ NoRequest.op = "none"
  BY SlotFacts DEF NoRequest, RequestRec

LEMMA SilenceIs == Silence \in Utterance
  BY DEF Silence, Utterance

LEMMA InitIInv == Init => IInv
<1> SUFFICES ASSUME Init PROVE IInv
  OBVIOUS
<1>1. FlowOK
  BY DEF Init, FlowOK
<1>2. reliable \in BOOLEAN /\ bargeIn \in BOOLEAN
  BY DEF Init
<1>3. said \in Utterance /\ prompt \in PromptRec
  BY DEF Init, Silence, Utterance, PromptRec
<1>4. calendar \in [Slots -> {"free", "other", "mine", "told"}]
      /\ \A s \in Slots : calendar[s] \in {"free", "other"}
  BY DEF Init
<1>5. RestOK
  BY <1>2, <1>3, <1>4, NoRequestIs DEF Init, RestOK
<1>6. RequestFitsStage /\ AsksWhatItBooks /\ Accounted /\ TruthfulConfirmation /\ ConfirmsASlot
  BY <1>4, NoRequestIs
  DEF Init, RequestFitsStage, AsksWhatItBooks, Accounted, TruthfulConfirmation, ConfirmsASlot
<1>7. NothingForgotten /\ HeardWhatHeAnswers
  BY <1>4 DEF Init, NothingForgotten, HeardWhatHeAnswers
<1> QED
  BY <1>1, <1>5, <1>6, <1>7 DEF IInv

----------------------------------------------------------------------------
(* What the steps of the dialogue have in common                              *)

\* A reply, other than that of a booking, keeps the invariant if the flow it leaves
\* does and no answer to a booking is thrown away.
LEMMA SpeakKeeps ==
    ASSUME IInv,
           NEW kind \in {"ask", "again", "offer", "confirm", "taken", "denied"},
           NEW slot \in Slots \cup {0},
           Speak(kind, slot), turn # "speaking", said' \in Utterance,
           UNCHANGED <<calendar, cancelled, reliable, bargeIn, consent>>,
           FlowOK',
           stage' = "confirm" =>
               \/ kind = "confirm" /\ slot = selected'
               \/ kind = "again" /\ UNCHANGED <<stage, selected>>,
           reliable => ~ (request.op = "book" /\ request.answer = "ok"),
           orphans' \subseteq Agreed, orphans' \subseteq Slots,
           reliable /\ ~ bargeIn => orphans' = {}
    PROVE  IInv'
<1> USE DEF IInv
<1>1. /\ prompt' \in PromptRec /\ prompt'.kind = kind
      /\ asked' \in Slots \cup {0} /\ heard' \in BOOLEAN
      /\ kind = "confirm" => asked' = slot
      /\ kind = "again" => asked' = asked /\ heard' = heard
  BY DEF Speak, PromptRec, RestOK
<1>2. request' \in RequestRec /\ request'.op = "none" /\ turn' = "speaking"
  BY NoRequestIs DEF Speak
<1>3. RestOK'
  BY <1>1, <1>2 DEF RestOK
<1>4. RequestFitsStage' /\ Accounted'
  BY <1>2 DEF RequestFitsStage, Accounted
<1>5. AsksWhatItBooks'
  BY <1>1 DEF AsksWhatItBooks
<1>6. NothingForgotten'
  BY DEF NothingForgotten
<1>7. HeardWhatHeAnswers'
  BY <1>1, <1>2 DEF HeardWhatHeAnswers
<1>8. TruthfulConfirmation' /\ ConfirmsASlot'
  BY <1>1 DEF TruthfulConfirmation, ConfirmsASlot
<1> QED
  BY <1>3, <1>4, <1>5, <1>6, <1>7, <1>8

\* So does a request, made where there is none.
LEMMA AskKeeps ==
    ASSUME IInv, request.op = "none", turn = "stt", said' \in Utterance,
           NEW op \in {"types", "availability", "book"}, NEW n \in 0 .. NumSlots + 2,
           Ask(op, n),
           UNCHANGED <<flowVars, orphans, calendar, cancelled, reliable, bargeIn>>,
           consent' \in [Slots -> {"none", "unheard", "heard"}], Agreed \subseteq Agreed',
           reliable /\ ~ bargeIn => \A s \in Slots : consent'[s] # "unheard",
           op = "types" => stage = "none" /\ n = 0,
           op = "availability" => stage = "date",
           op = "book" => stage = "confirm" /\ n = selected /\ selected \in Agreed'
    PROVE  IInv'
<1> USE DEF IInv
<1>1. request' \in RequestRec /\ request'.op = op /\ request'.n = n
      /\ request'.answer = "pending" /\ turn' = "api"
  BY DEF Ask, RequestRec
<1>2. prompt' = prompt /\ asked' = asked /\ heard' = heard
  BY DEF Ask
<1>3. FlowOK'
  BY DEF FlowOK, flowVars
<1>4. RestOK'
  BY <1>1, <1>2 DEF RestOK
<1>5. RequestFitsStage'
  BY <1>1 DEF RequestFitsStage, flowVars
<1>6. AsksWhatItBooks' /\ Accounted'
  BY <1>1, <1>2 DEF AsksWhatItBooks, Accounted, flowVars
<1>7. NothingForgotten' /\ TruthfulConfirmation' /\ ConfirmsASlot'
  BY <1>2 DEF NothingForgotten, TruthfulConfirmation, ConfirmsASlot
<1>8. HeardWhatHeAnswers'
  BY <1>1, <1>2 DEF HeardWhatHeAnswers, flowVars
<1> QED
  BY <1>3, <1>4, <1>5, <1>6, <1>7, <1>8

\* The flow is dropped, or stays as it is.
LEMMA DropKeeps == DropFlow => FlowOK' /\ stage' = "none"
  BY DEF DropFlow, FlowOK

LEMMA UnchangedFlow == FlowOK /\ UNCHANGED flowVars => FlowOK'
  BY DEF FlowOK, flowVars

----------------------------------------------------------------------------
(* The steps                                                                  *)

LEMMA HandleTurnKeeps ==
    ASSUME IInv, HandleTurn, UNCHANGED surroundings
    PROVE  IInv'
<1> USE DEF IInv
<1>0. UNCHANGED <<orphans, calendar, cancelled, reliable, bargeIn>>
  BY DEF HandleTurn, surroundings, calendarVars
<1>A. said' = Silence /\ Silence \in Utterance
  BY SilenceIs DEF HandleTurn
<1>B. /\ consent \in [Slots -> {"none", "unheard", "heard"}]
      /\ reliable /\ ~ bargeIn => \A s \in Slots : consent[s] # "unheard"
  BY DEF RestOK, HeardWhatHeAnswers
<1>1. ASSUME turn = "stt" PROVE request.op = "none"
  BY <1>1 DEF RequestFitsStage
<1>2. /\ orphans' \subseteq Agreed /\ orphans' \subseteq Slots
      /\ reliable /\ ~ bargeIn => orphans' = {}
  BY <1>0 DEF Accounted, RestOK, NothingForgotten
<1>3. ASSUME NEW s \in {"name", "phone", "reason", "date"}, stage # "none",
             Goto(s), Speak("ask", 0), UNCHANGED consent, turn = "stt"
      PROVE  IInv'
  <2>1. FlowOK' /\ stage' # "confirm"
    BY <1>3 DEF Goto, FlowOK
  <2> QED
    BY <1>0, <1>A, <1>1, <1>2, <1>3, <2>1, SpeakKeeps
<1>4. ASSUME Again, UNCHANGED consent, turn = "stt" PROVE IInv'
  <2>1. FlowOK' /\ UNCHANGED flowVars /\ Speak("again", 0)
    BY <1>4, UnchangedFlow DEF Again
  <2> QED
    BY <1>0, <1>A, <1>1, <1>2, <1>4, <2>1, SpeakKeeps DEF flowVars
<1>5. ASSUME DropFlow, Speak("denied", 0), UNCHANGED consent, turn = "stt" PROVE IInv'
  BY <1>0, <1>A, <1>1, <1>2, <1>5, DropKeeps, SpeakKeeps
<1>6. CASE StageNone
  <2>1. UNCHANGED <<flowVars, consent>> /\ turn = "stt" /\ stage = "none"
    BY <1>6 DEF StageNone, Handling
  <2>2. CASE said.kind = "book"
    <3>1. Ask("types", 0)
      BY <1>6, <2>1, <2>2 DEF StageNone
    <3> QED
      BY <1>0, <1>A, <1>B, <1>1, <2>1, <3>1, SlotFacts, AskKeeps
  <2>3. CASE said.kind # "book"
    <3>1. turn' = "listening" /\ UNCHANGED <<request, prompt, asked, heard>>
      BY <1>6, <2>3 DEF StageNone
    <3>2. RestOK' /\ FlowOK'
      BY <1>0, <1>A, <2>1, <3>1, UnchangedFlow DEF RestOK
    <3>3. RequestFitsStage' /\ AsksWhatItBooks' /\ Accounted' /\ NothingForgotten'
      BY <1>0, <1>A, <1>B, <1>1, <2>1, <3>1
      DEF RequestFitsStage, AsksWhatItBooks, Accounted, NothingForgotten, flowVars
    <3>4. HeardWhatHeAnswers' /\ TruthfulConfirmation' /\ ConfirmsASlot'
      BY <1>0, <1>B, <2>1, <3>1
      DEF HeardWhatHeAnswers, TruthfulConfirmation, ConfirmsASlot, flowVars
    <3> QED
      BY <3>2, <3>3, <3>4
  <2> QED
    BY <2>2, <2>3
<1>7. CASE CancelFlow
  BY <1>5, <1>7 DEF CancelFlow, Handling
<1>8. CASE StageType
  <2>1. turn = "stt" /\ UNCHANGED consent
    BY <1>8 DEF StageType, Continues, Handling
  <2>2. CASE /\ stage' = "name" /\ types' = 1 /\ UNCHANGED <<offered, selected>>
             /\ Speak("ask", 0)
    <3>1. FlowOK' /\ stage' # "confirm"
      BY <2>2 DEF FlowOK
    <3> QED
      BY <1>0, <1>A, <1>1, <1>2, <2>1, <2>2, <3>1, SpeakKeeps
  <2> QED
    BY <1>4, <1>8, <2>1, <2>2 DEF StageType
<1>9. CASE StageName
  BY <1>3, <1>4, <1>9 DEF StageName, Continues, Handling
<1>10. CASE StagePhone
  BY <1>3, <1>4, <1>10 DEF StagePhone, Continues, Handling
<1>11. CASE StageReason
  BY <1>3, <1>4, <1>11 DEF StageReason, Continues, Handling
<1>12. CASE StageDate
  <2>1. turn = "stt" /\ stage = "date" /\ UNCHANGED consent
    BY <1>12 DEF StageDate, Continues, Handling
  <2>2. CASE said.kind = "date"
    <3>1. said.n \in Dates
      BY <2>2 DEF RestOK, Utterance
    <3>2. Ask("availability", said.n) /\ UNCHANGED flowVars
      BY <1>12, <2>1, <2>2 DEF StageDate
    <3> QED
      BY <1>0, <1>A, <1>B, <1>1, <2>1, <3>1, <3>2, SlotFacts, AskKeeps
  <2> QED
    BY <1>4, <1>12, <2>1, <2>2 DEF StageDate
<1>13. CASE StageSlot
  <2>1. turn = "stt" /\ stage = "slot" /\ UNCHANGED consent
    BY <1>13 DEF StageSlot, Continues, Handling
  <2>2. PICK i \in ChoiceIndex(said, Len(offered)) :
            IF i = 0
            THEN Again
            ELSE /\ selected' = offered[i]
                 /\ stage' = "confirm"
                 /\ Speak("confirm", offered[i])
                 /\ UNCHANGED <<types, offered>>
    BY <1>13 DEF StageSlot
  <2>3. offered \in Seq(Slots) /\ Len(offered) \in Nat
    BY DEF FlowOK
  <2>4. i \in 0 .. Len(offered)
    <3>1. CASE said.kind = "number"
      <4>1. said.n \in 1 .. MaxOffer
        BY <3>1 DEF RestOK, Utterance
      <4>2. i = IF said.n <= Len(offered) THEN said.n ELSE 0
        BY <3>1, <2>2 DEF ChoiceIndex
      <4> QED
        BY <4>1, <4>2, <2>3, VoiceAssumption
    <3>2. CASE said.kind # "number"
      BY <3>2, <2>2 DEF ChoiceIndex
    <3> QED
      BY <3>1, <3>2
  <2>5. CASE i # 0
    <3>1. i \in DOMAIN offered /\ offered[i] \in Slots
      BY <2>3, <2>4, <2>5
    <3>2. offered[i] \in ToSet(offered) /\ offered # <<>>
      BY <3>1, <2>1 DEF ToSet, FlowOK
    <3>3. /\ selected' = offered[i] /\ stage' = "confirm" /\ Speak("confirm", offered[i])
          /\ UNCHANGED <<types, offered>>
      BY <2>2, <2>5
    <3>4. FlowOK'
      BY <2>1, <3>1, <3>2, <3>3 DEF FlowOK
    <3> QED
      BY <1>0, <1>A, <1>1, <1>2, <2>1, <3>1, <3>3, <3>4, SpeakKeeps
  <2> QED
    BY <1>4, <2>1, <2>2, <2>5
<1>14. CASE StageConfirm
  <2>1. turn = "stt" /\ stage = "confirm"
    BY <1>14 DEF StageConfirm, Continues, Handling
  <2>2. CASE said.kind = "yes"
    <3>1. /\ Ask("book", selected) /\ UNCHANGED flowVars
          /\ consent' = [consent EXCEPT ![asked] = IF heard THEN "heard" ELSE "unheard"]
      BY <1>14, <2>2 DEF StageConfirm
    <3>2. selected \in Slots /\ asked = selected
      BY <2>1 DEF FlowOK, ToSet, AsksWhatItBooks
    <3>3. reliable /\ ~ bargeIn => heard
      BY <2>1 DEF HeardWhatHeAnswers
    <3>4. /\ consent' \in [Slots -> {"none", "unheard", "heard"}]
          /\ Agreed \subseteq Agreed' /\ selected \in Agreed'
          /\ reliable /\ ~ bargeIn => \A s \in Slots : consent'[s] # "unheard"
      BY <1>B, <3>1, <3>2, <3>3
    <3>5. selected \in 0 .. NumSlots + 2
      BY <3>2, SlotFacts
    <3> QED
      BY <1>0, <1>A, <1>1, <2>1, <3>1, <3>4, <3>5, AskKeeps
  <2>3. CASE said.kind = "decline"
    BY <1>5, <1>14, <2>1, <2>3 DEF StageConfirm
  <2>4. CASE said.kind \notin {"yes", "decline"}
    BY <1>4, <1>14, <2>1, <2>4 DEF StageConfirm
  <2> QED
    BY <2>2, <2>3, <2>4
<1> QED
  BY <1>6, <1>7, <1>8, <1>9, <1>10, <1>11, <1>12, <1>13, <1>14 DEF HandleTurn

\* An answer changes neither the flow nor what the caller heard and said; a booking
\* is answered with success only if the slot became the call's.
LEMMA ServerKeeps ==
    ASSUME IInv, request.answer = "pending",
           UNCHANGED <<flowVars, turn, said, orphans, prompt, asked, heard, consent>>,
           UNCHANGED <<reliable, bargeIn>>,
           request' \in RequestRec, request'.op = request.op,
           request'.n = request.n \/ (request.op = "types" /\ request'.n \in 0 .. 2),
           \/ /\ UNCHANGED <<calendar, cancelled>>
              /\ request'.op = "book" => request'.answer # "ok"
           \/ /\ request.op = "book" /\ calendar[request.n] = "free"
              /\ request'.answer = "ok" \/ ~ reliable
              /\ calendar' = [calendar EXCEPT ![request.n] = "mine"]
              /\ cancelled' = cancelled \ {request.n}
    PROVE  IInv'
<1> USE DEF IInv
<1>1. request.op = "book" => request.n \in Slots /\ request.n \in Agreed /\ request'.n = request.n
  BY DEF RequestFitsStage, RestOK
<1>2. calendar' \in [Slots -> {"free", "other", "mine", "told"}] /\ cancelled' \subseteq Slots
  BY <1>1 DEF RestOK
<1>3. FlowOK' /\ RestOK'
  BY <1>2, UnchangedFlow DEF RestOK
<1>4. RequestFitsStage' /\ AsksWhatItBooks'
  BY DEF RequestFitsStage, AsksWhatItBooks, flowVars
<1>5. Accounted'
  BY <1>1 DEF Accounted, RestOK
<1>6. NothingForgotten'
  BY <1>1 DEF NothingForgotten, RestOK
<1>7. HeardWhatHeAnswers'
  BY DEF HeardWhatHeAnswers, flowVars
<1>8. TruthfulConfirmation' /\ ConfirmsASlot'
  BY <1>1 DEF TruthfulConfirmation, ConfirmsASlot, RestOK
<1> QED
  BY <1>3, <1>4, <1>5, <1>6, <1>7, <1>8

LEMMA ServersKeep ==
    ASSUME IInv, UNCHANGED surroundings,
           ServeTypes \/ ServeAvailability \/ ServeBooking \/ ServerError
    PROVE  IInv'
<1> USE DEF IInv
<1>0. request \in RequestRec /\ UNCHANGED <<reliable, bargeIn>>
  BY DEF RestOK, surroundings
<1>1. CASE ServeTypes
  <2>1. request.op = "types" /\ request.answer = "pending"
        /\ UNCHANGED <<flowVars, turn, said, orphans, prompt, calendar, cancelled>>
        /\ UNCHANGED <<asked, heard, consent>>
    BY <1>1 DEF ServeTypes, askVars, calendarVars
  <2>2. PICK n \in 0 .. 2 : request' = [request EXCEPT !.n = n, !.answer = "ok"]
    BY <1>1 DEF ServeTypes
  <2>3. n \in 0 .. NumSlots + 2
    BY SlotFacts
  <2>4. request' \in RequestRec /\ request'.op = request.op /\ request'.n \in 0 .. 2
    BY <1>0, <2>2, <2>3 DEF RequestRec
  <2> QED
    BY <1>0, <2>1, <2>4, ServerKeeps
<1>2. CASE ServeAvailability
  <2>1. request.op = "availability" /\ request.answer = "pending"
        /\ UNCHANGED <<flowVars, turn, said, orphans, prompt, calendar, cancelled>>
        /\ UNCHANGED <<asked, heard, consent>>
    BY <1>2 DEF ServeAvailability, askVars, calendarVars
  <2>2. FirstOf(Openings(request.n)) \subseteq Slots
    BY DEF FirstOf, Openings
  <2>3. request' \in RequestRec /\ request'.op = request.op /\ request'.n = request.n
    BY <1>0, <1>2, <2>2 DEF ServeAvailability, RequestRec
  <2> QED
    BY <1>0, <2>1, <2>3, ServerKeeps
<1>3. CASE ServeBooking
  <2>1. request.op = "book" /\ request.answer = "pending" /\ Book(request.n)
        /\ UNCHANGED <<flowVars, turn, said, orphans, prompt, asked, heard, consent>>
    BY <1>3 DEF ServeBooking, askVars
  <2>2. request' \in RequestRec /\ request'.op = request.op /\ request'.n = request.n
        /\ request'.answer = IF calendar[request.n] = "free" THEN "ok" ELSE "conflict"
    BY <1>0, <1>3 DEF ServeBooking, RequestRec
  <2>3. CASE calendar[request.n] = "free"
    BY <1>0, <2>1, <2>2, <2>3, ServerKeeps DEF Book, calendarVars
  <2>4. CASE calendar[request.n] # "free"
    BY <1>0, <2>1, <2>2, <2>4, ServerKeeps DEF Book, calendarVars
  <2> QED
    BY <2>3, <2>4
<1>4. CASE ServerError
  <2>1. request.answer = "pending" /\ ~ reliable
        /\ UNCHANGED <<flowVars, turn, said, orphans, prompt, asked, heard, consent>>
    BY <1>4 DEF ServerError, askVars
  <2>2. request' \in RequestRec /\ request'.op = request.op /\ request'.n = request.n
        /\ request'.answer = "error"
    BY <1>0, <1>4 DEF ServerError, RequestRec
  <2>3. \/ UNCHANGED <<calendar, cancelled>>
        \/ /\ request.op = "book" /\ calendar[request.n] = "free"
           /\ calendar' = [calendar EXCEPT ![request.n] = "mine"]
           /\ cancelled' = cancelled \ {request.n}
    BY <1>4 DEF ServerError, Book, calendarVars
  <2> QED
    BY <1>0, <2>1, <2>2, <2>3, ServerKeeps
<1> QED
  BY <1>1, <1>2, <1>3, <1>4

LEMMA ServeOrphanKeeps ==
    ASSUME IInv, UNCHANGED surroundings, ServeOrphan
    PROVE  IInv'
<1> USE DEF IInv
<1>1. PICK s \in orphans :
          /\ orphans' = orphans \ {s}
          /\ Book(s) \/ UNCHANGED calendarVars
          /\ UNCHANGED <<flowVars, turn, said, request, prompt, asked, heard, consent>>
  BY DEF ServeOrphan, askVars, calendarVars
<1>2. UNCHANGED <<reliable, bargeIn>> /\ s \in Slots /\ s \in Agreed /\ ~ (reliable /\ ~ bargeIn)
  BY <1>1 DEF surroundings, RestOK, Accounted, NothingForgotten
<1>3. \/ UNCHANGED <<calendar, cancelled>>
      \/ /\ calendar[s] = "free" /\ calendar' = [calendar EXCEPT ![s] = "mine"]
         /\ cancelled' = cancelled \ {s}
  BY <1>1 DEF Book, calendarVars
<1>4. FlowOK' /\ RestOK'
  BY <1>1, <1>2, <1>3, UnchangedFlow DEF RestOK
<1>5. RequestFitsStage' /\ AsksWhatItBooks'
  BY <1>1 DEF RequestFitsStage, AsksWhatItBooks, flowVars
<1>6. Accounted'
  BY <1>1, <1>2, <1>3 DEF Accounted, RestOK, RequestFitsStage
<1>7. NothingForgotten'
  BY <1>2 DEF NothingForgotten
<1>8. HeardWhatHeAnswers'
  BY <1>1, <1>2 DEF HeardWhatHeAnswers, flowVars
<1>9. TruthfulConfirmation' /\ ConfirmsASlot'
  BY <1>1, <1>2, <1>3 DEF TruthfulConfirmation, ConfirmsASlot, RestOK
<1> QED
  BY <1>4, <1>5, <1>6, <1>7, <1>8, <1>9

\* What others book and what the dashboard cancels makes no slot the call's.
LEMMA OthersBookKeeps ==
    ASSUME IInv, UNCHANGED surroundings, OthersBook \/ Cancel
    PROVE  IInv'
<1> USE DEF IInv
<1>1. PICK s \in Slots :
          /\ \/ /\ calendar[s] = "free" /\ cancelled' = cancelled
                /\ calendar' = [calendar EXCEPT ![s] = "other"]
             \/ /\ calendar' = [calendar EXCEPT ![s] = "free"]
                /\ cancelled' = IF calendar[s] = "other" THEN cancelled ELSE cancelled \cup {s}
          /\ UNCHANGED <<flowVars, turn, said, request, orphans, prompt, asked, heard, consent>>
  BY DEF OthersBook, Cancel, askVars
<1>2. UNCHANGED <<reliable, bargeIn>>
  BY DEF surroundings
<1>3. /\ calendar' \in [Slots -> {"free", "other", "mine", "told"}] /\ cancelled' \subseteq Slots
      /\ \A x \in Slots : calendar'[x] \in {"mine", "told"} => calendar'[x] = calendar[x]
      /\ \A x \in Slots : calendar[x] \in {"mine", "told"} =>
            calendar'[x] = calendar[x] \/ x \in cancelled'
      /\ cancelled \subseteq cancelled'
  BY <1>1 DEF RestOK
<1>4. FlowOK' /\ RestOK'
  BY <1>1, <1>2, <1>3, UnchangedFlow DEF RestOK
<1>5. RequestFitsStage' /\ AsksWhatItBooks'
  BY <1>1 DEF RequestFitsStage, AsksWhatItBooks, flowVars
<1>6. request.op = "book" => request.n \in Slots
  BY DEF RequestFitsStage, RestOK
<1>7. Accounted'
  BY <1>1, <1>3, <1>6 DEF Accounted
<1>8. NothingForgotten'
  BY <1>1, <1>2, <1>3 DEF NothingForgotten
<1>9. HeardWhatHeAnswers'
  BY <1>1, <1>2 DEF HeardWhatHeAnswers, flowVars
<1>10. TruthfulConfirmation' /\ ConfirmsASlot'
  BY <1>1, <1>3 DEF TruthfulConfirmation, ConfirmsASlot
<1> QED
  BY <1>4, <1>5, <1>7, <1>8, <1>9, <1>10

LEMMA InOrderIs ==
    ASSUME NEW S, S \subseteq Slots, S # {}, NEW q \in InOrder(S)
    PROVE  q \in Seq(Slots) /\ q # <<>>
<1>1. IsFiniteSet(S)
  <2>1. IsFiniteSet(Slots)
    BY SlotFacts, FS_Interval DEF Slots
  <2> QED
    BY <2>1, FS_Subset
<1>2. Cardinality(S) \in Nat /\ Cardinality(S) # 0
  BY <1>1, FS_CardinalityType, FS_EmptySet
<1>3. q \in [1 .. Cardinality(S) -> Slots]
  BY DEF InOrder
<1>4. q \in Seq(Slots) /\ Len(q) = Cardinality(S)
  BY <1>2, <1>3
<1> QED
  BY <1>2, <1>4

LEMMA BookedKeeps ==
    ASSUME IInv, Booked, UNCHANGED <<said, consent, reliable, bargeIn>>
    PROVE  IInv'
<1> USE DEF IInv
<1>1. request.op = "book" /\ request.answer = "ok" /\ stage = "confirm" /\ request.n = selected
      /\ selected \in Slots /\ selected \in Agreed
  BY DEF Booked, Answered, RequestFitsStage, FlowOK, ToSet
<1>2. calendar[selected] = "mine" \/ selected \in cancelled
  BY <1>1 DEF Accounted
<1>3. /\ calendar' \in [Slots -> {"free", "other", "mine", "told"}] /\ cancelled' = cancelled
      /\ calendar'[selected] = IF calendar[selected] = "mine" THEN "told" ELSE calendar[selected]
      /\ \A s \in Slots : s # selected => calendar'[s] = calendar[s]
  BY <1>1 DEF Booked, RestOK
<1>4. /\ turn' = "speaking" /\ request' \in RequestRec /\ request'.op = "none"
      /\ prompt' \in PromptRec /\ prompt'.kind = "booked" /\ prompt'.slot = selected
      /\ asked' = 0 /\ heard' = FALSE /\ orphans' = orphans
  BY <1>1, NoRequestIs DEF Booked, Speak, PromptRec
<1>5. FlowOK' /\ stage' = "none"
  BY DropKeeps DEF Booked
<1>6. RestOK'
  BY <1>3, <1>4 DEF RestOK
<1>7. RequestFitsStage' /\ AsksWhatItBooks' /\ Accounted'
  BY <1>1, <1>3, <1>4, <1>5 DEF RequestFitsStage, AsksWhatItBooks, Accounted
<1>8. NothingForgotten'
  BY <1>1, <1>3, <1>4 DEF NothingForgotten
<1>9. HeardWhatHeAnswers'
  BY <1>5 DEF HeardWhatHeAnswers
<1>10. TruthfulConfirmation' /\ ConfirmsASlot'
  BY <1>1, <1>2, <1>3, <1>4 DEF TruthfulConfirmation, ConfirmsASlot
<1> QED
  BY <1>5, <1>6, <1>7, <1>8, <1>9, <1>10

LEMMA ReceiveAnswerKeeps ==
    ASSUME IInv, ReceiveAnswer, UNCHANGED surroundings
    PROVE  IInv'
<1> USE DEF IInv
<1>0. UNCHANGED <<said, consent, reliable, bargeIn>>
  BY DEF ReceiveAnswer, surroundings
<1>A. turn = "api" /\ said' \in Utterance
  BY <1>0 DEF ReceiveAnswer, TypesKnown, SlotsKnown, Booked, Taken, Failed, Answered, RestOK
<1>1. ASSUME UNCHANGED orphans
      PROVE  /\ orphans' \subseteq Agreed /\ orphans' \subseteq Slots
             /\ reliable /\ ~ bargeIn => orphans' = {}
  BY <1>1 DEF Accounted, RestOK, NothingForgotten
<1>2. CASE TypesKnown
  <2>1. /\ request.op = "types" /\ request.answer = "ok" /\ stage = "none"
        /\ request.n \in 0 .. 2 /\ UNCHANGED <<calendar, cancelled, orphans>>
    BY <1>2 DEF TypesKnown, Answered, RequestFitsStage, calendarVars
  <2>2. CASE request.n = 0
    <3>1. FlowOK' /\ Speak("again", 0) /\ stage' = "none"
      BY <1>2, <2>1, <2>2, UnchangedFlow DEF TypesKnown, flowVars
    <3> QED
      BY <1>0, <1>A, <1>1, <2>1, <3>1, SpeakKeeps
  <2>3. CASE request.n # 0
    <3>1. /\ stage' \in {"type", "name"} /\ types' = request.n /\ offered' = <<>>
          /\ selected' = 0 /\ Speak("ask", 0)
      BY <1>2, <2>3 DEF TypesKnown
    <3>2. FlowOK' /\ stage' # "confirm"
      BY <2>1, <2>3, <3>1 DEF FlowOK
    <3> QED
      BY <1>0, <1>A, <1>1, <2>1, <3>1, <3>2, SpeakKeeps
  <2> QED
    BY <2>2, <2>3
<1>3. CASE SlotsKnown
  <2>1. /\ request.op = "availability" /\ stage = "date" /\ request.slots \subseteq Slots
        /\ UNCHANGED <<calendar, cancelled, orphans>>
    BY <1>3 DEF SlotsKnown, Answered, RequestFitsStage, RestOK, RequestRec, calendarVars
  <2>2. CASE request.slots = {}
    <3>1. FlowOK' /\ Speak("again", 0) /\ stage' = "date"
      BY <1>3, <2>1, <2>2, UnchangedFlow DEF SlotsKnown, Again, flowVars
    <3> QED
      BY <1>0, <1>A, <1>1, <2>1, <3>1, SpeakKeeps
  <2>3. CASE request.slots # {}
    <3>1. /\ offered' \in InOrder(request.slots) /\ stage' = "slot"
          /\ UNCHANGED <<types, selected>> /\ Speak("offer", 0)
      BY <1>3, <2>3 DEF SlotsKnown
    <3>2. offered' \in Seq(Slots) /\ offered' # <<>>
      BY <2>1, <2>3, <3>1, InOrderIs
    <3>3. FlowOK'
      BY <2>1, <3>1, <3>2 DEF FlowOK
    <3> QED
      BY <1>0, <1>A, <1>1, <2>1, <3>1, <3>3, SpeakKeeps
  <2> QED
    BY <2>2, <2>3
<1>4. CASE Booked
  BY <1>0, <1>4, BookedKeeps
<1>5. CASE Taken
  <2>1. /\ request.answer = "conflict" /\ UNCHANGED <<calendar, cancelled, orphans>>
        /\ request.op = "book" /\ stage = "confirm" /\ selected \in Slots \cup {0}
        /\ stage' = "date" /\ offered' = <<>> /\ selected' = 0 /\ types' = types
        /\ Speak("taken", selected)
    BY <1>5 DEF Taken, Answered, RequestFitsStage, FlowOK, calendarVars
  <2>2. FlowOK'
    BY <2>1 DEF FlowOK
  <2> QED
    BY <1>0, <1>A, <1>1, <2>1, <2>2, SpeakKeeps
<1>6. CASE Failed
  <2>1. ~ reliable /\ Speak("denied", 0) /\ UNCHANGED <<calendar, cancelled>>
        /\ (IF request.op = "book" THEN DropFlow ELSE UNCHANGED flowVars)
    BY <1>6 DEF Failed, calendarVars
  <2>2. FlowOK' /\ stage' # "confirm"
    <3>1. CASE request.op = "book"
      BY <2>1, <3>1, DropKeeps
    <3>2. CASE request.op # "book"
      <4>1. stage \in {"none", "date"}
        BY <1>6, <3>2 DEF Failed, RequestFitsStage, RestOK, RequestRec
      <4> QED
        BY <2>1, <3>2, <4>1, UnchangedFlow DEF flowVars
    <3> QED
      BY <3>1, <3>2
  <2>3. orphans' \subseteq Agreed /\ orphans' \subseteq Slots
    BY <1>6 DEF Failed, Orphaned, Accounted, RequestFitsStage, RestOK
  <2> QED
    BY <1>0, <1>A, <2>1, <2>2, <2>3, SpeakKeeps
<1> QED
  BY <1>2, <1>3, <1>4, <1>5, <1>6 DEF ReceiveAnswer

LEMMA CallerKeeps ==
    ASSUME IInv, UNCHANGED surroundings,
           (\E u \in Utterance : Say(u)) \/ HeardNothing \/ Spoken
    PROVE  IInv'
<1> USE DEF IInv
<1>1. /\ turn # "api" /\ turn' \in {"listening", "stt"} /\ said' \in Utterance
      /\ UNCHANGED <<flowVars, request, orphans, prompt, calendar, cancelled, asked, consent>>
      /\ UNCHANGED <<reliable, bargeIn>>
  BY SilenceIs DEF Say, HeardNothing, Spoken, askVars, calendarVars, surroundings, RestOK
<1>2. /\ heard' \in BOOLEAN
      /\ reliable => (heard \/ (turn = "speaking" /\ prompt.kind = "confirm") => heard')
  BY DEF Say, HeardNothing, Spoken, askVars, RestOK
<1>3. FlowOK' /\ RestOK'
  BY <1>1, <1>2, UnchangedFlow DEF RestOK
<1>4. RequestFitsStage' /\ AsksWhatItBooks' /\ Accounted' /\ NothingForgotten'
  BY <1>1 DEF RequestFitsStage, AsksWhatItBooks, Accounted, NothingForgotten, flowVars
<1>5. HeardWhatHeAnswers'
  BY <1>1, <1>2 DEF HeardWhatHeAnswers, flowVars
<1>6. TruthfulConfirmation' /\ ConfirmsASlot'
  BY <1>1 DEF TruthfulConfirmation, ConfirmsASlot
<1> QED
  BY <1>3, <1>4, <1>5, <1>6

\* What the caller interrupts is a request he agreed to, if it is a booking.
LEMMA InterruptKeeps ==
    ASSUME IInv, UNCHANGED surroundings, Interrupt
    PROVE  IInv'
<1> USE DEF IInv
<1>1. /\ bargeIn /\ turn' = "listening" /\ request' = NoRequest /\ Orphaned
      /\ UNCHANGED <<flowVars, prompt, calendar, cancelled, asked, heard, consent>>
      /\ UNCHANGED <<reliable, bargeIn>> /\ said' \in Utterance
  BY SilenceIs DEF Interrupt, askVars, calendarVars, surroundings
<1>2. request' \in RequestRec /\ request'.op = "none"
  BY <1>1, NoRequestIs
<1>3. orphans' \subseteq Agreed /\ orphans' \subseteq Slots
  BY <1>1 DEF Orphaned, Accounted, RequestFitsStage, RestOK
<1>4. FlowOK' /\ RestOK'
  BY <1>1, <1>2, <1>3, UnchangedFlow DEF RestOK
<1>5. RequestFitsStage' /\ AsksWhatItBooks' /\ Accounted' /\ NothingForgotten'
  BY <1>1, <1>2, <1>3 DEF RequestFitsStage, AsksWhatItBooks, Accounted, NothingForgotten, flowVars
<1>6. HeardWhatHeAnswers' /\ TruthfulConfirmation' /\ ConfirmsASlot'
  BY <1>1 DEF HeardWhatHeAnswers, TruthfulConfirmation, ConfirmsASlot
<1> QED
  BY <1>4, <1>5, <1>6

LEMMA NextIInv == IInv /\ [Next]_vars => IInv'
<1> SUFFICES ASSUME IInv, [Next]_vars PROVE IInv'
  OBVIOUS
<1>1. CASE Next
  BY <1>1, HandleTurnKeeps, ReceiveAnswerKeeps, ServersKeep, ServeOrphanKeeps,
     OthersBookKeeps, CallerKeeps, InterruptKeeps DEF Next, Step
<1>2. CASE UNCHANGED vars
  <2>1. UNCHANGED <<flowVars, turn, said, request, orphans, prompt, calendar, cancelled,
                    asked, heard, consent, reliable, bargeIn>>
    BY <1>2 DEF vars, dialogue, surroundings, askVars, calendarVars
  <2>2. FlowOK' /\ RestOK'
    BY <2>1, UnchangedFlow DEF IInv, RestOK
  <2>3. RequestFitsStage' /\ AsksWhatItBooks' /\ Accounted' /\ NothingForgotten'
    BY <2>1 DEF IInv, RequestFitsStage, AsksWhatItBooks, Accounted, NothingForgotten, flowVars
  <2>4. HeardWhatHeAnswers' /\ TruthfulConfirmation' /\ ConfirmsASlot'
    BY <2>1 DEF IInv, HeardWhatHeAnswers, TruthfulConfirmation, ConfirmsASlot, flowVars
  <2> QED
    BY <2>2, <2>3, <2>4 DEF IInv
<1> QED
  BY <1>1, <1>2

LEMMA Inductive == Spec => []IInv
<1>1. Init => IInv
  BY InitIInv
<1>2. IInv /\ [Next]_vars => IInv'
  BY NextIInv
<1> QED
  BY <1>1, <1>2, PTL DEF Spec

----------------------------------------------------------------------------
(* The theorems                                                               *)

\* Every variable keeps its type, and wherever a turn was cut off, the flow has what
\* its stage will look up: no later turn of handle_appointment_turn ends in a KeyError.
THEOREM TypeCorrect == Spec => []TypeOK
<1>1. IInv => TypeOK
  BY TypeParts DEF IInv
<1> QED
  BY <1>1, Inductive, PTL

\* No appointment is made for a call without a yes to the question about its slot,
\* however many slots, conflicts, interruptions and late answers there are; and the
\* caller heard that question to its end, if STT and TTS work and nobody talks over
\* the agent.  Without that premise handle_appointment_turn does not know what was heard.
THEOREM CallerConsented == Spec => []Consent
<1>1. IInv => Consent
  BY DEF IInv, RestOK, Accounted, HeardWhatHeAnswers, Consent
<1> QED
  BY <1>1, Inductive, PTL

\* When the agent says "Your appointment is booked for ...", the call has an
\* appointment in that slot, unless the dashboard has cancelled it, be it between the
\* commit and the answer.
THEOREM ConfirmationIsTrue == Spec => []TruthfulConfirmation
<1>1. IInv => TruthfulConfirmation
  BY DEF IInv
<1> QED
  BY <1>1, Inductive, PTL

\* "No appointment has been made" and "That time was just taken" are true, if servers
\* answer in time and the agent is not cut off: the premise the code needs, since the
\* run voice_false_denial refutes the claim without it.
THEOREM DenialWhenAnswered == Spec => []DenialIsTrueWhenAnswered
<1>1. IInv => DenialIsTrueWhenAnswered
  <2> SUFFICES ASSUME IInv, reliable, ~ bargeIn, prompt.kind \in {"denied", "taken"},
                      NEW s \in Slots, calendar[s] = "mine"
               PROVE  FALSE
    BY DEF DenialIsTrueWhenAnswered, HasUnknownAppointment
  <2>1. request.op = "book"
    BY DEF IInv, NothingForgotten
  <2>2. stage = "confirm"
    BY <2>1 DEF IInv, RequestFitsStage
  <2> QED
    BY <2>2 DEF IInv, AsksWhatItBooks
<1> QED
  BY <1>1, Inductive, PTL
=============================================================================
