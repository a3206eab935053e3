------------------------------- MODULE Booking -------------------------------
(***************************************************************************)
(* Booking in receptify-api (AppointmentBookingService and the check of    *)
(* AvailabilityService it makes), for one client workspace and one day.    *)
(*                                                                         *)
(* Every request is a Puma thread with its own database connection.  The   *)
(* statements of a request interleave with those of the others and with    *)
(* the dashboard's edits; each statement sees what is committed when it    *)
(* runs (PostgreSQL, READ COMMITTED), and rows a transaction has inserted  *)
(* are seen by nobody else before it commits.  with_lock holds the         *)
(* workspace's row from SELECT ... FOR UPDATE to the end of the            *)
(* transaction; the dashboard's edits take no lock.  The answer is sent    *)
(* after the commit and can be lost when the commit is not.                *)
(***************************************************************************)
EXTENDS Naturals, FiniteSets

CONSTANTS
    Requests,      \* requests to book, from the agent or from the dashboard
    Types,         \* appointment types of the workspace
    Durations,     \* the durations the dashboard gives them
    Horizon,       \* bound: the day's last point in time
    Rules,         \* the working hours and
    Blocks,        \* the closures the dashboard may enter: spans of the day
    NoOne          \* not a request

Times == 0 .. Horizon

\* A span of the day, of a rule's hours or of an exception (all day: the whole).
Spans == {s \in [from : Times, to : Times] : s.from < s.to}

ASSUME BookingAssumption ==
    /\ Horizon \in Nat
    /\ Rules \subseteq Spans /\ Blocks \subseteq Spans
    /\ Durations \subseteq Nat \ {0}
    /\ Durations # {}
    /\ NoOne \notin Requests

VARIABLES
    status, startsAt, endsAt,  \* the appointments table, by the request that made the row
    typeOf,        \* its appointment type
    duration,      \* appointment_types.duration_minutes
    active,        \* appointment_types.active
    exists,        \* the types that have not been destroyed
    doomed,        \* types whose destruction found no appointments and goes on
    hours,         \* availability_rules of the day
    closures,      \* availability_exceptions of the day
    lock,          \* the request that holds the workspace's row
    pc,            \* where each request is; "booking" (201), "conflict" (409), "refused"
                   \* (404, 422, 400) and "failed" (500, or no answer) are its answers
    length,        \* duration_minutes of the type it loaded
    seenClosures,  \* the exceptions it read
    seenBooked     \* the confirmed appointments it read

tableVars == <<status, startsAt, endsAt, typeOf>>
typeVars == <<duration, active, exists, doomed>>
requestVars == <<pc, length, seenClosures, seenBooked>>
vars == <<tableVars, typeVars, hours, closures, lock, requestVars>>

TypeOK ==
    /\ status \in [Requests -> {"none", "confirmed", "cancelled"}]
    /\ startsAt \in [Requests -> Times] /\ endsAt \in [Requests -> Times]
    /\ typeOf \in [Requests -> Types]
    /\ duration \in [Types -> Durations] /\ active \in [Types -> BOOLEAN]
    /\ exists \subseteq Types /\ doomed \subseteq Types
    /\ hours \subseteq Rules /\ closures \subseteq Blocks
    /\ lock \in Requests \cup {NoOne}
    /\ pc \in [Requests -> {"new", "loaded", "locked", "closures", "booked", "insert",
                            "created", "committed",
                            "booking", "conflict", "refused", "failed"}]
    /\ length \in [Requests -> Nat]
    /\ seenClosures \in [Requests -> SUBSET Blocks]
    /\ seenBooked \in [Requests -> SUBSET Requests]

Init ==
    /\ status = [r \in Requests |-> "none"]
    /\ startsAt \in [Requests -> Times]     \* the starts_at the caller asks for
    /\ endsAt = [r \in Requests |-> 0]
    /\ typeOf \in [Requests -> Types]       \* and the appointment_type_id
    /\ duration \in [Types -> Durations]
    /\ active = [t \in Types |-> TRUE]
    /\ exists = Types /\ doomed = {}
    /\ hours = Rules
    /\ closures = {}
    /\ lock = NoOne
    /\ pc = [r \in Requests |-> "new"]
    /\ length = [r \in Requests |-> 0]
    /\ seenClosures = [r \in Requests |-> {}]
    /\ seenBooked = [r \in Requests |-> {}]

Goto(r, label) == pc' = [pc EXCEPT ![r] = label]

Overlap(s1, e1, s2, e2) == s1 < e2 /\ e1 > s2

-----------------------------------------------------------------------------
(* A booking request *)

\* The request is not one to book: no confirmation (422), a parameter missing or
\* no time (400).
Refuse(r) ==
    /\ pc[r] = "new"
    /\ Goto(r, "refused")
    /\ UNCHANGED <<tableVars, typeVars, hours, closures, lock, length, seenClosures,
                   seenBooked>>

\* find_by!(id:, active: true), before the transaction; 404 without it.
LoadType(r) ==
    /\ pc[r] = "new"
    /\ IF typeOf[r] \in exists /\ active[typeOf[r]]
       THEN /\ Goto(r, "loaded")
            /\ length' = [length EXCEPT ![r] = duration[typeOf[r]]]
       ELSE Goto(r, "refused") /\ UNCHANGED length
    /\ UNCHANGED <<tableVars, typeVars, hours, closures, lock, seenClosures, seenBooked>>

\* Slip: transaction for with_lock.
LockNothing(r) ==
    /\ pc[r] = "loaded"
    /\ lock' = r
    /\ Goto(r, "locked")
    /\ UNCHANGED <<tableVars, typeVars, hours, closures, length, seenClosures, seenBooked>>

\* with_lock: the row of the workspace, once nobody holds it.
Lock(r) ==
    /\ pc[r] = "loaded" /\ lock = NoOne
    /\ lock' = r
    /\ Goto(r, "locked")
    /\ UNCHANGED <<tableVars, typeVars, hours, closures, length, seenClosures, seenBooked>>

\* day_slots, first query.
ReadClosures(r) ==
    /\ pc[r] = "locked"
    /\ seenClosures' = [seenClosures EXCEPT ![r] = closures]
    /\ Goto(r, "closures")
    /\ UNCHANGED <<tableVars, typeVars, hours, closures, lock, length, seenBooked>>

Confirmed == {r \in Requests : status[r] = "confirmed"}

\* day_slots, second query.
ReadBooked(r) ==
    /\ pc[r] = "closures"
    /\ seenBooked' = [seenBooked EXCEPT ![r] = Confirmed]
    /\ Goto(r, "booked")
    /\ UNCHANGED <<tableVars, typeVars, hours, closures, lock, length, seenClosures>>

\* Slip: a slot that starts before the rule's end, whenever it ends.
OnGridPastEnd(rule, start, len) ==
    \E k \in 0 .. Horizon : start = rule.from + k * len /\ start < rule.to

\* The start is one of the rule's slots: cursor starts at the rule's and moves
\* by the duration.
OnGrid(rule, start, len) ==
    \E k \in 0 .. Horizon : start = rule.from + k * len /\ start + len <= rule.to

Slot(r) ==
    LET end == startsAt[r] + length[r]
    IN  /\ \E rule \in hours : OnGrid(rule, startsAt[r], length[r])
        /\ \A c \in seenClosures[r] : ~Overlap(c.from, c.to, startsAt[r], end)
        /\ \A b \in seenBooked[r] : ~Overlap(startsAt[b], endsAt[b], startsAt[r], end)

\* What the queries returned is not used after the check.
Forget(r) ==
    /\ seenClosures' = [seenClosures EXCEPT ![r] = {}]
    /\ seenBooked' = [seenBooked EXCEPT ![r] = {}]

\* day_slots, third query, and the answer of available?.  A free slot can be
\* refused all the same: its start has passed, or the day has MAX_RESULTS (100)
\* free slots before it.
Check(r) ==
    /\ pc[r] = "booked"
    /\ \/ /\ Slot(r)
          /\ Goto(r, "insert") /\ UNCHANGED lock
       \/ /\ Goto(r, "conflict") /\ lock' = NoOne
    /\ Forget(r)
    /\ UNCHANGED <<tableVars, typeVars, hours, closures, length>>

\* create!, in the transaction: nobody sees the row yet.  The foreign key refuses
\* an appointment whose type is gone, and keeps the type from then on.
Insert(r) ==
    /\ pc[r] = "insert" /\ typeOf[r] \in exists
    /\ Goto(r, "created")
    /\ UNCHANGED <<tableVars, typeVars, hours, closures, lock, length, seenClosures,
                   seenBooked>>

\* Slip: the end from the type's row as it is now.
CommitReloadsType(r) ==
    /\ pc[r] = "created"
    /\ status' = [status EXCEPT ![r] = "confirmed"]
    /\ endsAt' = [endsAt EXCEPT ![r] = startsAt[r] + duration[typeOf[r]]]
    /\ Goto(r, "committed") /\ lock' = NoOne
    /\ UNCHANGED <<startsAt, typeOf, typeVars, hours, closures, length, seenClosures,
                   seenBooked>>

\* The commit at the end of with_lock, which shows the row and gives up the lock.
Commit(r) ==
    /\ pc[r] = "created"
    /\ status' = [status EXCEPT ![r] = "confirmed"]
    /\ endsAt' = [endsAt EXCEPT ![r] = startsAt[r] + length[r]]
    /\ Goto(r, "committed") /\ lock' = NoOne
    /\ UNCHANGED <<startsAt, typeOf, typeVars, hours, closures, length, seenClosures,
                   seenBooked>>

\* 201, with the appointment.
Answer(r) ==
    /\ pc[r] = "committed"
    /\ Goto(r, "booking")
    /\ UNCHANGED <<tableVars, typeVars, hours, closures, lock, length, seenClosures,
                   seenBooked>>

\* Slip: a transaction whose commit is not acknowledged is tried again.
TriedAgain(r) ==
    /\ pc[r] = "committed"
    /\ Goto(r, "loaded")
    /\ UNCHANGED <<tableVars, typeVars, hours, closures, lock, length, seenClosures,
                   seenBooked>>

\* The commit is done and its acknowledgement or the answer is lost: the database
\* connection or the process dies (500 or no answer), and the row stays.
AnswerLost(r) ==
    /\ pc[r] = "committed"
    /\ Goto(r, "failed")
    /\ UNCHANGED <<tableVars, typeVars, hours, closures, lock, length, seenClosures,
                   seenBooked>>

InTransaction(r) == pc[r] \in {"locked", "closures", "booked", "insert", "created"}

\* Slip: a lock of the program's own, which outlives the transaction.
AbortKeepsLock(r) ==
    /\ InTransaction(r)
    /\ Goto(r, "failed")
    /\ Forget(r)
    /\ UNCHANGED <<tableVars, typeVars, hours, closures, lock, length>>

\* The transaction ends without a commit: the foreign key, a lost connection, the
\* process dies.
Abort(r) ==
    /\ InTransaction(r)
    /\ Goto(r, "failed") /\ lock' = NoOne
    /\ Forget(r)
    /\ UNCHANGED <<tableVars, typeVars, hours, closures, length>>

-----------------------------------------------------------------------------
(* The dashboard *)

\* AppointmentsController#destroy
Cancel(r) ==
    /\ status[r] = "confirmed"
    /\ status' = [status EXCEPT ![r] = "cancelled"]
    /\ UNCHANGED <<startsAt, endsAt, typeOf, typeVars, hours, closures, lock, requestVars>>

\* AppointmentTypesController#update
EditType(t) ==
    /\ t \in exists
    /\ \E d \in Durations : duration' = [duration EXCEPT ![t] = d]
    /\ \E on \in BOOLEAN : active' = [active EXCEPT ![t] = on]
    /\ UNCHANGED <<tableVars, exists, doomed, hours, closures, lock, requestVars>>

HasAppointments(t) == \E r \in Requests : typeOf[r] = t /\ status[r] # "none"

\* AppointmentTypesController#destroy looks for appointments ...
DestroyType(t) ==
    /\ t \in exists \ doomed /\ ~HasAppointments(t)
    /\ doomed' = doomed \cup {t}
    /\ UNCHANGED <<tableVars, duration, active, exists, hours, closures, lock, requestVars>>

\* Slip: neither restrict_with_error nor a foreign key.
TypeDestroyedAnyway(t) ==
    /\ t \in doomed
    /\ doomed' = doomed \ {t}
    /\ exists' = exists \ {t}
    /\ UNCHANGED <<tableVars, duration, active, hours, closures, lock, requestVars>>

\* ... and then destroys the type, which restrict_with_error and the foreign key
\* refuse if there are any by now; it waits for a transaction that has made one.
TypeDestroyed(t) ==
    /\ t \in doomed /\ \A r \in Requests : pc[r] = "created" => typeOf[r] # t
    /\ doomed' = doomed \ {t}
    /\ exists' = IF HasAppointments(t) THEN exists ELSE exists \ {t}
    /\ UNCHANGED <<tableVars, duration, active, hours, closures, lock, requestVars>>

\* AvailabilityRulesController and AvailabilityExceptionsController.  A change
\* of a row is a removal and an addition.  The validation that a rule overlaps
\* no other reads the table without a lock and cannot be relied on.
EditHours ==
    /\ \E s \in Rules : hours' \in {hours \cup {s}, hours \ {s}}
    /\ UNCHANGED <<tableVars, typeVars, closures, lock, requestVars>>

EditClosures ==
    /\ \E s \in Blocks : closures' \in {closures \cup {s}, closures \ {s}}
    /\ UNCHANGED <<tableVars, typeVars, hours, lock, requestVars>>

-----------------------------------------------------------------------------

RequestStep(r) ==
    \/ Refuse(r) \/ LoadType(r)
    \/ Lock(r) \/ ReadClosures(r) \/ ReadBooked(r) \/ Check(r) \/ Insert(r) \/ Commit(r)
    \/ Abort(r)
    \/ Answer(r) \/ AnswerLost(r)

DashboardStep ==
    \/ \E r \in Requests : Cancel(r)
    \/ \E t \in Types : EditType(t) \/ DestroyType(t) \/ TypeDestroyed(t)
    \/ EditHours \/ EditClosures

Next == (\E r \in Requests : RequestStep(r)) \/ DashboardStep

Spec == Init /\ [][Next]_vars

\* Threads run on: each takes its next step once it can for good.  No fairness
\* among the waiters is needed, for a request takes the lock once.
Fairness == \A r \in Requests : WF_vars(RequestStep(r))

FairSpec == Spec /\ Fairness

-----------------------------------------------------------------------------

BookingCalendar == INSTANCE Calendar

\* Whatever threads and edits do between its statements, a booking is one
\* indivisible reservation of time nobody else has.
ImplementsCalendar == BookingCalendar!Spec

\* No two confirmed appointments of the workspace overlap: not for types of
\* different durations, not after a duration was changed under a running request.
NoOverlap == BookingCalendar!NoOverlap

\* What a request was told is what it did, whatever of it was lost: a booked answer
\* (201) stands for a row of the length that was loaded before the lock, and a
\* refusal (409, 404, 422, 400) is given to nobody who has a row.  A 500 or no answer
\* says nothing: the commit may have been the last thing that went well.
AnswersAreTrue ==
    \A r \in Requests :
        /\ pc[r] = "booking" => status[r] # "none" /\ endsAt[r] = startsAt[r] + length[r]
        /\ pc[r] \in {"conflict", "refused"} => status[r] = "none"

\* An appointment never loses its type: a destruction that found no appointments
\* and goes on while one is booked is refused, or refuses it.
TypesOfAppointmentsExist ==
    \A r \in Requests : status[r] # "none" => typeOf[r] \in exists

\* Every request is answered, however often others take the lock before it.
EveryRequestAnswered ==
    \A r \in Requests : pc[r] = "loaded" ~> pc[r] \in {"booking", "conflict", "failed"}

=============================================================================
