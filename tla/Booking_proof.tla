---------------------------- MODULE Booking_proof ----------------------------
(***************************************************************************)
(* What Booking promises for every number of requests, types, rules and    *)
(* closures, and for a day of any length: the invariants TLC checks, and   *)
(* that Booking implements Calendar.                                       *)
(***************************************************************************)
EXTENDS Booking, TLAPS

Holding == {"locked", "closures", "booked", "insert", "created"}

\* A request between with_lock and the end of its transaction holds the row.
HoldsLock == \A r \in Requests : pc[r] \in Holding => lock = r

\* The duration it loaded is positive.
HasLength == \A r \in Requests : pc[r] \in Holding \cup {"loaded"} => length[r] > 0

\* While it holds the row nobody else confirms an appointment: what it read ...
SeesConfirmed == \A r \in Requests : pc[r] = "booked" => Confirmed \subseteq seenBooked[r]

\* ... and the slot it found free still tell the truth when it inserts and commits.
StillFree ==
    \A r \in Requests : pc[r] \in {"insert", "created"} =>
        /\ startsAt[r] + length[r] <= Horizon
        /\ \A b \in Confirmed : ~Overlap(startsAt[b], endsAt[b],
                                         startsAt[r], startsAt[r] + length[r])

\* A row is behind nobody but those whose transaction was committed, and it has
\* the length they loaded.
Rows ==
    \A r \in Requests :
        /\ status[r] # "none" => pc[r] \in {"committed", "booking", "failed"}
        /\ pc[r] \in {"committed", "booking"} =>
              status[r] # "none" /\ endsAt[r] = startsAt[r] + length[r]

\* The type of a row exists, before and after its commit.
TypesHeld ==
    \A r \in Requests : status[r] # "none" \/ pc[r] = "created" => typeOf[r] \in exists

\* The inductive invariant.
IInv ==
    /\ TypeOK /\ Rows
    /\ HoldsLock /\ HasLength /\ SeesConfirmed /\ StillFree
    /\ NoOverlap /\ TypesHeld

-----------------------------------------------------------------------------

USE DEF Holding, InTransaction, Confirmed, Goto, Forget, tableVars, typeVars, requestVars

LEMMA InitIInv == Init => IInv
<1> SUFFICES ASSUME Init PROVE IInv
  OBVIOUS
<1>1. TypeOK
  BY BookingAssumption DEF Init, TypeOK, Times
<1> QED
  BY <1>1 DEF Init, IInv, Rows, HoldsLock, HasLength, SeesConfirmed, StillFree,
              NoOverlap, BookingCalendar!NoOverlap, TypesHeld

\* The appointments stay: what the invariant says of them alone, and what is read
\* of them, stays too.
LEMMA TablesKept ==
    ASSUME IInv, UNCHANGED tableVars
    PROVE NoOverlap' /\ Confirmed' = Confirmed
<1> QED
  BY DEF IInv, NoOverlap, BookingCalendar!NoOverlap, BookingCalendar!Overlap

\* A step of the dashboard that leaves the appointments alone.
LEMMA RequestsKept ==
    ASSUME IInv, UNCHANGED <<tableVars, lock, requestVars>>
    PROVE /\ Rows' /\ HoldsLock' /\ HasLength' /\ SeesConfirmed' /\ StillFree'
          /\ NoOverlap'
<1> QED
  BY DEF IInv, Rows, HoldsLock, HasLength, SeesConfirmed, StillFree, Overlap,
         NoOverlap, BookingCalendar!NoOverlap, BookingCalendar!Overlap

LEMMA NextIInv == IInv /\ [Next]_vars => IInv'
<1> SUFFICES ASSUME IInv, [Next]_vars PROVE IInv'
  OBVIOUS
<1>1. ASSUME NEW r \in Requests, LoadType(r) PROVE IInv'
  <2>1. NoOverlap' /\ Confirmed' = Confirmed
    BY <1>1, TablesKept DEF LoadType
  <2>2. duration[typeOf[r]] \in Nat /\ duration[typeOf[r]] > 0
    <3>1. duration[typeOf[r]] \in Durations
      BY <1>1 DEF IInv, TypeOK
    <3>2. \A n \in Durations : n \in Nat /\ n > 0
      BY BookingAssumption
    <3> QED
      BY <3>1, <3>2
  <2>3. CASE Goto(r, "loaded") /\ length' = [length EXCEPT ![r] = duration[typeOf[r]]]
    <3>1. TypeOK'
      BY <1>1, <2>2, <2>3 DEF LoadType, IInv, TypeOK
    <3>2. Rows' /\ HoldsLock' /\ HasLength'
      BY <1>1, <2>2, <2>3 DEF LoadType, IInv, TypeOK, Rows, HoldsLock, HasLength
    <3>3. TypesHeld'
      BY <1>1, <2>3 DEF LoadType, IInv, TypeOK, TypesHeld
    <3>4. SeesConfirmed' /\ StillFree'
      BY <1>1, <2>1, <2>3 DEF LoadType, IInv, TypeOK, SeesConfirmed, StillFree
    <3> QED
      BY <2>1, <3>1, <3>2, <3>3, <3>4 DEF IInv
  <2>4. CASE Goto(r, "refused") /\ UNCHANGED length
    <3>1. TypeOK'
      BY <1>1, <2>4 DEF LoadType, IInv, TypeOK
    <3>2. Rows' /\ HoldsLock' /\ HasLength'
      BY <1>1, <2>4 DEF LoadType, IInv, TypeOK, Rows, HoldsLock, HasLength
    <3>3. TypesHeld'
      BY <1>1, <2>4 DEF LoadType, IInv, TypeOK, TypesHeld
    <3>4. SeesConfirmed' /\ StillFree'
      BY <1>1, <2>1, <2>4 DEF LoadType, IInv, TypeOK, SeesConfirmed, StillFree
    <3> QED
      BY <2>1, <3>1, <3>2, <3>3, <3>4 DEF IInv
  <2> QED
    BY <1>1, <2>3, <2>4 DEF LoadType
<1>2. ASSUME NEW r \in Requests, Lock(r) PROVE IInv'
  <2>1. NoOverlap' /\ Confirmed' = Confirmed
    BY <1>2, TablesKept DEF Lock
  <2>2. TypeOK'
    BY <1>2, <2>1 DEF Lock, IInv, TypeOK
  <2>3. Rows'
    BY <1>2, <2>1 DEF Lock, IInv, TypeOK, Rows
  <2>4. HoldsLock'
    BY <1>2, <2>1, BookingAssumption DEF Lock, IInv, TypeOK, HoldsLock
  <2>5. HasLength'
    BY <1>2, <2>1 DEF Lock, IInv, TypeOK, HasLength
  <2>6. SeesConfirmed'
    BY <1>2, <2>1 DEF Lock, IInv, TypeOK, SeesConfirmed, HoldsLock
  <2>7. StillFree'
    BY <1>2, <2>1 DEF Lock, IInv, TypeOK, StillFree, HoldsLock, Overlap
  <2>8. TypesHeld'
    BY <1>2 DEF Lock, IInv, TypeOK, TypesHeld
  <2> QED
    BY <2>1, <2>2, <2>3, <2>4, <2>5, <2>6, <2>7, <2>8 DEF IInv
<1>3. ASSUME NEW r \in Requests, ReadClosures(r) PROVE IInv'
  <2>1. NoOverlap' /\ Confirmed' = Confirmed
    BY <1>3, TablesKept DEF ReadClosures
  <2>2. TypeOK'
    BY <1>3, <2>1 DEF ReadClosures, IInv, TypeOK
  <2>3. Rows'
    BY <1>3, <2>1 DEF ReadClosures, IInv, TypeOK, Rows
  <2>4. HoldsLock'
    BY <1>3, <2>1 DEF ReadClosures, IInv, TypeOK, HoldsLock
  <2>5. HasLength'
    BY <1>3, <2>1 DEF ReadClosures, IInv, TypeOK, HasLength
  <2>6. SeesConfirmed'
    BY <1>3, <2>1 DEF ReadClosures, IInv, TypeOK, SeesConfirmed, HoldsLock
  <2>7. StillFree'
    BY <1>3, <2>1 DEF ReadClosures, IInv, TypeOK, StillFree, HoldsLock, Overlap
  <2>8. TypesHeld'
    BY <1>3 DEF ReadClosures, IInv, TypeOK, TypesHeld
  <2> QED
    BY <2>1, <2>2, <2>3, <2>4, <2>5, <2>6, <2>7, <2>8 DEF IInv
<1>4. ASSUME NEW r \in Requests, ReadBooked(r) PROVE IInv'
  <2>1. NoOverlap' /\ Confirmed' = Confirmed
    BY <1>4, TablesKept DEF ReadBooked
  <2>2. TypeOK'
    BY <1>4, <2>1 DEF ReadBooked, IInv, TypeOK
  <2>3. Rows'
    BY <1>4, <2>1 DEF ReadBooked, IInv, TypeOK, Rows
  <2>4. HoldsLock'
    BY <1>4, <2>1 DEF ReadBooked, IInv, TypeOK, HoldsLock
  <2>5. HasLength'
    BY <1>4, <2>1 DEF ReadBooked, IInv, TypeOK, HasLength
  <2>6. SeesConfirmed'
    BY <1>4, <2>1 DEF ReadBooked, IInv, TypeOK, SeesConfirmed, HoldsLock
  <2>7. StillFree'
    BY <1>4, <2>1 DEF ReadBooked, IInv, TypeOK, StillFree, HoldsLock, Overlap
  <2>8. TypesHeld'
    BY <1>4 DEF ReadBooked, IInv, TypeOK, TypesHeld
  <2> QED
    BY <2>1, <2>2, <2>3, <2>4, <2>5, <2>6, <2>7, <2>8 DEF IInv
<1>5. ASSUME NEW r \in Requests, Check(r) PROVE IInv'
  <2>1. NoOverlap' /\ Confirmed' = Confirmed
    BY <1>5, TablesKept DEF Check
  <2>2. TypeOK'
    BY <1>5, <2>1 DEF Check, IInv, TypeOK
  <2>3. Rows'
    BY <1>5, <2>1 DEF Check, IInv, TypeOK, Rows
  <2>4. HoldsLock'
    BY <1>5, <2>1 DEF Check, IInv, TypeOK, HoldsLock
  <2>5. HasLength'
    BY <1>5, <2>1 DEF Check, IInv, TypeOK, HasLength
  <2>6. SeesConfirmed'
    BY <1>5, <2>1 DEF Check, IInv, TypeOK, SeesConfirmed, HoldsLock
  <2>7. StillFree'
    <3>1. CASE Slot(r) /\ Goto(r, "insert")
      <4>1. startsAt[r] \in Nat /\ length[r] \in Nat /\ startsAt[r] + length[r] <= Horizon
        BY <3>1, BookingAssumption DEF IInv, TypeOK, Slot, OnGrid, Spans, Times
      <4>2. \A b \in Confirmed : ~Overlap(startsAt[b], endsAt[b],
                                         startsAt[r], startsAt[r] + length[r])
        BY <1>5, <3>1 DEF Check, IInv, SeesConfirmed, Slot
      <4> QED
        BY <1>5, <2>1, <3>1, <4>1, <4>2 DEF Check, IInv, TypeOK, StillFree
    <3>2. CASE Goto(r, "conflict")
      BY <1>5, <2>1, <3>2 DEF Check, IInv, TypeOK, StillFree
    <3> QED
      BY <1>5, <3>1, <3>2 DEF Check
  <2>8. TypesHeld'
    BY <1>5 DEF Check, IInv, TypeOK, TypesHeld
  <2> QED
    BY <2>1, <2>2, <2>3, <2>4, <2>5, <2>6, <2>7, <2>8 DEF IInv
<1>6. ASSUME NEW r \in Requests, Commit(r) PROVE IInv'
  <2>1. TypeOK'
    BY <1>6, BookingAssumption DEF Commit, IInv, TypeOK, StillFree, Times
  <2>2. Rows'
    BY <1>6 DEF Commit, IInv, TypeOK, Rows
  <2>3. HoldsLock'
    BY <1>6 DEF Commit, IInv, TypeOK, HoldsLock
  <2>4. HasLength'
    BY <1>6 DEF Commit, IInv, TypeOK, HasLength
  <2>5. SeesConfirmed'
    BY <1>6 DEF Commit, IInv, TypeOK, SeesConfirmed, HoldsLock
  <2>6. StillFree'
    BY <1>6 DEF Commit, IInv, TypeOK, StillFree, HoldsLock, Overlap
  <2>7. NoOverlap'
    BY <1>6 DEF Commit, IInv, TypeOK, NoOverlap, BookingCalendar!NoOverlap,
                BookingCalendar!Overlap, Overlap, StillFree
  <2>8. TypesHeld'
    BY <1>6 DEF Commit, IInv, TypeOK, TypesHeld
  <2> QED
    BY <2>1, <2>2, <2>3, <2>4, <2>5, <2>6, <2>7, <2>8 DEF IInv
<1>7. ASSUME NEW r \in Requests, Abort(r) PROVE IInv'
  <2>1. NoOverlap' /\ Confirmed' = Confirmed
    BY <1>7, TablesKept DEF Abort
  <2>2. TypeOK'
    BY <1>7, <2>1 DEF Abort, IInv, TypeOK
  <2>3. Rows'
    BY <1>7, <2>1 DEF Abort, IInv, TypeOK, Rows
  <2>4. HoldsLock'
    BY <1>7, <2>1 DEF Abort, IInv, TypeOK, HoldsLock
  <2>5. HasLength'
    BY <1>7, <2>1 DEF Abort, IInv, TypeOK, HasLength
  <2>6. SeesConfirmed'
    BY <1>7, <2>1 DEF Abort, IInv, TypeOK, SeesConfirmed, HoldsLock
  <2>7. StillFree'
    BY <1>7, <2>1 DEF Abort, IInv, TypeOK, StillFree, HoldsLock, Overlap
  <2>8. TypesHeld'
    BY <1>7 DEF Abort, IInv, TypeOK, TypesHeld
  <2> QED
    BY <2>1, <2>2, <2>3, <2>4, <2>5, <2>6, <2>7, <2>8 DEF IInv
<1>8. ASSUME NEW r \in Requests, Cancel(r) PROVE IInv'
  <2>1. TypeOK'
    BY <1>8 DEF Cancel, IInv, TypeOK
  <2>2. Rows'
    BY <1>8 DEF Cancel, IInv, TypeOK, Rows
  <2>3. HoldsLock'
    BY <1>8 DEF Cancel, IInv, TypeOK, HoldsLock
  <2>4. HasLength'
    BY <1>8 DEF Cancel, IInv, TypeOK, HasLength
  <2>5. SeesConfirmed'
    BY <1>8 DEF Cancel, IInv, TypeOK, SeesConfirmed, HoldsLock
  <2>6. StillFree'
    BY <1>8 DEF Cancel, IInv, TypeOK, StillFree, HoldsLock, Overlap
  <2>7. NoOverlap'
    BY <1>8 DEF Cancel, IInv, TypeOK, NoOverlap, BookingCalendar!NoOverlap,
                BookingCalendar!Overlap, Overlap, StillFree
  <2>8. TypesHeld'
    BY <1>8 DEF Cancel, IInv, TypeOK, TypesHeld
  <2> QED
    BY <2>1, <2>2, <2>3, <2>4, <2>5, <2>6, <2>7, <2>8 DEF IInv
<1>9. ASSUME NEW t \in Types, EditType(t) PROVE IInv'
  <2>1. TypeOK'
    BY <1>9 DEF EditType, IInv, TypeOK
  <2>2. TypesHeld'
    BY <1>9 DEF EditType, IInv, TypesHeld, TypeOK
  <2> QED
    BY <1>9, <2>1, <2>2, RequestsKept DEF EditType, IInv
<1>10. ASSUME NEW t \in Types, DestroyType(t) PROVE IInv'
  <2>1. TypeOK'
    BY <1>10 DEF DestroyType, IInv, TypeOK
  <2>2. TypesHeld'
    BY <1>10 DEF DestroyType, IInv, TypesHeld, TypeOK
  <2> QED
    BY <1>10, <2>1, <2>2, RequestsKept DEF DestroyType, IInv
<1>11. ASSUME NEW t \in Types, TypeDestroyed(t) PROVE IInv'
  <2>1. TypeOK'
    BY <1>11 DEF TypeDestroyed, IInv, TypeOK
  <2>2. TypesHeld'
    BY <1>11 DEF TypeDestroyed, IInv, TypesHeld, TypeOK, HasAppointments
  <2> QED
    BY <1>11, <2>1, <2>2, RequestsKept DEF TypeDestroyed, IInv
<1>12. ASSUME EditHours PROVE IInv'
  <2>1. TypeOK'
    BY <1>12 DEF EditHours, IInv, TypeOK
  <2>2. TypesHeld'
    BY <1>12 DEF EditHours, IInv, TypesHeld
  <2> QED
    BY <1>12, <2>1, <2>2, RequestsKept DEF EditHours, IInv
<1>13. ASSUME EditClosures PROVE IInv'
  <2>1. TypeOK'
    BY <1>13 DEF EditClosures, IInv, TypeOK
  <2>2. TypesHeld'
    BY <1>13 DEF EditClosures, IInv, TypesHeld
  <2> QED
    BY <1>13, <2>1, <2>2, RequestsKept DEF EditClosures, IInv
<1>14. ASSUME NEW r \in Requests, Refuse(r) PROVE IInv'
  <2>1. NoOverlap' /\ Confirmed' = Confirmed
    BY <1>14, TablesKept DEF Refuse
  <2>2. TypeOK'
    BY <1>14, <2>1 DEF Refuse, IInv, TypeOK
  <2>3. Rows'
    BY <1>14, <2>1 DEF Refuse, IInv, TypeOK, Rows
  <2>4. HoldsLock' /\ HasLength'
    BY <1>14, <2>1 DEF Refuse, IInv, TypeOK, HoldsLock, HasLength
  <2>5. SeesConfirmed' /\ StillFree'
    BY <1>14, <2>1 DEF Refuse, IInv, TypeOK, SeesConfirmed, StillFree
  <2>6. TypesHeld'
    BY <1>14 DEF Refuse, IInv, TypeOK, TypesHeld
  <2> QED
    BY <2>1, <2>2, <2>3, <2>4, <2>5, <2>6 DEF IInv
<1>15. ASSUME NEW r \in Requests, Insert(r) PROVE IInv'
  <2>1. NoOverlap' /\ Confirmed' = Confirmed
    BY <1>15, TablesKept DEF Insert
  <2>2. TypeOK'
    BY <1>15, <2>1 DEF Insert, IInv, TypeOK
  <2>3. Rows'
    BY <1>15, <2>1 DEF Insert, IInv, TypeOK, Rows
  <2>4. HoldsLock' /\ HasLength'
    BY <1>15, <2>1 DEF Insert, IInv, TypeOK, HoldsLock, HasLength
  <2>5. SeesConfirmed' /\ StillFree'
    BY <1>15, <2>1 DEF Insert, IInv, TypeOK, SeesConfirmed, StillFree
  <2>6. TypesHeld'
    BY <1>15 DEF Insert, IInv, TypeOK, TypesHeld
  <2> QED
    BY <2>1, <2>2, <2>3, <2>4, <2>5, <2>6 DEF IInv
<1>16. ASSUME NEW r \in Requests, Answer(r) PROVE IInv'
  <2>1. NoOverlap' /\ Confirmed' = Confirmed
    BY <1>16, TablesKept DEF Answer
  <2>2. TypeOK'
    BY <1>16, <2>1 DEF Answer, IInv, TypeOK
  <2>3. Rows'
    BY <1>16, <2>1 DEF Answer, IInv, TypeOK, Rows
  <2>4. HoldsLock' /\ HasLength'
    BY <1>16, <2>1 DEF Answer, IInv, TypeOK, HoldsLock, HasLength
  <2>5. SeesConfirmed' /\ StillFree'
    BY <1>16, <2>1 DEF Answer, IInv, TypeOK, SeesConfirmed, StillFree
  <2>6. TypesHeld'
    BY <1>16 DEF Answer, IInv, TypeOK, TypesHeld
  <2> QED
    BY <2>1, <2>2, <2>3, <2>4, <2>5, <2>6 DEF IInv
<1>17. ASSUME NEW r \in Requests, AnswerLost(r) PROVE IInv'
  <2>1. NoOverlap' /\ Confirmed' = Confirmed
    BY <1>17, TablesKept DEF AnswerLost
  <2>2. TypeOK'
    BY <1>17, <2>1 DEF AnswerLost, IInv, TypeOK
  <2>3. Rows'
    BY <1>17, <2>1 DEF AnswerLost, IInv, TypeOK, Rows
  <2>4. HoldsLock' /\ HasLength'
    BY <1>17, <2>1 DEF AnswerLost, IInv, TypeOK, HoldsLock, HasLength
  <2>5. SeesConfirmed' /\ StillFree'
    BY <1>17, <2>1 DEF AnswerLost, IInv, TypeOK, SeesConfirmed, StillFree
  <2>6. TypesHeld'
    BY <1>17 DEF AnswerLost, IInv, TypeOK, TypesHeld
  <2> QED
    BY <2>1, <2>2, <2>3, <2>4, <2>5, <2>6 DEF IInv
<1>18. ASSUME UNCHANGED vars PROVE IInv'
  <2>1. TypeOK'
    BY <1>18 DEF vars, IInv, TypeOK
  <2>2. TypesHeld'
    BY <1>18 DEF vars, IInv, TypesHeld
  <2> QED
    BY <1>18, <2>1, <2>2, RequestsKept DEF vars, IInv
<1> QED
  BY <1>1, <1>2, <1>3, <1>4, <1>5, <1>6, <1>7, <1>8, <1>9, <1>10, <1>11,
     <1>12, <1>13, <1>14, <1>15, <1>16, <1>17, <1>18 DEF Next, RequestStep, DashboardStep

-----------------------------------------------------------------------------

\* The inductive invariant holds of every behaviour of the booking service.
THEOREM Inductive == Spec => []IInv
<1> QED
  BY InitIInv, NextIInv, PTL DEF Spec

\* Every variable keeps its type: in particular no appointment ends after the day.
THEOREM TypeCorrect == Spec => []TypeOK
<1> QED
  BY Inductive, PTL DEF IInv

\* AppointmentBookingService#call never confirms two overlapping appointments of a
\* workspace, whatever other requests and the dashboard do between its statements.
THEOREM NoDoubleBooking == Spec => []NoOverlap
<1> QED
  BY Inductive, PTL DEF IInv

\* A 201 stands for a row of the length that was loaded before the lock, and nobody
\* who has a row was refused (409, 404, 422, 400), wherever AppointmentBookingService
\* and the action that renders its result were cut off.
THEOREM Truthful == Spec => []AnswersAreTrue
<1>1. IInv => AnswersAreTrue
  BY DEF IInv, Rows, AnswersAreTrue
<1> QED
  BY <1>1, Inductive, PTL

\* AppointmentTypesController#destroy never orphans an appointment.
THEOREM TypesKept == Spec => []TypesOfAppointmentsExist
<1>1. IInv => TypesOfAppointmentsExist
  BY DEF IInv, TypesHeld, TypesOfAppointmentsExist
<1> QED
  BY <1>1, Inductive, PTL

\* A request's several statements together are one reservation of free time.
LEMMA CommitReserves ==
    ASSUME IInv, NEW r \in Requests, Commit(r)
    PROVE BookingCalendar!Reserve(r)
<1> DEFINE end == startsAt[r] + length[r]
<1>1. startsAt[r] \in Times /\ end \in Times /\ startsAt[r] < end
  BY BookingAssumption DEF Commit, IInv, TypeOK, HasLength, StillFree, Times
<1>2. BookingCalendar!Free(startsAt[r], end)
  BY DEF Commit, IInv, StillFree, Overlap, BookingCalendar!Free, BookingCalendar!Overlap
<1>3. status[r] = "none"
  BY DEF Commit, IInv, Rows
<1>4. /\ startsAt' = [startsAt EXCEPT ![r] = startsAt[r]]
      /\ endsAt' = [endsAt EXCEPT ![r] = end]
      /\ status' = [status EXCEPT ![r] = "confirmed"]
  BY DEF Commit, IInv, TypeOK
<1> QED
  BY <1>1, <1>2, <1>3, <1>4 DEF BookingCalendar!Reserve

\* Booking, statement by statement, implements the calendar in which a booking is
\* one indivisible step.
THEOREM Refinement == Spec => ImplementsCalendar
<1>1. Init => BookingCalendar!Init
  BY BookingAssumption DEF Init, BookingCalendar!Init, Times
<1>2. IInv /\ [Next]_vars => [BookingCalendar!Next]_(BookingCalendar!calendarVars)
  <2> SUFFICES ASSUME IInv, [Next]_vars
               PROVE [BookingCalendar!Next]_(BookingCalendar!calendarVars)
    OBVIOUS
  <2>1. ASSUME NEW r \in Requests, Commit(r) PROVE BookingCalendar!Next
    BY <2>1, CommitReserves DEF BookingCalendar!Next
  <2>2. ASSUME NEW r \in Requests, Cancel(r) PROVE BookingCalendar!Next
    BY <2>2 DEF Cancel, BookingCalendar!Next, BookingCalendar!Release
  <2>3. ASSUME NEW r \in Requests,
               \/ Refuse(r) \/ LoadType(r) \/ Lock(r) \/ ReadClosures(r) \/ ReadBooked(r)
               \/ Check(r) \/ Insert(r) \/ Abort(r) \/ Answer(r) \/ AnswerLost(r)
        PROVE UNCHANGED BookingCalendar!calendarVars
    BY <2>3 DEF Refuse, LoadType, Lock, ReadClosures, ReadBooked, Check, Insert, Abort,
                Answer, AnswerLost, BookingCalendar!calendarVars
  <2>4. ASSUME \/ \E t \in Types : EditType(t) \/ DestroyType(t) \/ TypeDestroyed(t)
               \/ EditHours \/ EditClosures \/ UNCHANGED vars
        PROVE UNCHANGED BookingCalendar!calendarVars
    BY <2>4 DEF EditType, DestroyType, TypeDestroyed, EditHours, EditClosures, vars,
                BookingCalendar!calendarVars
  <2> QED
    BY <2>1, <2>2, <2>3, <2>4 DEF Next, RequestStep, DashboardStep
<1> QED
  BY <1>1, <1>2, Inductive, PTL DEF Spec, ImplementsCalendar, BookingCalendar!Spec

=============================================================================
