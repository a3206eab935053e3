------------------------------ MODULE Calendar ------------------------------
(***************************************************************************)
(* What the booking calendar of one client workspace promises: a booking   *)
(* takes a span of time in one indivisible step, only if no confirmed      *)
(* appointment has any of it, and a cancellation gives it back.            *)
(***************************************************************************)
EXTENDS Naturals

CONSTANTS
    Requests,   \* the booking requests, each of which makes one appointment at most
    Times       \* points in time

VARIABLES
    status,     \* of the appointment each request made: "none", "confirmed", "cancelled"
    startsAt,
    endsAt

calendarVars == <<status, startsAt, endsAt>>

TypeOK ==
    /\ status \in [Requests -> {"none", "confirmed", "cancelled"}]
    /\ startsAt \in [Requests -> Times]
    /\ endsAt \in [Requests -> Times]

Init ==
    /\ status = [r \in Requests |-> "none"]
    /\ startsAt \in [Requests -> Times]
    /\ endsAt \in [Requests -> Times]

\* The query behind "booked" and the test on each of its rows.
Overlap(s1, e1, s2, e2) == s1 < e2 /\ e1 > s2

Free(s, e) ==
    \A r \in Requests : status[r] = "confirmed" => ~Overlap(startsAt[r], endsAt[r], s, e)

Reserve(r) ==
    /\ status[r] = "none"
    /\ \E s, e \in Times :
        /\ s < e /\ Free(s, e)
        /\ startsAt' = [startsAt EXCEPT ![r] = s]
        /\ endsAt' = [endsAt EXCEPT ![r] = e]
    /\ status' = [status EXCEPT ![r] = "confirmed"]

Release(r) ==
    /\ status[r] = "confirmed"
    /\ status' = [status EXCEPT ![r] = "cancelled"]
    /\ UNCHANGED <<startsAt, endsAt>>

Next == \E r \in Requests : Reserve(r) \/ Release(r)

Spec == Init /\ [][Next]_calendarVars

\* No two confirmed appointments of the workspace overlap.
NoOverlap ==
    \A r1, r2 \in Requests :
        r1 # r2 /\ status[r1] = "confirmed" /\ status[r2] = "confirmed" =>
            ~Overlap(startsAt[r1], endsAt[r1], startsAt[r2], endsAt[r2])

=============================================================================
