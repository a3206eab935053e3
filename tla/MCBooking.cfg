CONSTANTS
    Requests = {r1, r2}
    Types = {t1}
    Durations = {1, 2}
    Horizon = 3
    Rules <- MCRules
    Blocks <- MCBlocks
    NoOne = NoOne
SPECIFICATION FairSpec
INVARIANTS TypeOK NoOverlap AnswersAreTrue TypesOfAppointmentsExist
PROPERTIES ImplementsCalendar EveryRequestAnswered
\* every request is answered
CHECK_DEADLOCK FALSE
