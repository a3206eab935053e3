SPECIFICATION Spec
CONSTANTS
    Call = {c1, c2, c3}
    Ours = {c1, c2}
    Nobody = Nobody
    MaxRequests = 1
    MaxBreaks = 2
INVARIANTS TypeOK AnswerIsOwn
PROPERTIES StreamedUnlessLost ListensAgain
