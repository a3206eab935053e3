CONSTANTS
    NumSlots = 2
    MaxOffer = 2
SPECIFICATION Spec
PROPERTY InvitedAnswersAreHeard
