CONSTANTS
    NumSlots = 2
    MaxOffer = 2
SPECIFICATION FairSpec
INVARIANTS TypeOK Consent TruthfulConfirmation DenialIsTrueWhenAnswered
PROPERTY VerdictGiven
