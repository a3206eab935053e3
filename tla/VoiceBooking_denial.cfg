CONSTANTS
    NumSlots = 2
    MaxOffer = 2
SPECIFICATION Spec
INVARIANT TruthfulDenial
