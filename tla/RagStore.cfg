SPECIFICATION Spec
CONSTANTS
    Text = {t1, t2}
    Blank = Blank
    FromFile = FromFile
    Nothing = Nothing
    MaxRevision = 4
    MaxEdits = 2
INVARIANTS TypeOK IndexIsCurrent
PROPERTIES ImplementsTextStore IndexedInTheEnd
