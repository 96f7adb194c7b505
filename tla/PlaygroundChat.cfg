CONSTANTS
    MaxSends = 2
    MaxPieces = 3
    MaxEdits = 1
    MaxVisits = 1
    Word <- MCWord
SPECIFICATION Spec
INVARIANTS TypeOK  BusyIffActive LeaveSaves
CHECK_DEADLOCK FALSE
