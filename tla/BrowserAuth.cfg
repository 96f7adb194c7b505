CONSTANTS
    Tabs = {t1, t2}
    RaceDelays = 1
    MaxSid = 2
    MaxQueue = 1
    MaxEvents = 2
    MaxUnlocked = 0
SPECIFICATION Spec
INVARIANTS TypeOK DroppedStaysDropped CheckingHasOwner HealthyStaysIn
PROPERTIES NoSilentSwitch RevokedIsDropped
CHECK_DEADLOCK FALSE
