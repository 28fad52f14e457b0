SPECIFICATION Spec
CONSTANTS
    Bad = Bad
    Starts <- MCStarts
    Clients <- MCClients
    Base = 3
    Durations = {1, 8, 20}
INVARIANTS DegradedDeniesWrites
CHECK_DEADLOCK FALSE
