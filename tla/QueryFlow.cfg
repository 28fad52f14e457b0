SPECIFICATION Spec
CONSTANTS
    Bad = Bad
    Starts <- MCStarts
    Clients <- MCClients
    Base = 3
    Durations = {1, 8, 20}
INVARIANTS PagingLosesNothing AnswersKeepWhatMatters TotalsAreHonest PolicyKept AnsweredWritesLast OverridesLeaveNothing
PROPERTIES PagingEnds
CHECK_DEADLOCK FALSE
