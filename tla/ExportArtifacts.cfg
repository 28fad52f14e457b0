SPECIFICATION Spec
CONSTANTS
    Bad = Bad
    Exports = {e1, e2, e3, e4}
    Reads = {r1}
    Handles = {h1, h2, h3}
    Requests <- MCRequests
    MaxEntries = 2
    MaxAttempts = 1
SYMMETRY MCSymmetry
INVARIANTS ListedIsReadable ReadsAreWhole FilesAreAccounted NewestAreListed
CHECK_DEADLOCK FALSE
