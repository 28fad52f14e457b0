CONSTANTS
    Fold <- MCFold
    Catalog <- MCCatalog
    Lower <- MCLower
    System = {"pg_catalog"}
    Policies <- MCPolicies
    Listings <- MCListings
    Limits <- MCLimits
    Details <- MCDetails
    Failures <- MCFailures
    DefaultPageSize = 2
    MaxPageSize = 3
    HintRows = 2
    HintResults = 2
    Pieces <- MCPieces
    Arguments <- MCArguments
    MaxPieces = 5
    Tables <- MCTables
SPECIFICATION ReadingSpec
CHECK_DEADLOCK FALSE
INVARIANTS OneStatementOnly ExpansionIsCode SnapshotPerPartition WrapKeepsOneQuery DiscoveryStaysVisible HintsFindWhatIsVisible ListingIsWhatWasAsked
