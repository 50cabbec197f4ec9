SPECIFICATION Spec
CONSTANTS
    Names = {"t", "u"}
    ColNames = {"a", "b", "c"}
    IndexNames <- MCIndexNames
    Values = {0, 1, 2}
    Null = 0
    NoDefault = NoDefault
    None = None
    TableSpecs <- MCTableSpecs
    NewColumns <- MCNewColumns
    TriggerDefs <- MCTriggerDefs
    OldRecords <- MCOldRecords
    OldRow <- MCOldRow
    MaxColumns = 3
    Inserts <- MCInserts
    Updates <- MCUpdates
    MaxRow = 1
    MaxChanges = 3
    SavepointsAt = {1}
CHECK_DEADLOCK FALSE
INVARIANTS
    CatalogWhole
    CachesFresh
    EntriesMatchRows
PROPERTIES
    ValuesSurviveAlter
