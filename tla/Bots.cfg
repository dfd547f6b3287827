SPECIFICATION Spec
CONSTANTS
    Scripts <- TheScripts
    MaxMishaps = 1
    Resellers <- TheResellers
    MaxGlitches = 1
INVARIANTS TypeOK RecordedWasRun InOrder CopiedOncePerFailure ServedOnMigrated 
PROPERTIES GetsUp SuspendedStops ActiveStarts
