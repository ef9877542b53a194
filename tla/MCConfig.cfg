CONSTANTS
    Correct <- MCCorrect
    Values <- MCValues
SPECIFICATION Spec
INVARIANTS TypeOK RunsAsConfigured AcceptsWhatSchemaAllows FaultsAreTold
CHECK_DEADLOCK FALSE
