SPECIFICATION Spec
CONSTANTS
    None = None
    BrokenLine = BrokenLine
    Contents <- MCContents
    Payloads <- MCPayloads
    Correlations = {"mission"}
    Bodies = {"b"}
    Rows <- MCRows
    DraftKinds = {"bare", "named", "sealed"}
    MaxIds = 3
    MaxEdits = 1
    MaxRestarts = 1
CONSTRAINT DraftsApart
CHECK_DEADLOCK FALSE
INVARIANTS
    ImportIsFaithful
    CleanRoundTrip
PROPERTIES
    DraftLandsWhereSeen
