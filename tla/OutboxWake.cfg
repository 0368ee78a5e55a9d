SPECIFICATION FairSpec
CONSTANTS
    Events = {e1, e2}
INVARIANTS
    NothingOverlooked
PROPERTIES
    EventuallyClaimed
