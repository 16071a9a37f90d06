CONSTANTS
    Ids = {1, 2}
    Hashes = {h1}
    MaxTime = 1
    None = None
    Overlapping = TRUE
    PageSize = 2
    MaxEvents = 4
SPECIFICATION FairWatch
PROPERTIES
    EventuallySent
    NoEventSkipped
    SentInOrder
