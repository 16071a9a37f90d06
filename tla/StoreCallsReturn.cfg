CONSTANTS
    Writers = {w1, w2}
    Ids = {1, 2}
    BadId = BadId
    Hashes = {h1}
    DropLists <- MixedDrops
    MaxTime = 1
    None = None
    Same = Same
    Overlapping = TRUE
SPECIFICATION FairSpec
PROPERTIES
    CallsReturn
