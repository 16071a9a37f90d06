CONSTANTS
    Writers = {w1, w2}
    Ids = {1}
    BadId = BadId
    Hashes = {h1}
    DropLists <- OneIdDrops
    MaxTime = 1
    None = None
    Same = Same
    Overlapping = TRUE
SPECIFICATION Spec
PROPERTIES
    DropsAreLogged
