CONSTANTS
    Writers = {w1}
    Ids = {1, 2}
    BadId = BadId
    Hashes = {h1, h2}
    DropLists <- SerialDrops
    MaxTime = 3
    None = None
    Same = Same
    Overlapping = FALSE
SPECIFICATION Spec

    
    
    
PROPERTIES
    DropsAreLogged
