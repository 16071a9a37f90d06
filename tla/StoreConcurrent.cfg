CONSTANTS
    Writers = {w1, w2}
    Ids = {1, 2}
    BadId = BadId
    Hashes = {h1, h2}
    DropLists <- MixedDrops
    MaxTime = 1
    None = None
    Same = Same
    Overlapping = TRUE
SYMMETRY Symmetry
SPECIFICATION Spec
INVARIANTS
    TypeOK
    
    

    
