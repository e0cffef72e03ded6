\* Two articles of two chunks, one of which fits into the cache with half of
\* the other; three calls of play and one crash.
SPECIFICATION Spec
CONSTANTS
    Key = {a, b}
    Chunks = 2
    MaxSize = 3
    MaxPlays = 3
    MaxHurried = 2
    MaxHurry = 2
    MaxCrash = 1
SYMMETRY KeysAlike
INVARIANTS
    TypeOK
    
    
    OneSession
    ShownIsHeard
    
\* After the last play nothing need be left to do.
CHECK_DEADLOCK FALSE
