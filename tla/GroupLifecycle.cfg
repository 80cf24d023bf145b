CONSTANTS
    None = None
    Names = {n1}
    Groups = {g1, g2}
    Pubs = {p1}
    Subs = {s1}
SPECIFICATION FairSpec
INVARIANTS NoGhostInMap DisposeNeverBlocks
PROPERTIES IdleGroupErased ClosedSessionLeaves
CHECK_DEADLOCK FALSE
