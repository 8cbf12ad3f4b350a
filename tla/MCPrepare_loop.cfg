\* A limit of 8 bytes stands for the 2^30 of the code: items of up to four
\* bytes fill it after several doublings, from capacities that are powers of
\* two and such that are not, empty and beyond the limit.
CONSTANTS
    GrowLimit = 8
    Doublings = {1, 2, 4, 8}
    Capacities = {0, 3, 9}
    Sizes = {1, 4}
    Additionals = {0, 3}

SPECIFICATION Spec

INVARIANTS
    RoomIsThere
PROPERTIES
    ImplementsPrepare
    PrepareEnds
