SPECIFICATION Spec
CONSTANTS
    Clients = {c1, c2, c3}
    Nodes = {a1, a2, a3}
    NULL = NULL
    Ids = {i1, i2, i3}
    W = 2
    Sizes = {1, 2}
SYMMETRY Symmetry
INVARIANTS TypeOK ListSound OwnBuffer PointersLive InBounds NoLeak
