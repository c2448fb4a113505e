CONSTANTS
    d1 = d1
    nil = nil
    Links <- MCLinks
    Dsts = {d1}
    NilDst = nil
    MaxRoutes = 3

SPECIFICATION Spec

INVARIANT IfaceIsDefault
